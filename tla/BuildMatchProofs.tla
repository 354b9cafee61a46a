-------------------------- MODULE BuildMatchProofs --------------------------
(***************************************************************************)
(* What holds of a build match for every contract, every set of            *)
(* territories, any deadline, points and ways in which agents end.         *)
(*                                                                         *)
(*  1. Lists of events: ApplyAll goes over them one by one, over lists put *)
(*     one behind the other list by list (FoldConcat, FoldJoined).         *)
(*  2. One event, then one call: what it makes of a world, as a relation   *)
(*     between the world before and after (TerritorySet, AgentSet,         *)
(*     Judged, Credited, Moved). Turns of distinct agents do not disturb   *)
(*     one another (TurnsSweep).                                           *)
(*  3. Inv, inductive over the runner's steps. The world agrees with the   *)
(*     referee's records (LedgersOK); the referee's clock is behind        *)
(*     started.elapsed() and, in the drain, where it was frozen (PhaseOK), *)
(*     so that nothing is refused; a pending check is of a milestone that  *)
(*     may still be scored (ChecksOK); each account is what was last seen  *)
(*     of it, and covers a result unless that is still in the channel      *)
(*     (AgentsOK, ChannelOK); whoever is running is yet to be counted      *)
(*     (DrainOK).                                                          *)
(*  4. One lemma for each step of the runner, of the agents and the clock. *)
(*  5. The properties, and the refinement of Race: by Inv the world's      *)
(*     phase, scored and champion are the referee's (Viewed), and only     *)
(*     calls of the referee change those.                                  *)
(***************************************************************************)
EXTENDS BuildMatch, FiniteSetTheorems, WellFoundedInduction, TLAPS

(* Induction over the natural numbers, by a least counterexample.          *)
LEMMA Least ==
  ASSUME NEW T \in SUBSET Nat, T # {}
  PROVE  \E x \in T : \A y \in T : x <= y
<1>1. PICK x \in T : \A y \in T : ~(<<y, x>> \in OpToRel(<, Nat))
  BY NatLessThanWellFounded, WFMin
<1>2. ASSUME NEW y \in T, ~(x <= y) PROVE FALSE
  <2>1. y < x /\ y \in Nat /\ x \in Nat
    BY <1>2
  <2>2. <<y, x>> \in OpToRel(<, Nat)
    BY <2>1 DEF OpToRel
  <2> QED BY <1>1, <2>2
<1> QED BY <1>2

LEMMA SetInduction ==
  ASSUME NEW S, 0 \in S, \A n \in Nat : n \in S => n + 1 \in S
  PROVE  \A n \in Nat : n \in S
<1> SUFFICES ASSUME NEW n \in Nat, n \notin S PROVE FALSE
  OBVIOUS
<1> DEFINE T == {k \in Nat : k \notin S}
<1>1. PICK x \in T : \A y \in T : x <= y
  BY Least
<1>2. x \in Nat /\ x # 0 /\ x \notin S
  BY <1>1
<1>3. x - 1 \in Nat /\ x - 1 \notin T
  BY <1>1, <1>2
<1> QED BY <1>2, <1>3

-----------------------------------------------------------------------------
(* The fold of the events over a world, and its steps.                     *)

Steps(f, w, s) == f = [i \in 0..Len(s) |-> IF i = 0 THEN w ELSE World!Apply(f[i - 1], s[i])]

LEMMA StepsAre ==
  ASSUME NEW f, NEW w, NEW s, Len(s) \in Nat, Steps(f, w, s)
  PROVE  f[0] = w /\ \A i \in 1..Len(s) : f[i] = World!Apply(f[i - 1], s[i])
<1>1. \A i \in 0..Len(s) : f[i] = IF i = 0 THEN w ELSE World!Apply(f[i - 1], s[i])
  BY DEF Steps
<1> QED BY <1>1

LEMMA StepsExist ==
  ASSUME NEW w, NEW s, Len(s) \in Nat
  PROVE  \E f : Steps(f, w, s)
<1> DEFINE Upto(n) == \E f : f = [i \in 0..n |->
                                    IF i = 0 THEN w ELSE World!Apply(f[i - 1], s[i])]
           S == {n \in Nat : Upto(n)}
<1>1. 0 \in S
  <2>1. [i \in 0..0 |-> w] = [i \in 0..0 |->
           IF i = 0 THEN w ELSE World!Apply([j \in 0..0 |-> w][i - 1], s[i])]
    OBVIOUS
  <2> QED BY <2>1
<1>2. \A n \in Nat : n \in S => n + 1 \in S
  <2> SUFFICES ASSUME NEW n \in Nat, n \in S PROVE Upto(n + 1)
    OBVIOUS
  <2>1. PICK f : f = [i \in 0..n |-> IF i = 0 THEN w ELSE World!Apply(f[i - 1], s[i])]
    OBVIOUS
  <2> DEFINE g == [i \in 0..n + 1 |-> IF i = n + 1 THEN World!Apply(f[n], s[n + 1]) ELSE f[i]]
  <2>2. \A i \in 0..n + 1 : g[i] = IF i = 0 THEN w ELSE World!Apply(g[i - 1], s[i])
    <3> SUFFICES ASSUME NEW i \in 0..n + 1
                 PROVE  g[i] = IF i = 0 THEN w ELSE World!Apply(g[i - 1], s[i])
      OBVIOUS
    <3>1. CASE i = n + 1
      <4>1. g[i - 1] = f[n]
        BY <3>1
      <4> QED BY <3>1, <4>1
    <3>2. CASE i # n + 1
      <4>1. i \in 0..n /\ g[i] = f[i] /\ (i # 0 => g[i - 1] = f[i - 1])
        BY <3>2
      <4>2. f[i] = IF i = 0 THEN w ELSE World!Apply(f[i - 1], s[i])
        BY <2>1, <4>1
      <4> QED BY <4>1, <4>2
    <3> QED BY <3>1, <3>2
  <2>3. g = [i \in 0..n + 1 |-> g[i]]
    OBVIOUS
  <2> HIDE DEF g
  <2>4. g = [i \in 0..n + 1 |-> IF i = 0 THEN w ELSE World!Apply(g[i - 1], s[i])]
    BY <2>2, <2>3
  <2> QED BY <2>4
<1> HIDE DEF S, Upto
<1>3. Len(s) \in S
  BY <1>1, <1>2, SetInduction
<1> QED BY <1>3 DEF S, Upto, Steps

(* ApplyAll is the last of its steps, whatever goes in such steps is it.   *)
LEMMA ApplyAllSteps ==
  ASSUME NEW w, NEW s, Len(s) \in Nat
  PROVE  \E f : Steps(f, w, s) /\ World!ApplyAll(w, s) = f[Len(s)]
<1> DEFINE a == CHOOSE f : f = [i \in 0..Len(s) |->
                             IF i = 0 THEN w ELSE World!Apply(f[i - 1], s[i])]
<1>1. World!ApplyAll(w, s) = a[Len(s)]
  BY DEF World!ApplyAll
<1>2. Steps(a, w, s)
  BY StepsExist DEF Steps
<1> QED BY <1>1, <1>2

(* Whatever goes through the steps ends at the fold.                       *)
LEMMA FoldIs ==
  ASSUME NEW w, NEW s, Len(s) \in Nat, NEW g, g[0] = w,
         \A i \in 1..Len(s) : g[i] = World!Apply(g[i - 1], s[i])
  PROVE  g[Len(s)] = World!ApplyAll(w, s)
<1>1. PICK f : Steps(f, w, s) /\ World!ApplyAll(w, s) = f[Len(s)]
  BY ApplyAllSteps
<1>2. f[0] = w /\ \A i \in 1..Len(s) : f[i] = World!Apply(f[i - 1], s[i])
  BY <1>1, StepsAre
<1> DEFINE S == {n \in Nat : n <= Len(s) => g[n] = f[n]}
<1>3. 0 \in S
  BY <1>2
<1>4. \A n \in Nat : n \in S => n + 1 \in S
  <2> SUFFICES ASSUME NEW n \in Nat, n \in S, n + 1 <= Len(s) PROVE g[n + 1] = f[n + 1]
    OBVIOUS
  <2>1. n + 1 \in 1..Len(s) /\ (n + 1) - 1 = n
    OBVIOUS
  <2> QED BY <1>2, <2>1
<1> HIDE DEF S
<1>5. Len(s) \in S
  BY <1>3, <1>4, SetInduction
<1> QED BY <1>1, <1>5 DEF S

LEMMA FoldNone ==
  ASSUME NEW w
  PROVE  World!ApplyAll(w, <<>>) = w
<1> DEFINE s == <<>>
<1>1. Len(s) = 0
  OBVIOUS
<1> HIDE DEF s
<1>2. PICK f : Steps(f, w, s) /\ World!ApplyAll(w, s) = f[Len(s)]
  BY <1>1, ApplyAllSteps
<1>3. World!ApplyAll(w, s) = w
  BY <1>1, <1>2, StepsAre
<1> QED BY <1>3 DEF s

LEMMA FoldOne ==
  ASSUME NEW w, NEW e
  PROVE  World!ApplyAll(w, <<e>>) = World!Apply(w, e)
<1> DEFINE s == <<e>>
<1>1. Len(s) = 1 /\ s[1] = e
  OBVIOUS
<1> HIDE DEF s
<1>2. PICK f : Steps(f, w, s) /\ World!ApplyAll(w, s) = f[Len(s)]
  BY <1>1, ApplyAllSteps
<1>3. f[0] = w /\ f[1] = World!Apply(f[1 - 1], s[1])
  BY <1>1, <1>2, StepsAre
<1>4. World!ApplyAll(w, s) = World!Apply(w, e)
  BY <1>1, <1>2, <1>3
<1> QED BY <1>4 DEF s

(* One list of events behind another.                                      *)
LEMMA FoldConcat ==
  ASSUME NEW w, NEW S, NEW s \in Seq(S), NEW t \in Seq(S)
  PROVE  World!ApplyAll(w, s \o t) = World!ApplyAll(World!ApplyAll(w, s), t)
<1> DEFINE st == s \o t
           v == World!ApplyAll(w, s)
<1>1. /\ Len(s) \in Nat /\ Len(t) \in Nat /\ Len(st) = Len(s) + Len(t)
      /\ \A i \in 1..Len(s) : st[i] = s[i]
      /\ \A i \in 1..Len(t) : st[Len(s) + i] = t[i]
  OBVIOUS
<1>2. PICK f : Steps(f, w, s) /\ v = f[Len(s)]
  BY <1>1, ApplyAllSteps
<1>3. PICK h : Steps(h, v, t) /\ World!ApplyAll(v, t) = h[Len(t)]
  BY <1>1, ApplyAllSteps
<1> DEFINE g == [i \in 0..Len(s) + Len(t) |-> IF i <= Len(s) THEN f[i] ELSE h[i - Len(s)]]
<1> HIDE DEF st, v
<1>4. f[0] = w /\ \A i \in 1..Len(s) : f[i] = World!Apply(f[i - 1], s[i])
  BY <1>1, <1>2, StepsAre
<1>5. h[0] = v /\ \A i \in 1..Len(t) : h[i] = World!Apply(h[i - 1], t[i])
  BY <1>1, <1>3, StepsAre
<1>6. g[0] = w
  BY <1>1, <1>4
<1>7. \A i \in 1..Len(st) : g[i] = World!Apply(g[i - 1], st[i])
  <2> SUFFICES ASSUME NEW i \in 1..Len(st) PROVE g[i] = World!Apply(g[i - 1], st[i])
    OBVIOUS
  <2>1. CASE i <= Len(s)
    <3>1. i \in 1..Len(s) /\ g[i] = f[i] /\ g[i - 1] = f[i - 1] /\ st[i] = s[i]
      BY <1>1, <2>1
    <3> QED BY <1>4, <3>1
  <2>2. CASE i > Len(s)
    <3>1. PICK k \in 1..Len(t) : i = Len(s) + k
      <4>1. i \in Int /\ i - Len(s) \in 1..Len(t) /\ i = Len(s) + (i - Len(s))
        BY <1>1, <2>2
      <4> QED BY <4>1
    <3>2. g[i] = h[k] /\ st[i] = t[k]
      BY <1>1, <3>1
    <3>3. g[i - 1] = h[k - 1]
      <4>1. CASE k = 1
        <5>1. g[i - 1] = f[Len(s)] /\ h[k - 1] = v
          BY <1>1, <1>5, <3>1, <4>1
        <5> QED BY <1>2, <5>1
      <4>2. CASE k # 1
        BY <1>1, <3>1, <4>2
      <4> QED BY <4>1, <4>2
    <3> QED BY <1>5, <3>1, <3>2, <3>3
  <2> QED BY <1>1, <2>1, <2>2
<1>8. g[Len(st)] = World!ApplyAll(v, t)
  <2>1. CASE Len(t) = 0
    <3>1. g[Len(st)] = v
      BY <1>1, <1>2, <2>1
    <3> QED BY <1>3, <1>5, <2>1, <3>1
  <2>2. CASE Len(t) # 0
    BY <1>1, <1>3, <2>2
  <2> QED BY <2>1, <2>2
<1> HIDE DEF g
<1>9. g[Len(st)] = World!ApplyAll(w, st)
  <2>1. Len(st) \in Nat
    BY <1>1
  <2> QED BY <1>6, <1>7, <2>1, FoldIs
<1> QED BY <1>8, <1>9 DEF st, v

(* Lists put one behind the other.                                         *)
Pieces(g, lists, n) == g = [i \in 0..n |-> IF i = 0 THEN <<>> ELSE g[i - 1] \o lists[i]]

LEMMA PiecesExist ==
  ASSUME NEW lists
  PROVE  \A n \in Nat : \E g : Pieces(g, lists, n)
<1> DEFINE S == {n \in Nat : \E g : Pieces(g, lists, n)}
<1>1. 0 \in S
  <2>1. Pieces([i \in 0..0 |-> <<>>], lists, 0)
    BY DEF Pieces
  <2> QED BY <2>1
<1>2. ASSUME NEW n \in Nat, n \in S PROVE n + 1 \in S
  <2>1. PICK f : Pieces(f, lists, n)
    BY <1>2
  <2> DEFINE Value(i) == IF i = 0 THEN <<>> ELSE f[i - 1] \o lists[i]
             g == [i \in 0..n + 1 |-> Value(i)]
  <2>2. ASSUME NEW i \in 0..n PROVE g[i] = f[i]
    <3>1. f[i] = Value(i)
      BY <2>1 DEF Pieces
    <3>2. i \in 0..n + 1
      OBVIOUS
    <3> HIDE DEF Value
    <3> QED BY <3>1, <3>2
  <2>3. ASSUME NEW i \in 0..n + 1
        PROVE  g[i] = IF i = 0 THEN <<>> ELSE g[i - 1] \o lists[i]
    <3>1. g[i] = Value(i)
      OBVIOUS
    <3>2. i # 0 => i - 1 \in 0..n
      OBVIOUS
    <3>3. i # 0 => g[i - 1] = f[i - 1]
      BY <2>2, <3>2
    <3> HIDE DEF g
    <3> QED BY <3>1, <3>3
  <2>4. g = [i \in 0..n + 1 |-> g[i]]
    OBVIOUS
  <2> HIDE DEF g
  <2>5. Pieces(g, lists, n + 1)
    BY <2>3, <2>4 DEF Pieces
  <2> QED BY <2>5
<1> HIDE DEF S
<1>3. \A n \in Nat : n \in S
  BY <1>1, <1>2, SetInduction
<1> QED BY <1>3 DEF S

LEMMA JoinedIs ==
  ASSUME NEW lists, Len(lists) \in Nat
  PROVE  \E g : /\ g[0] = <<>>
                /\ \A i \in 1..Len(lists) : g[i] = g[i - 1] \o lists[i]
                /\ Joined(lists) = g[Len(lists)]
<1> DEFINE g == CHOOSE g : Pieces(g, lists, Len(lists))
<1>1. Pieces(g, lists, Len(lists))
  BY PiecesExist
<1>2. Joined(lists) = g[Len(lists)]
  BY DEF Joined, Pieces
<1> HIDE DEF g
<1>3. \A i \in 0..Len(lists) : g[i] = IF i = 0 THEN <<>> ELSE g[i - 1] \o lists[i]
  BY <1>1 DEF Pieces
<1>4. g[0] = <<>>
  BY <1>3
<1>5. ASSUME NEW i \in 1..Len(lists) PROVE g[i] = g[i - 1] \o lists[i]
  <2>1. i \in 0..Len(lists) /\ i # 0
    OBVIOUS
  <2> QED BY <1>3, <2>1
<1> QED BY <1>2, <1>4, <1>5

(* The fold of what is joined goes list by list.                           *)
Rounds(f, w, lists) ==
  /\ f[0] = w
  /\ \A i \in 1..Len(lists) : f[i] = World!ApplyAll(f[i - 1], lists[i])
  /\ World!ApplyAll(w, Joined(lists)) = f[Len(lists)]

(* Reducing lists put one behind the other goes list by list.              *)
LEMMA FoldJoined ==
  ASSUME NEW w, NEW S, NEW lists, Len(lists) \in Nat,
         \A i \in 1..Len(lists) : lists[i] \in Seq(S)
  PROVE  /\ Joined(lists) \in Seq(S)
         /\ \E f : Rounds(f, w, lists)
<1>1. PICK g : /\ g[0] = <<>>
               /\ \A i \in 1..Len(lists) : g[i] = g[i - 1] \o lists[i]
               /\ Joined(lists) = g[Len(lists)]
  BY JoinedIs
<1> DEFINE T == {n \in Nat : n <= Len(lists) => g[n] \in Seq(S)}
<1>2. 0 \in T
  <2>1. <<>> \in Seq(S)
    OBVIOUS
  <2> QED BY <1>1, <2>1
<1>3. ASSUME NEW n \in Nat, n \in T PROVE n + 1 \in T
  <2> SUFFICES ASSUME n + 1 <= Len(lists) PROVE g[n + 1] \in Seq(S)
    OBVIOUS
  <2>1. n + 1 \in 1..Len(lists) /\ (n + 1) - 1 = n /\ g[n] \in Seq(S)
    BY <1>3
  <2>2. g[n + 1] = g[n] \o lists[n + 1] /\ lists[n + 1] \in Seq(S)
    BY <1>1, <2>1
  <2> QED BY <2>1, <2>2
<1> HIDE DEF T
<1>4. \A n \in Nat : n \in T
  BY <1>2, <1>3, SetInduction
<1>5. \A i \in 0..Len(lists) : g[i] \in Seq(S)
  BY <1>4 DEF T
<1> DEFINE f == [i \in 0..Len(lists) |-> World!ApplyAll(w, g[i])]
<1>6. f[0] = w
  BY <1>1, FoldNone
<1>7. ASSUME NEW i \in 1..Len(lists)
      PROVE  f[i] = World!ApplyAll(f[i - 1], lists[i])
  <2>0. i - 1 \in 0..Len(lists) /\ i \in 0..Len(lists)
    OBVIOUS
  <2>1. g[i] = g[i - 1] \o lists[i] /\ lists[i] \in Seq(S) /\ g[i - 1] \in Seq(S)
    BY <1>1, <1>5, <2>0
  <2>2. World!ApplyAll(w, g[i - 1] \o lists[i]) =
          World!ApplyAll(World!ApplyAll(w, g[i - 1]), lists[i])
    BY <2>1, FoldConcat
  <2> QED BY <2>0, <2>1, <2>2
<1>8. World!ApplyAll(w, Joined(lists)) = f[Len(lists)]
  BY <1>1
<1> HIDE DEF f
<1> QED BY <1>1, <1>5, <1>6, <1>7, <1>8 DEF Rounds

LEMMA JoinedNotEmpty ==
  ASSUME NEW S, NEW lists, Len(lists) \in Nat,
         \A i \in 1..Len(lists) : lists[i] \in Seq(S),
         NEW k \in 1..Len(lists), lists[k] # <<>>
  PROVE  Joined(lists) # <<>>
<1>1. PICK g : /\ g[0] = <<>>
               /\ \A i \in 1..Len(lists) : g[i] = g[i - 1] \o lists[i]
               /\ Joined(lists) = g[Len(lists)]
  BY JoinedIs
<1> DEFINE T == {n \in Nat : n <= Len(lists) =>
                   g[n] \in Seq(S) /\ (n >= k => Len(g[n]) > 0)}
<1>2. 0 \in T
  <2>1. <<>> \in Seq(S)
    OBVIOUS
  <2>2. k \in Nat /\ ~(0 >= k)
    OBVIOUS
  <2> QED BY <1>1, <2>1, <2>2
<1>3. ASSUME NEW n \in Nat, n \in T PROVE n + 1 \in T
  <2> SUFFICES ASSUME n + 1 <= Len(lists)
               PROVE  g[n + 1] \in Seq(S) /\ (n + 1 >= k => Len(g[n + 1]) > 0)
    OBVIOUS
  <2>1. n + 1 \in 1..Len(lists) /\ (n + 1) - 1 = n
    OBVIOUS
  <2>2. g[n] \in Seq(S) /\ (n >= k => Len(g[n]) > 0)
    BY <1>3
  <2>3. g[n + 1] = g[n] \o lists[n + 1] /\ lists[n + 1] \in Seq(S)
    BY <1>1, <2>1
  <2>4. g[n + 1] \in Seq(S) /\ Len(g[n + 1]) = Len(g[n]) + Len(lists[n + 1])
        /\ Len(g[n]) \in Nat /\ Len(lists[n + 1]) \in Nat
    BY <2>2, <2>3
  <2>5. n + 1 = k => Len(lists[n + 1]) > 0
    BY <2>3
  <2>6. k \in Nat
    OBVIOUS
  <2>7. n + 1 >= k => n >= k \/ n + 1 = k
    BY <2>6
  <2>8. \A x, y \in Nat : x > 0 \/ y > 0 => x + y > 0
    OBVIOUS
  <2>9. n + 1 >= k => Len(g[n]) > 0 \/ Len(lists[n + 1]) > 0
    BY <2>2, <2>5, <2>7
  <2>10. n + 1 >= k => Len(g[n + 1]) > 0
    BY <2>4, <2>8, <2>9
  <2> QED BY <2>4, <2>10
<1> HIDE DEF T
<1>4. Len(lists) \in T
  BY <1>2, <1>3, SetInduction
<1>5. Len(g[Len(lists)]) > 0
  BY <1>4 DEF T
<1> QED BY <1>1, <1>5

-----------------------------------------------------------------------------
(* What one event does to a world.                                         *)

WorldFields == {"match", "territories", "agents", "winner", "infrastructureFailures",
                "lastSequence", "elapsed"}
ViewFields == {"agent", "state", "resources", "healthy", "eliminated", "competitor",
               "milestones", "points", "durableAt"}
MilestoneFields == {"evaluating", "passed", "points", "failed"}
AgentFields == {"territory", "running", "successful", "source", "terminal", "units",
                "tokens", "cost", "costComplete"}

IsView(x) ==
  /\ DOMAIN x = ViewFields
  /\ \A m \in DOMAIN x.milestones : DOMAIN x.milestones[m] = MilestoneFields

IsWorld(w) ==
  /\ DOMAIN w = WorldFields
  /\ \A t \in DOMAIN w.territories : IsView(w.territories[t])
  /\ \A a \in DOMAIN w.agents : DOMAIN w.agents[a] = AgentFields

TerritorySet(v, w, t, x) ==
  /\ IsWorld(v) /\ IsView(x)
  /\ v.match = w.match /\ v.winner = w.winner /\ v.agents = w.agents
  /\ DOMAIN v.territories = DOMAIN w.territories \cup {t}
  /\ v.territories[t] = x
  /\ \A u \in DOMAIN w.territories \ {t} : v.territories[u] = w.territories[u]

AgentSet(v, w, a, x) ==
  /\ IsWorld(v) /\ DOMAIN x = AgentFields
  /\ v.match = w.match /\ v.winner = w.winner /\ v.territories = w.territories
  /\ DOMAIN v.agents = DOMAIN w.agents \cup {a}
  /\ v.agents[a] = x
  /\ \A b \in DOMAIN w.agents \ {a} : v.agents[b] = w.agents[b]

MatchSet(v, w, state, winner) ==
  /\ IsWorld(v)
  /\ v.match = state /\ v.winner = winner
  /\ v.territories = w.territories /\ v.agents = w.agents

LEMMA EmptyMap == DOMAIN <<>> = {}
OBVIOUS

(* Writing a territory, and writing an agent, change that entry alone.     *)
LEMMA SetTerritoryIs ==
  ASSUME NEW w, IsWorld(w), NEW t, NEW x, IsView(x)
  PROVE  TerritorySet(World!SetTerritory(w, t, x), w, t, x)
<1> DEFINE f == w.territories
           map == World!Put(f, t, x)
           v == [w EXCEPT !.territories = map]
<1> HIDE DEF f
<1>1. /\ DOMAIN map = DOMAIN f \cup {t} /\ map[t] = x
      /\ \A u \in DOMAIN f \ {t} : map[u] = f[u]
  BY DEF World!Put
<1> HIDE DEF map
<1>2. /\ DOMAIN v = WorldFields /\ v.territories = map
      /\ v.match = w.match /\ v.winner = w.winner /\ v.agents = w.agents
  BY DEF IsWorld, WorldFields
<1>3. World!SetTerritory(w, t, x) = v
  BY DEF World!SetTerritory, map, f
<1> HIDE DEF v
<1>4. IsWorld(v)
  BY <1>1, <1>2 DEF IsWorld, f
<1> QED BY <1>1, <1>2, <1>3, <1>4 DEF TerritorySet, f

LEMMA SetAgentIs ==
  ASSUME NEW w, IsWorld(w), NEW a, NEW x, DOMAIN x = AgentFields
  PROVE  AgentSet(World!SetAgent(w, a, x), w, a, x)
<1> DEFINE f == w.agents
           map == World!Put(f, a, x)
           v == [w EXCEPT !.agents = map]
<1> HIDE DEF f
<1>1. /\ DOMAIN map = DOMAIN f \cup {a} /\ map[a] = x
      /\ \A u \in DOMAIN f \ {a} : map[u] = f[u]
  BY DEF World!Put
<1> HIDE DEF map
<1>2. /\ DOMAIN v = WorldFields /\ v.agents = map
      /\ v.match = w.match /\ v.winner = w.winner /\ v.territories = w.territories
  BY DEF IsWorld, WorldFields
<1>3. World!SetAgent(w, a, x) = v
  BY DEF World!SetAgent, map, f
<1> HIDE DEF v
<1>4. IsWorld(v)
  BY <1>1, <1>2 DEF IsWorld, f
<1> QED BY <1>1, <1>2, <1>3, <1>4 DEF AgentSet, f

LEMMA DefaultsAre ==
  /\ IsWorld(World!DefaultWorld) /\ DOMAIN World!DefaultWorld.territories = {}
  /\ DOMAIN World!DefaultWorld.agents = {}
  /\ World!DefaultWorld.match = "preparing" /\ World!DefaultWorld.winner = None
  /\ World!DefaultWorld.elapsed = 0
  /\ IsView(World!DefaultTerritory) /\ DOMAIN World!DefaultTerritory.milestones = {}
  /\ World!DefaultTerritory.points = 0 /\ World!DefaultTerritory.durableAt = None
  /\ DOMAIN World!DefaultMilestone = MilestoneFields /\ ~World!DefaultMilestone.passed
  /\ DOMAIN World!DefaultAgent = AgentFields /\ World!DefaultAgent.units = 0
<1>1. /\ World!DefaultWorld.territories = <<>> /\ World!DefaultWorld.agents = <<>>
      /\ World!DefaultWorld.match = "preparing" /\ World!DefaultWorld.winner = None
      /\ World!DefaultWorld.elapsed = 0 /\ DOMAIN World!DefaultWorld = WorldFields
  BY DEF World!DefaultWorld, WorldFields
<1>2. /\ World!DefaultTerritory.milestones = <<>>
      /\ World!DefaultTerritory.points = 0 /\ World!DefaultTerritory.durableAt = None
      /\ DOMAIN World!DefaultTerritory = ViewFields
  BY DEF World!DefaultTerritory, ViewFields
<1>3. /\ DOMAIN World!DefaultMilestone = MilestoneFields /\ ~World!DefaultMilestone.passed
      /\ DOMAIN World!DefaultAgent = AgentFields /\ World!DefaultAgent.units = 0
  BY DEF World!DefaultMilestone, World!DefaultAgent, MilestoneFields, AgentFields
<1> QED BY <1>1, <1>2, <1>3, EmptyMap DEF IsWorld, IsView

LEMMA EntriesAre ==
  ASSUME NEW w, IsWorld(w)
  PROVE  /\ \A t : IsView(World!TerritoryOf(w, t))
         /\ \A a : DOMAIN World!AgentOf(w, a) = AgentFields
         /\ \A x, m : IsView(x) => DOMAIN World!MilestoneOf(x, m) = MilestoneFields
BY DefaultsAre DEF World!TerritoryOf, World!AgentOf, World!MilestoneOf, World!Entry, IsWorld, IsView

(* What the world and the referee's record say of a competitor.            *)
Agrees(x, state, passed, points, durableAt) ==
  /\ x.competitor = state
  /\ {m \in DOMAIN x.milestones : x.milestones[m].passed} = passed
  /\ x.points = points
  /\ x.durableAt = durableAt

Judged(v, w, t, state, passed, points, durableAt) ==
  \E x : TerritorySet(v, w, t, x) /\ Agrees(x, state, passed, points, durableAt)

LEMMA DefaultAgrees == Agrees(World!DefaultTerritory, None, {}, 0, None)
BY EmptyMap DEF Agrees, World!DefaultTerritory

LEMMA SetIsJudged ==
  ASSUME NEW w, IsWorld(w), NEW t, NEW x, IsView(x),
         NEW state, NEW passed, NEW points, NEW durableAt,
         Agrees(x, state, passed, points, durableAt)
  PROVE  Judged(World!SetTerritory(w, t, x), w, t, state, passed, points, durableAt)
BY SetTerritoryIs DEF Judged

LEMMA JudgedAgain ==
  ASSUME NEW w, NEW v, NEW z, NEW t,
         NEW s1, NEW p1, NEW n1, NEW d1, NEW s2, NEW p2, NEW n2, NEW d2,
         Judged(v, w, t, s1, p1, n1, d1), Judged(z, v, t, s2, p2, n2, d2)
  PROVE  Judged(z, w, t, s2, p2, n2, d2)
BY DEF Judged, TerritorySet

LEMMA JudgedView ==
  ASSUME NEW w, NEW v, NEW t, NEW state, NEW passed, NEW points, NEW durableAt,
         Judged(v, w, t, state, passed, points, durableAt)
  PROVE  IsWorld(v) /\ Agrees(World!TerritoryOf(v, t), state, passed, points, durableAt)
BY DEF Judged, TerritorySet, World!TerritoryOf, World!Entry

(* The events that change a standing.                                      *)
LEMMA CompetitorStep ==
  ASSUME NEW w, IsWorld(w), NEW t, NEW from, NEW to,
         NEW state, NEW passed, NEW points, NEW durableAt,
         Agrees(World!TerritoryOf(w, t), state, passed, points, durableAt)
  PROVE  Judged(World!Apply(w, Referee!CompetitorStateChanged(t, from, to)), w, t,
                to, passed, points, durableAt)
<1> DEFINE e == Referee!CompetitorStateChanged(t, from, to)
           y == World!TerritoryOf(w, t)
           x == [y EXCEPT !.competitor = to]
<1>1. e.kind = "competitor_state_changed" /\ e.territory = t /\ e.to = to
  BY DEF Referee!CompetitorStateChanged
<1> HIDE DEF e
<1>2. World!Apply(w, e) = World!SetTerritory(w, t, x)
  BY <1>1 DEF World!Apply
<1>3. IsView(y) /\ Agrees(y, state, passed, points, durableAt)
  BY EntriesAre
<1> HIDE DEF y
<1>4. /\ DOMAIN x = ViewFields /\ x.competitor = to
      /\ x.milestones = y.milestones /\ x.points = y.points /\ x.durableAt = y.durableAt
  BY <1>3 DEF IsView, ViewFields
<1> HIDE DEF x
<1>5. IsView(x) /\ Agrees(x, to, passed, points, durableAt)
  BY <1>3, <1>4 DEF IsView, Agrees
<1>6. Judged(World!SetTerritory(w, t, x), w, t, to, passed, points, durableAt)
  BY <1>5, SetIsJudged
<1> QED BY <1>2, <1>6 DEF e

LEMMA DurableStep ==
  ASSUME NEW w, IsWorld(w), NEW t, NEW time,
         NEW state, NEW passed, NEW points, NEW durableAt,
         Agrees(World!TerritoryOf(w, t), state, passed, points, durableAt)
  PROVE  Judged(World!Apply(w, Referee!DurableCompleted(t, time)), w, t,
                "durable", passed, points, time)
<1> DEFINE e == Referee!DurableCompleted(t, time)
           y == World!TerritoryOf(w, t)
           x == [y EXCEPT !.competitor = "durable", !.durableAt = time]
<1>1. e.kind = "durable_deployment_completed" /\ e.territory = t /\ e.elapsed = time
  BY DEF Referee!DurableCompleted
<1> HIDE DEF e
<1>2. World!Apply(w, e) = World!SetTerritory(w, t, x)
  BY <1>1 DEF World!Apply
<1>3. IsView(y) /\ Agrees(y, state, passed, points, durableAt)
  BY EntriesAre
<1> HIDE DEF y
<1>4. /\ DOMAIN x = ViewFields /\ x.competitor = "durable" /\ x.durableAt = time
      /\ x.milestones = y.milestones /\ x.points = y.points
  BY <1>3 DEF IsView, ViewFields
<1> HIDE DEF x
<1>5. IsView(x) /\ Agrees(x, "durable", passed, points, time)
  BY <1>3, <1>4 DEF IsView, Agrees
<1>6. Judged(World!SetTerritory(w, t, x), w, t, "durable", passed, points, time)
  BY <1>5, SetIsJudged
<1> QED BY <1>2, <1>6 DEF e

(* A milestone that is set keeps a view a view, and counts if it passed.   *)
LEMMA SetMilestoneIs ==
  ASSUME NEW y, IsView(y), NEW m, NEW z, DOMAIN z = MilestoneFields,
         NEW state, NEW passed, NEW points, NEW durableAt,
         Agrees(y, state, passed, points, durableAt)
  PROVE  LET x == World!SetMilestone(y, m, z) IN
         IsView(x) /\ Agrees(x, state, IF z.passed THEN passed \cup {m} ELSE passed \ {m},
                             points, durableAt)
<1> DEFINE f == y.milestones
           map == World!Put(f, m, z)
           x == [y EXCEPT !.milestones = map]
           now == IF z.passed THEN passed \cup {m} ELSE passed \ {m}
<1> HIDE DEF f
<1>1. /\ DOMAIN map = DOMAIN f \cup {m} /\ map[m] = z
      /\ \A u \in DOMAIN f \ {m} : map[u] = f[u]
  BY DEF World!Put
<1> HIDE DEF map
<1>2. /\ DOMAIN x = ViewFields /\ x.milestones = map /\ x.competitor = y.competitor
      /\ x.points = y.points /\ x.durableAt = y.durableAt
  BY DEF IsView, ViewFields
<1>3. World!SetMilestone(y, m, z) = x
  BY DEF World!SetMilestone, map, f
<1> HIDE DEF x
<1>4. IsView(x)
  BY <1>1, <1>2 DEF IsView, f
<1>5. passed = {u \in DOMAIN f : f[u].passed}
  BY DEF Agrees, f
<1>6. {u \in DOMAIN map : map[u].passed} = now
  BY <1>1, <1>5
<1> HIDE DEF now
<1>7. Agrees(x, state, now, points, durableAt)
  BY <1>2, <1>6 DEF Agrees
<1> QED BY <1>3, <1>4, <1>7 DEF now

LEMMA OldMilestone ==
  ASSUME NEW y, IsView(y), NEW m,
         NEW state, NEW passed, NEW points, NEW durableAt,
         Agrees(y, state, passed, points, durableAt)
  PROVE  /\ DOMAIN World!MilestoneOf(y, m) = MilestoneFields
         /\ World!MilestoneOf(y, m).passed <=> m \in passed
<1>1. CASE m \in DOMAIN y.milestones
  <2>1. World!MilestoneOf(y, m) = y.milestones[m]
    BY <1>1 DEF World!MilestoneOf, World!Entry
  <2>2. m \in {u \in DOMAIN y.milestones : y.milestones[u].passed} <=> y.milestones[m].passed
    BY <1>1
  <2> QED BY <1>1, <2>1, <2>2 DEF IsView, Agrees
<1>2. CASE m \notin DOMAIN y.milestones
  <2>1. World!MilestoneOf(y, m) = World!DefaultMilestone
    BY <1>2 DEF World!MilestoneOf, World!Entry
  <2>2. m \notin passed
    BY <1>2 DEF Agrees
  <2> QED BY <2>1, <2>2, DefaultsAre
<1> QED BY <1>1, <1>2

LEMMA EvaluationStep ==
  ASSUME NEW w, IsWorld(w), NEW t, NEW m,
         NEW state, NEW passed, NEW points, NEW durableAt,
         Agrees(World!TerritoryOf(w, t), state, passed, points, durableAt)
  PROVE  Judged(World!Apply(w, Referee!EvaluationStarted(t, m)), w, t,
                state, passed, points, durableAt)
<1> DEFINE e == Referee!EvaluationStarted(t, m)
           y == World!TerritoryOf(w, t)
           old == World!MilestoneOf(y, m)
           z == [old EXCEPT !.evaluating = TRUE]
           x == World!SetMilestone(y, m, z)
           now == IF z.passed THEN passed \cup {m} ELSE passed \ {m}
<1>1. e.kind = "milestone_evaluation_started" /\ e.territory = t /\ e.milestone = m
  BY DEF Referee!EvaluationStarted
<1> HIDE DEF e
<1>2. World!Apply(w, e) = World!SetTerritory(w, t, x)
  BY <1>1 DEF World!Apply, World!StartEvaluation
<1>3. IsView(y) /\ Agrees(y, state, passed, points, durableAt)
  BY EntriesAre
<1> HIDE DEF y
<1>4. DOMAIN old = MilestoneFields /\ (old.passed <=> m \in passed)
  BY <1>3, OldMilestone
<1> HIDE DEF old
<1>5. DOMAIN z = MilestoneFields /\ z.passed = old.passed
  BY <1>4 DEF MilestoneFields
<1> HIDE DEF z
<1>6. IsView(x) /\ Agrees(x, state, now, points, durableAt)
  BY <1>3, <1>5, SetMilestoneIs
<1>7. now = passed
  BY <1>4, <1>5
<1> HIDE DEF x, now
<1>8. Judged(World!SetTerritory(w, t, x), w, t, state, passed, points, durableAt)
  BY <1>6, <1>7, SetIsJudged
<1> QED BY <1>2, <1>8 DEF e

LEMMA FailStep ==
  ASSUME NEW w, IsWorld(w), NEW t, NEW m,
         NEW state, NEW passed, NEW points, NEW durableAt,
         Agrees(World!TerritoryOf(w, t), state, passed, points, durableAt)
  PROVE  Judged(World!Apply(w, Referee!MilestoneFailed(t, m)), w, t,
                state, passed, points, durableAt)
<1> DEFINE e == Referee!MilestoneFailed(t, m)
           y == World!TerritoryOf(w, t)
           old == World!MilestoneOf(y, m)
           z == [old EXCEPT !.evaluating = FALSE, !.failed = TRUE]
           x == World!SetMilestone(y, m, z)
           now == IF z.passed THEN passed \cup {m} ELSE passed \ {m}
<1>1. e.kind = "milestone_failed" /\ e.territory = t /\ e.milestone = m
  BY DEF Referee!MilestoneFailed
<1> HIDE DEF e
<1>2. World!Apply(w, e) = World!SetTerritory(w, t, x)
  BY <1>1 DEF World!Apply, World!Fail
<1>3. IsView(y) /\ Agrees(y, state, passed, points, durableAt)
  BY EntriesAre
<1> HIDE DEF y
<1>4. DOMAIN old = MilestoneFields /\ (old.passed <=> m \in passed)
  BY <1>3, OldMilestone
<1> HIDE DEF old
<1>5. DOMAIN z = MilestoneFields /\ z.passed = old.passed
  BY <1>4 DEF MilestoneFields
<1> HIDE DEF z
<1>6. IsView(x) /\ Agrees(x, state, now, points, durableAt)
  BY <1>3, <1>5, SetMilestoneIs
<1>7. now = passed
  BY <1>4, <1>5
<1> HIDE DEF x, now
<1>8. Judged(World!SetTerritory(w, t, x), w, t, state, passed, points, durableAt)
  BY <1>6, <1>7, SetIsJudged
<1> QED BY <1>2, <1>8 DEF e

(* The points saturate in the world as they do at the referee.             *)
LEMMA PassStep ==
  ASSUME NEW w, IsWorld(w), NEW t, NEW m, NEW pay,
         NEW state, NEW passed, NEW points, NEW durableAt,
         Agrees(World!TerritoryOf(w, t), state, passed, points, durableAt), m \notin passed
  PROVE  Judged(World!Apply(w, Referee!MilestonePassed(t, m, pay)), w, t,
                state, passed \cup {m}, World!AddPoints(points, pay), durableAt)
<1> DEFINE e == Referee!MilestonePassed(t, m, pay)
           y == World!TerritoryOf(w, t)
           old == World!MilestoneOf(y, m)
           z == World!PassedFor(pay)
           total == IF old.passed THEN y.points ELSE World!AddPoints(y.points, pay)
           u == World!SetMilestone(y, m, z)
           x == [u EXCEPT !.points = total]
           now == IF z.passed THEN passed \cup {m} ELSE passed \ {m}
<1>1. e.kind = "milestone_passed" /\ e.territory = t /\ e.milestone = m /\ e.points = pay
  BY DEF Referee!MilestonePassed
<1> HIDE DEF e
<1>2. World!Apply(w, e) = World!SetTerritory(w, t, x)
  BY <1>1 DEF World!Apply, World!Pass
<1>3. IsView(y) /\ Agrees(y, state, passed, points, durableAt)
  BY EntriesAre
<1> HIDE DEF y
<1>4. old.passed <=> m \in passed
  BY <1>3, OldMilestone
<1>5. total = World!AddPoints(points, pay)
  BY <1>3, <1>4 DEF Agrees
<1> HIDE DEF old, total
<1>6. DOMAIN z = MilestoneFields /\ z.passed
  BY DEF World!PassedFor, MilestoneFields
<1> HIDE DEF z
<1>7. IsView(u) /\ Agrees(u, state, now, points, durableAt)
  BY <1>3, <1>6, SetMilestoneIs
<1>8. now = passed \cup {m}
  BY <1>6
<1> HIDE DEF u, now
<1>9. /\ DOMAIN x = ViewFields /\ x.competitor = u.competitor
      /\ x.milestones = u.milestones /\ x.points = total /\ x.durableAt = u.durableAt
  BY <1>7 DEF IsView, ViewFields
<1> HIDE DEF x
<1>10. IsView(x) /\ Agrees(x, state, passed \cup {m}, total, durableAt)
  BY <1>7, <1>8, <1>9 DEF IsView, Agrees
<1>11. Judged(World!SetTerritory(w, t, x), w, t, state, passed \cup {m}, total, durableAt)
  BY <1>10, SetIsJudged
<1> QED BY <1>2, <1>5, <1>11 DEF e

LEMMA MatchSteps ==
  ASSUME NEW w, IsWorld(w), NEW from, NEW to, NEW winner
  PROVE  /\ MatchSet(World!Apply(w, Referee!MatchStateChanged(from, to)), w, to, w.winner)
         /\ MatchSet(World!Apply(w, Referee!MatchFinished(winner)), w,
                     IF w.match = "aborted" THEN "aborted" ELSE "finished", winner)
<1> DEFINE e == Referee!MatchStateChanged(from, to)
           v == [w EXCEPT !.match = to]
           f == Referee!MatchFinished(winner)
           state == IF w.match = "aborted" THEN w.match ELSE "finished"
           z == [w EXCEPT !.winner = winner, !.match = state]
<1>1. e.kind = "match_state_changed" /\ e.to = to /\ f.kind = "match_finished" /\ f.winner = winner
  BY DEF Referee!MatchStateChanged, Referee!MatchFinished
<1> HIDE DEF e, f
<1>2. World!Apply(w, e) = v
  BY <1>1 DEF World!Apply
<1>3. World!Apply(w, f) = z
  BY <1>1 DEF World!Apply
<1>4. MatchSet(v, w, to, w.winner)
  BY DEF MatchSet, IsWorld, WorldFields
<1> HIDE DEF state
<1>5. MatchSet(z, w, state, winner)
  BY DEF MatchSet, IsWorld, WorldFields
<1> QED BY <1>2, <1>3, <1>4, <1>5 DEF e, f, state

-----------------------------------------------------------------------------
(* What the events of a call of the referee do to a world.                 *)

LEMMA FoldTwo ==
  ASSUME NEW w, NEW d, NEW e
  PROVE  World!ApplyAll(w, <<d, e>>) = World!Apply(World!Apply(w, d), e)
<1> DEFINE s == <<d, e>>
<1>1. Len(s) = 2 /\ s[1] = d /\ s[2] = e
  OBVIOUS
<1> HIDE DEF s
<1>2. PICK f : Steps(f, w, s) /\ World!ApplyAll(w, s) = f[Len(s)]
  BY <1>1, ApplyAllSteps
<1>3. f[0] = w /\ \A i \in 1..Len(s) : f[i] = World!Apply(f[i - 1], s[i])
  BY <1>1, <1>2, StepsAre
<1>4. f[1] = World!Apply(f[0], d)
  <2>1. 1 \in 1..Len(s) /\ 1 - 1 = 0
    BY <1>1
  <2> QED BY <1>1, <1>3, <2>1
<1>5. f[2] = World!Apply(f[1], e)
  <2>1. 2 \in 1..Len(s) /\ 2 - 1 = 1
    BY <1>1
  <2> QED BY <1>1, <1>3, <2>1
<1>6. World!ApplyAll(w, s) = World!Apply(World!Apply(w, d), e)
  BY <1>1, <1>2, <1>3, <1>4, <1>5
<1> QED BY <1>6 DEF s

LEMMA NotEmpty ==
  ASSUME NEW S, NEW s \in Seq(S), NEW t \in Seq(S), s # <<>> \/ t # <<>>
  PROVE  s \o t \in Seq(S) /\ s \o t # <<>>
<1>1. s \o t \in Seq(S) /\ Len(s \o t) = Len(s) + Len(t) /\ Len(s) \in Nat /\ Len(t) \in Nat
  OBVIOUS
<1>2. Len(s) > 0 \/ Len(t) > 0
  OBVIOUS
<1> DEFINE n == Len(s \o t)
           a == Len(s)
           b == Len(t)
<1> HIDE DEF n, a, b
<1>3. n = a + b /\ a \in Nat /\ b \in Nat /\ (a > 0 \/ b > 0)
  BY <1>1, <1>2 DEF n, a, b
<1>4. n # 0
  BY <1>3
<1>5. s \o t # <<>>
  BY <1>4 DEF n
<1> QED BY <1>1, <1>5

LEMMA FoldBehind ==
  ASSUME NEW w, NEW S, NEW s \in Seq(S), NEW e \in S
  PROVE  /\ World!ApplyAll(w, s \o <<e>>) = World!Apply(World!ApplyAll(w, s), e)
         /\ s \o <<e>> \in Seq(S) /\ s \o <<e>> # <<>>
<1> DEFINE t == <<e>>
<1>1. t \in Seq(S) /\ t # <<>>
  OBVIOUS
<1> HIDE DEF t
<1>2. /\ World!ApplyAll(w, s \o t) = World!ApplyAll(World!ApplyAll(w, s), t)
      /\ s \o t \in Seq(S) /\ s \o t # <<>>
  BY <1>1, FoldConcat, NotEmpty
<1>3. World!ApplyAll(World!ApplyAll(w, s), t) = World!Apply(World!ApplyAll(w, s), e)
  BY FoldOne DEF t
<1> QED BY <1>2, <1>3 DEF t

Stamped(v, u, time) ==
  /\ IsWorld(v)
  /\ v.match = u.match /\ v.winner = u.winner
  /\ v.territories = u.territories /\ v.agents = u.agents
  /\ v.elapsed = time

(* Reduce stamps the number and the time of the last event on the world.   *)
LEMMA ReduceIs ==
  ASSUME NEW w, NEW s, s # <<>>, NEW next, NEW time, IsWorld(World!ApplyAll(w, s))
  PROVE  Stamped(World!Reduce(w, s, next, time), World!ApplyAll(w, s), time)
<1> DEFINE u == World!ApplyAll(w, s)
           v == [u EXCEPT !.lastSequence = next - 1, !.elapsed = time]
<1>1. World!Reduce(w, s, next, time) = v
  BY DEF World!Reduce
<1> HIDE DEF u
<1>2. IsWorld(u)
  BY DEF u
<1>3. Stamped(v, u, time)
  BY <1>2 DEF Stamped, IsWorld, WorldFields
<1> QED BY <1>1, <1>3 DEF u

(* begin_milestone: the competitor may turn to verifying, a check begins.  *)
LEMMA BeginEvents ==
  ASSUME NEW w, IsWorld(w), NEW t, NEW m,
         NEW state, NEW passed, NEW points, NEW durableAt,
         Agrees(World!TerritoryOf(w, t), state, passed, points, durableAt),
         NEW s, s = (IF state = "building"
                     THEN <<Referee!CompetitorStateChanged(t, "building", "verifying")>>
                     ELSE <<>>) \o <<Referee!EvaluationStarted(t, m)>>
  PROVE  /\ s # <<>>
         /\ Judged(World!ApplyAll(w, s), w, t,
                   IF state = "building" THEN "verifying" ELSE state,
                   passed, points, durableAt)
<1> DEFINE c == Referee!CompetitorStateChanged(t, "building", "verifying")
           e == Referee!EvaluationStarted(t, m)
           v == World!Apply(w, c)
           S == {c, e}
<1>1. CASE state = "building"
  <2> DEFINE head == <<c>>
  <2>1. s = head \o <<e>>
    BY <1>1
  <2>2. head \in Seq(S) /\ e \in S
    OBVIOUS
  <2>3. World!ApplyAll(w, head) = v
    BY FoldOne
  <2>4. Judged(v, w, t, "verifying", passed, points, durableAt)
    BY CompetitorStep
  <2> HIDE DEF v, c, head, S
  <2>5. World!ApplyAll(w, head \o <<e>>) = World!Apply(v, e) /\ head \o <<e>> # <<>>
    <3> HIDE DEF e
    <3> QED BY <2>2, <2>3, FoldBehind
  <2>6. IsWorld(v) /\ Agrees(World!TerritoryOf(v, t), "verifying", passed, points, durableAt)
    BY <2>4, JudgedView
  <2>7. Judged(World!Apply(v, e), v, t, "verifying", passed, points, durableAt)
    BY <2>6, EvaluationStep
  <2> HIDE DEF e
  <2>8. Judged(World!Apply(v, e), w, t, "verifying", passed, points, durableAt)
    BY <2>4, <2>7, JudgedAgain
  <2> QED BY <1>1, <2>1, <2>5, <2>8
<1>2. CASE state # "building"
  <2> DEFINE head == <<>>
  <2>1. s = head \o <<e>>
    BY <1>2
  <2>2. head \in Seq(S) /\ e \in S
    OBVIOUS
  <2>3. World!ApplyAll(w, head) = w
    BY FoldNone
  <2>4. Judged(World!Apply(w, e), w, t, state, passed, points, durableAt)
    BY EvaluationStep
  <2> HIDE DEF v, c, head, e, S
  <2>5. World!ApplyAll(w, head \o <<e>>) = World!Apply(w, e) /\ head \o <<e>> # <<>>
    BY <2>2, <2>3, FoldBehind
  <2> QED BY <1>2, <2>1, <2>4, <2>5
<1> QED BY <1>1, <1>2

LEMMA FinishEventsIs ==
  ASSUME NEW w, IsWorld(w), NEW to, to \in {"finished", "aborted"}, NEW winner
  PROVE  MatchSet(World!ApplyAll(w, <<Referee!MatchStateChanged("running", to),
                                      Referee!MatchFinished(winner)>>), w, to, winner)
<1> DEFINE d == Referee!MatchStateChanged("running", to)
           e == Referee!MatchFinished(winner)
           v == World!Apply(w, d)
           z == World!Apply(v, e)
<1>1. World!ApplyAll(w, <<d, e>>) = z
  BY FoldTwo
<1>2. MatchSet(v, w, to, w.winner)
  BY MatchSteps
<1> HIDE DEF v, d
<1>3. IsWorld(v) /\ v.match = to
  BY <1>2 DEF MatchSet
<1>4. MatchSet(z, v, IF v.match = "aborted" THEN "aborted" ELSE "finished", winner)
  BY <1>3, MatchSteps
<1>5. (IF v.match = "aborted" THEN "aborted" ELSE "finished") = to
  BY <1>3
<1>6. MatchSet(z, v, to, winner)
  BY <1>4, <1>5
<1> HIDE DEF z
<1>7. MatchSet(z, w, to, winner)
  BY <1>2, <1>6 DEF MatchSet
<1> QED BY <1>1, <1>7 DEF d

(* Whatever a verdict credits, and the end of the match if that ends it.   *)
Credited(z, w, t, state, passed, points, durableAt, to, winner) ==
  \E v : /\ Judged(v, w, t, state, passed, points, durableAt)
         /\ IF to = "finished" THEN MatchSet(z, v, "finished", winner) ELSE z = v

Completes(m) == m = Completion
Ends(m) == m = Completion /\ StopOnFirstDurable

VerdictEvents(t, m, pay, time, winner) ==
  <<Referee!MilestonePassed(t, m, pay)>> \o
  (IF Completes(m) THEN <<Referee!CompetitorStateChanged(t, "verifying", "durable"),
                          Referee!DurableCompleted(t, time)>> ELSE <<>>) \o
  (IF Ends(m) THEN Referee!FinishEvents(winner) ELSE <<>>)

(* pass_milestone: the milestone, and the durable time and the end if due. *)
LEMMA PassEvents ==
  ASSUME NEW w, IsWorld(w), NEW t, NEW m, NEW pay, NEW time,
         NEW state, NEW passed, NEW points, NEW durableAt,
         Agrees(World!TerritoryOf(w, t), state, passed, points, durableAt), m \notin passed,
         NEW winner, NEW s, s = VerdictEvents(t, m, pay, time, winner),
         NEW state2, state2 = IF Completes(m) THEN "durable" ELSE state,
         NEW durable2, durable2 = IF Completes(m) THEN time ELSE durableAt,
         NEW to, to = IF Ends(m) THEN "finished" ELSE "running"
  PROVE  /\ s # <<>>
         /\ Credited(World!ApplyAll(w, s), w, t, state2, passed \cup {m},
                     World!AddPoints(points, pay), durable2, to, winner)
<1> DEFINE p == Referee!MilestonePassed(t, m, pay)
           c == Referee!CompetitorStateChanged(t, "verifying", "durable")
           d == Referee!DurableCompleted(t, time)
           f == Referee!MatchStateChanged("running", "finished")
           g == Referee!MatchFinished(winner)
           durable == IF Completes(m) THEN <<c, d>> ELSE <<>>
           finish == IF Ends(m) THEN <<f, g>> ELSE <<>>
           total == World!AddPoints(points, pay)
           S == {p, c, d, f, g}
           v1 == World!Apply(w, p)
           v2 == World!ApplyAll(v1, durable)
           v3 == World!ApplyAll(v2, finish)
           all == passed \cup {m}
<1>1. s = (<<p>> \o durable) \o finish
  BY DEF VerdictEvents, Referee!FinishEvents
<1>2. Judged(v1, w, t, state, all, total, durableAt)
  BY PassStep
<1> HIDE DEF p, v1, total
<1>3. IsWorld(v1) /\ Agrees(World!TerritoryOf(v1, t), state, all, total, durableAt)
  BY <1>2, JudgedView
<1>4. Judged(v2, w, t, state2, all, total, durable2)
  <2>1. CASE Completes(m)
    <3> DEFINE u == World!Apply(v1, c)
    <3>1. v2 = World!Apply(u, d)
      BY <2>1, FoldTwo
    <3>2. Judged(u, v1, t, "durable", all, total, durableAt)
      BY <1>3, CompetitorStep
    <3> HIDE DEF u, c
    <3>3. IsWorld(u) /\ Agrees(World!TerritoryOf(u, t), "durable", all, total, durableAt)
      BY <3>2, JudgedView
    <3>4. Judged(World!Apply(u, d), u, t, "durable", all, total, time)
      BY <3>3, DurableStep
    <3>5. Judged(World!Apply(u, d), v1, t, "durable", all, total, time)
      BY <3>2, <3>4, JudgedAgain
    <3>6. Judged(World!Apply(u, d), w, t, "durable", all, total, time)
      BY <1>2, <3>5, JudgedAgain
    <3> QED BY <2>1, <3>1, <3>6
  <2>2. CASE ~Completes(m)
    <3>1. v2 = v1
      BY <2>2, FoldNone
    <3> QED BY <1>2, <2>2, <3>1
  <2> QED BY <2>1, <2>2
<1>5. IsWorld(v2)
  BY <1>4, JudgedView
<1>6. IF Ends(m) THEN MatchSet(v3, v2, "finished", winner) ELSE v3 = v2
  <2>1. CASE Ends(m)
    <3> HIDE DEF v2
    <3>1. MatchSet(World!ApplyAll(v2, <<f, g>>), v2, "finished", winner)
      BY <1>5, FinishEventsIs
    <3> QED BY <2>1, <3>1
  <2>2. CASE ~Ends(m)
    <3> HIDE DEF v2
    <3>1. v3 = v2
      BY <2>2, FoldNone
    <3> QED BY <2>2, <3>1
  <2> QED BY <2>1, <2>2
<1> HIDE DEF c, d, f, g
<1>7. <<p>> \in Seq(S)
  BY DEF S
<1>8. durable \in Seq(S)
  <2>1. \A x, y \in S : <<x, y>> \in Seq(S)
    OBVIOUS
  <2>2. <<>> \in Seq(S)
    OBVIOUS
  <2>3. c \in S /\ d \in S
    OBVIOUS
  <2> HIDE DEF S
  <2> QED BY <2>1, <2>2, <2>3
<1>9. finish \in Seq(S)
  <2>1. \A x, y \in S : <<x, y>> \in Seq(S)
    OBVIOUS
  <2>2. <<>> \in Seq(S)
    OBVIOUS
  <2>3. f \in S /\ g \in S
    OBVIOUS
  <2> HIDE DEF S
  <2> QED BY <2>1, <2>2, <2>3
<1> DEFINE head == <<p>>
           both == head \o durable
<1>10. World!ApplyAll(w, head) = v1 /\ head # <<>> /\ head \in Seq(S)
  BY <1>7, FoldOne DEF v1
<1> HIDE DEF S, durable, finish, head, v2, v3
<1>11. World!ApplyAll(w, both) = v2 /\ both \in Seq(S) /\ both # <<>>
  <2>1. World!ApplyAll(w, both) = World!ApplyAll(World!ApplyAll(w, head), durable)
    BY <1>8, <1>10, FoldConcat
  <2>2. both \in Seq(S) /\ both # <<>>
    BY <1>8, <1>10, NotEmpty
  <2> QED BY <1>10, <2>1, <2>2 DEF v2
<1>12. s = both \o finish
  BY <1>1 DEF head
<1> HIDE DEF both
<1>13. World!ApplyAll(w, s) = v3
  <2>1. World!ApplyAll(w, both \o finish) = World!ApplyAll(World!ApplyAll(w, both), finish)
    BY <1>9, <1>11, FoldConcat
  <2> QED BY <1>11, <1>12, <2>1 DEF v3
<1>14. s # <<>>
  BY <1>9, <1>11, <1>12, NotEmpty
<1>15. Credited(v3, w, t, state2, all, total, durable2, to, winner)
  BY <1>4, <1>6 DEF Credited
<1> QED BY <1>13, <1>14, <1>15 DEF total

-----------------------------------------------------------------------------
(* What the events of agents do to a world.                                *)

Usages == [units : Nat, tokens : {None}, cost : {None}]
Results == [agent : Territory, status : Status, units : Nat]

AgentEvents ==
  {Terminal(r) : r \in Results} \cup {Charge(a, c) : a \in Territory, c \in Usages}
    \cup {Outraced(a) : a \in Territory}

(* The account of one agent, and its being there.                          *)
Moved(v, w, a, running, units) ==
  \E x : AgentSet(v, w, a, x) /\ x.running = running /\ x.units = units

LEMMA SetIsMoved ==
  ASSUME NEW w, IsWorld(w), NEW a, NEW x, DOMAIN x = AgentFields,
         NEW running, NEW units, x.running = running, x.units = units
  PROVE  Moved(World!SetAgent(w, a, x), w, a, running, units)
BY SetAgentIs DEF Moved

LEMMA MovedAgain ==
  ASSUME NEW w, NEW v, NEW z, NEW a, NEW r1, NEW u1, NEW r2, NEW u2,
         Moved(v, w, a, r1, u1), Moved(z, v, a, r2, u2)
  PROVE  Moved(z, w, a, r2, u2)
BY DEF Moved, AgentSet

LEMMA StoppedIs ==
  ASSUME NEW w, IsWorld(w), NEW a, NEW units, World!AgentOf(w, a).units = units,
         NEW successful, NEW source, NEW terminal
  PROVE  Moved(World!Stopped(w, a, successful, source, terminal), w, a, FALSE, units)
<1> DEFINE y == World!AgentOf(w, a)
           x == [y EXCEPT !.running = FALSE, !.successful = successful,
                          !.source = source, !.terminal = terminal]
<1>1. World!Stopped(w, a, successful, source, terminal) = World!SetAgent(w, a, x)
  BY DEF World!Stopped
<1>2. DOMAIN y = AgentFields
  BY EntriesAre
<1> HIDE DEF y
<1>3. DOMAIN x = AgentFields /\ x.running = FALSE /\ x.units = y.units
  BY <1>2 DEF AgentFields
<1> HIDE DEF x
<1>4. y.units = units
  BY DEF y
<1> QED BY <1>1, <1>3, <1>4, SetIsMoved

(* The events that end an agent, and those that charge it.                 *)
LEMMA TerminalStep ==
  ASSUME NEW w, IsWorld(w), NEW r, NEW units, World!AgentOf(w, r.agent).units = units
  PROVE  Moved(World!Apply(w, Terminal(r)), w, r.agent, FALSE, units)
<1> DEFINE e == Terminal(r)
           a == r.agent
<1>1. CASE r.status = "interrupted"
  <2>1. e.kind = "agent_interrupted" /\ e.agent = a
    BY <1>1 DEF Terminal
  <2> HIDE DEF e
  <2>2. World!Apply(w, e) = World!Stopped(w, a, None, e.source, "interrupted")
    BY <2>1 DEF World!Apply
  <2>3. Moved(World!Apply(w, e), w, a, FALSE, units)
    BY <2>2, StoppedIs
  <2> QED BY <2>3 DEF e
<1>2. CASE r.status # "interrupted"
  <2>1. e.kind = "agent_finished" /\ e.agent = a
    BY <1>2 DEF Terminal
  <2> HIDE DEF e
  <2> DEFINE end == IF e.success THEN "completed" ELSE "failed"
  <2>2. World!Apply(w, e) = World!Stopped(w, a, e.success, e.source, end)
    BY <2>1 DEF World!Apply
  <2> HIDE DEF end
  <2>3. Moved(World!Apply(w, e), w, a, FALSE, units)
    BY <2>2, StoppedIs
  <2> QED BY <2>3 DEF e
<1> QED BY <1>1, <1>2

LEMMA OutracedStep ==
  ASSUME NEW w, IsWorld(w), NEW a, NEW units, World!AgentOf(w, a).units = units
  PROVE  Moved(World!Apply(w, Outraced(a)), w, a, FALSE, units)
<1> DEFINE e == Outraced(a)
<1>1. e.kind = "agent_outraced" /\ e.agent = a
  BY DEF Outraced
<1> HIDE DEF e
<1>2. World!Apply(w, e) = World!Stopped(w, a, FALSE, "player", "incomplete")
  BY <1>1 DEF World!Apply
<1>3. Moved(World!Apply(w, e), w, a, FALSE, units)
  BY <1>2, StoppedIs
<1> QED BY <1>3 DEF e

LEMMA ChargeStep ==
  ASSUME NEW w, IsWorld(w), NEW a, NEW c, NEW running, NEW units,
         World!AgentOf(w, a).running = running, World!AgentOf(w, a).units = units
  PROVE  Moved(World!Apply(w, Charge(a, c)), w, a, running, units + c.units)
<1> DEFINE e == Charge(a, c)
           y == World!AgentOf(w, a)
           x == World!Charged(y, c)
<1>1. e.kind = "usage_charged" /\ e.agent = a /\ e.charge = c
  BY DEF Charge
<1> HIDE DEF e
<1>2. World!Apply(w, e) = World!SetAgent(w, a, x)
  BY <1>1 DEF World!Apply, World!ApplyUsage
<1>3. DOMAIN y = AgentFields /\ y.running = running /\ y.units = units
  BY EntriesAre
<1> HIDE DEF y
<1>4. DOMAIN x = AgentFields /\ x.running = y.running /\ x.units = y.units + c.units
  <2> DEFINE tokens == y.tokens + World!Known(c.tokens)
             cost == y.cost + World!Known(c.cost)
             complete == IF c.cost # None \/ World!Known(c.tokens) > 0
                         THEN c.cost # None ELSE y.costComplete
             z == [y EXCEPT !.units = y.units + c.units, !.tokens = tokens,
                            !.cost = cost, !.costComplete = complete]
  <2>1. x = z
    BY DEF World!Charged
  <2> HIDE DEF tokens, cost, complete
  <2>2. DOMAIN z = AgentFields /\ z.running = y.running /\ z.units = y.units + c.units
    BY <1>3 DEF AgentFields
  <2> QED BY <2>1, <2>2
<1> HIDE DEF x
<1>5. Moved(World!SetAgent(w, a, x), w, a, running, units + c.units)
  BY <1>3, <1>4, SetIsMoved
<1> QED BY <1>2, <1>5 DEF e

(* What is charged is what the report says beyond what was seen before.    *)
LEMMA DeltaIs ==
  ASSUME NEW p \in Usages, NEW u \in Nat
  PROVE  /\ Usage!Delta(p, Report(u)) \in Usages /\ Usage!Seen(p, Report(u)) \in Usages
         /\ p.units + Usage!Delta(p, Report(u)).units = Usage!Seen(p, Report(u)).units
         /\ Usage!Seen(p, Report(u)).units = IF u > p.units THEN u ELSE p.units
<1> DEFINE report == Report(u)
           now == Usage!Seen(p, report)
           more == Usage!Delta(p, report)
<1>1. report.units = u /\ report.tokens = None /\ report.cost = None
  BY DEF Report
<1> HIDE DEF report
<1>2. p.units \in Nat /\ p.tokens = None /\ p.cost = None
  BY DEF Usages
<1>3. /\ Usage!OptionMax(None, None) = None /\ Usage!OptionDelta(None, None) = None
  BY DEF Usage!OptionMax, Usage!OptionDelta
<1>4. now = [units |-> IF u > p.units THEN u ELSE p.units, tokens |-> None, cost |-> None]
  BY <1>1, <1>2, <1>3 DEF Usage!Seen
<1>5. more = [units |-> now.units - p.units, tokens |-> None, cost |-> None]
  BY <1>2, <1>3, <1>4 DEF Usage!Delta
<1>6. now.units = (IF u > p.units THEN u ELSE p.units) /\ now.units \in Nat /\ now \in Usages
  BY <1>2, <1>4 DEF Usages
<1> HIDE DEF now
<1>7. more \in Usages /\ p.units + more.units = now.units
  BY <1>2, <1>5, <1>6 DEF Usages
<1> HIDE DEF more
<1> QED BY <1>6, <1>7 DEF now, more, report

(* A list of events of one agent, wherever it comes among the others.      *)
Turn(list, w, a, running, units) ==
  \A v : IsWorld(v) /\ a \in DOMAIN v.agents /\ v.agents[a] = w.agents[a]
           => Moved(World!ApplyAll(v, list), v, a, running, units)

LEMMA AgentOfIs ==
  ASSUME NEW v, NEW a, a \in DOMAIN v.agents
  PROVE  World!AgentOf(v, a) = v.agents[a]
BY DEF World!AgentOf, World!Entry

(* A result, a charge, being outraced, and nothing at all.                 *)
LEMMA ResultTurn ==
  ASSUME NEW w, NEW r \in Results, NEW c \in Usages,
         NEW more, more = <<>> \/ more = <<Outraced(r.agent)>>,
         NEW list, list = <<Terminal(r), Charge(r.agent, c)>> \o more
  PROVE  /\ list \in Seq(AgentEvents) /\ list # <<>>
         /\ Turn(list, w, r.agent, FALSE, w.agents[r.agent].units + c.units)
<1> DEFINE a == r.agent
           d == Terminal(r)
           e == Charge(a, c)
           o == Outraced(a)
           head == <<d, e>>
           n == w.agents[a].units
<1>1. a \in Territory
  BY DEF Results
<1>2. d \in AgentEvents /\ e \in AgentEvents /\ o \in AgentEvents
  BY <1>1 DEF AgentEvents
<1> SUFFICES ASSUME NEW v, IsWorld(v), a \in DOMAIN v.agents, v.agents[a] = w.agents[a]
             PROVE  /\ list \in Seq(AgentEvents) /\ list # <<>>
                    /\ Moved(World!ApplyAll(v, list), v, a, FALSE, n + c.units)
  <2>1. head \in Seq(AgentEvents) /\ head # <<>>
    <3> HIDE DEF d, e, AgentEvents
    <3> QED BY <1>2
  <2>2. more \in Seq(AgentEvents)
    <3>0. more = <<>> \/ more = <<o>>
      OBVIOUS
    <3> HIDE DEF o, AgentEvents
    <3>1. <<o>> \in Seq(AgentEvents) /\ <<>> \in Seq(AgentEvents)
      BY <1>2
    <3> QED BY <3>0, <3>1
  <2>3. list \in Seq(AgentEvents) /\ list # <<>>
    <3>1. list = head \o more
      OBVIOUS
    <3> HIDE DEF head, AgentEvents
    <3>2. head \o more \in Seq(AgentEvents) /\ head \o more # <<>>
      BY <2>1, <2>2, NotEmpty
    <3> QED BY <3>1, <3>2
  <2> QED BY <2>3 DEF Turn
<1> DEFINE v1 == World!Apply(v, d)
           v2 == World!Apply(v1, e)
<1>3. World!AgentOf(v, a).units = n
  BY AgentOfIs
<1>4. Moved(v1, v, a, FALSE, n)
  <2> HIDE DEF n
  <2> QED BY <1>3, TerminalStep
<1> DEFINE k == n + c.units
<1> HIDE DEF a, d, v1, n
<1>5. IsWorld(v1) /\ World!AgentOf(v1, a).running = FALSE /\ World!AgentOf(v1, a).units = n
  BY <1>4 DEF Moved, AgentSet, World!AgentOf, World!Entry
<1>6. Moved(v2, v1, a, FALSE, k)
  BY <1>5, ChargeStep
<1> HIDE DEF e, v2, k
<1>7. Moved(v2, v, a, FALSE, k)
  BY <1>4, <1>6, MovedAgain
<1>8. World!ApplyAll(v, head) = v2
  BY FoldTwo DEF v1, v2
<1>9. head \in Seq(AgentEvents) /\ head # <<>>
  <2> HIDE DEF AgentEvents
  <2> QED BY <1>2
<1> HIDE DEF head, AgentEvents
<1>10. CASE more = <<o>>
  <2> DEFINE all == head \o <<o>>
             v3 == World!Apply(v2, o)
  <2>1. list = all
    BY <1>10 DEF head, d, e, a, o
  <2>2. IsWorld(v2) /\ World!AgentOf(v2, a).units = k
    BY <1>7 DEF Moved, AgentSet, World!AgentOf, World!Entry
  <2>3. Moved(v3, v2, a, FALSE, k)
    BY <2>2, OutracedStep
  <2> HIDE DEF o
  <2>4. Moved(v3, v, a, FALSE, k)
    BY <1>7, <2>3, MovedAgain
  <2>5. World!ApplyAll(v, all) = v3 /\ all \in Seq(AgentEvents) /\ all # <<>>
    BY <1>2, <1>8, <1>9, FoldBehind
  <2> QED BY <2>1, <2>4, <2>5 DEF k
<1>11. CASE more = <<>>
  <2> DEFINE none == <<>>
  <2>1. list = head \o none
    BY <1>11 DEF head, d, e, a
  <2>2. none \in Seq(AgentEvents)
    OBVIOUS
  <2>3. World!ApplyAll(v2, none) = v2
    BY FoldNone
  <2> HIDE DEF none
  <2>4. World!ApplyAll(v, head \o none) = World!ApplyAll(World!ApplyAll(v, head), none)
    BY <1>9, <2>2, FoldConcat
  <2>5. head \o none \in Seq(AgentEvents) /\ head \o none # <<>>
    BY <1>9, <2>2, NotEmpty
  <2> QED BY <1>7, <1>8, <2>1, <2>3, <2>4, <2>5 DEF k
<1>12. more = <<>> \/ more = <<o>>
  BY DEF o, a
<1> QED BY <1>10, <1>11, <1>12

LEMMA ChargeTurn ==
  ASSUME NEW w, NEW a \in Territory, NEW c \in Usages
  PROVE  /\ <<Charge(a, c)>> \in Seq(AgentEvents) /\ <<Charge(a, c)>> # <<>>
         /\ Turn(<<Charge(a, c)>>, w, a, w.agents[a].running, w.agents[a].units + c.units)
<1> DEFINE e == Charge(a, c)
<1>1. e \in AgentEvents
  BY DEF AgentEvents
<1>2. <<e>> \in Seq(AgentEvents) /\ <<e>> # <<>>
  <2> HIDE DEF e, AgentEvents
  <2> QED BY <1>1
<1>3. ASSUME NEW v, IsWorld(v), a \in DOMAIN v.agents, v.agents[a] = w.agents[a]
      PROVE  Moved(World!ApplyAll(v, <<e>>), v, a, w.agents[a].running,
                   w.agents[a].units + c.units)
  <2>1. World!AgentOf(v, a) = w.agents[a]
    BY <1>3, AgentOfIs
  <2>2. Moved(World!Apply(v, e), v, a, World!AgentOf(v, a).running,
              World!AgentOf(v, a).units + c.units)
    BY <1>3, ChargeStep
  <2>3. World!ApplyAll(v, <<e>>) = World!Apply(v, e)
    BY FoldOne
  <2> QED BY <2>1, <2>2, <2>3
<1> QED BY <1>2, <1>3 DEF Turn

LEMMA OutracedTurn ==
  ASSUME NEW w, NEW a \in Territory
  PROVE  /\ <<Outraced(a)>> \in Seq(AgentEvents) /\ <<Outraced(a)>> # <<>>
         /\ Turn(<<Outraced(a)>>, w, a, FALSE, w.agents[a].units)
<1> DEFINE e == Outraced(a)
<1>1. e \in AgentEvents
  BY DEF AgentEvents
<1>2. <<e>> \in Seq(AgentEvents) /\ <<e>> # <<>>
  <2> HIDE DEF e, AgentEvents
  <2> QED BY <1>1
<1>3. ASSUME NEW v, IsWorld(v), a \in DOMAIN v.agents, v.agents[a] = w.agents[a]
      PROVE  Moved(World!ApplyAll(v, <<e>>), v, a, FALSE, w.agents[a].units)
  <2>1. World!AgentOf(v, a).units = w.agents[a].units
    BY <1>3, AgentOfIs
  <2>2. Moved(World!Apply(v, e), v, a, FALSE, World!AgentOf(v, a).units)
    BY <1>3, OutracedStep
  <2>3. World!ApplyAll(v, <<e>>) = World!Apply(v, e)
    BY FoldOne
  <2> QED BY <2>1, <2>2, <2>3
<1> QED BY <1>2, <1>3 DEF Turn

LEMMA IdleTurn ==
  ASSUME NEW w, NEW a
  PROVE  /\ <<>> \in Seq(AgentEvents)
         /\ Turn(<<>>, w, a, w.agents[a].running, w.agents[a].units)
<1>1. <<>> \in Seq(AgentEvents)
  OBVIOUS
<1>2. ASSUME NEW v, IsWorld(v), a \in DOMAIN v.agents, v.agents[a] = w.agents[a]
      PROVE  Moved(World!ApplyAll(v, <<>>), v, a, w.agents[a].running, w.agents[a].units)
  <2>1. Moved(v, v, a, w.agents[a].running, w.agents[a].units)
    BY <1>2 DEF Moved, AgentSet, IsWorld
  <2> QED BY <2>1, FoldNone
<1> QED BY <1>1, <1>2 DEF Turn

(* Turns of distinct agents, one behind the other.                         *)
Swept(v, w, n, who, running, units) ==
  /\ IsWorld(v)
  /\ v.match = w.match /\ v.winner = w.winner /\ v.territories = w.territories
  /\ DOMAIN v.agents = DOMAIN w.agents
  /\ \A i \in 1..n : /\ v.agents[who[i]].running = running[i]
                     /\ v.agents[who[i]].units = units[i]
  /\ \A a \in DOMAIN w.agents : (\A i \in 1..n : who[i] # a) => v.agents[a] = w.agents[a]

LEMMA TurnsSweep ==
  ASSUME NEW w, IsWorld(w), NEW lists, Len(lists) \in Nat,
         \A i \in 1..Len(lists) : lists[i] \in Seq(AgentEvents),
         NEW who, NEW running, NEW units,
         \A i \in 1..Len(lists) : who[i] \in DOMAIN w.agents,
         \A i \in 1..Len(lists) : Turn(lists[i], w, who[i], running[i], units[i]),
         \A i, j \in 1..Len(lists) : who[i] = who[j] => i = j
  PROVE  Swept(World!ApplyAll(w, Joined(lists)), w, Len(lists), who, running, units)
<1>1. PICK f : Rounds(f, w, lists)
  BY FoldJoined
<1>2. /\ f[0] = w
      /\ \A i \in 1..Len(lists) : f[i] = World!ApplyAll(f[i - 1], lists[i])
      /\ World!ApplyAll(w, Joined(lists)) = f[Len(lists)]
  BY <1>1 DEF Rounds
<1> DEFINE S == {n \in Nat : n <= Len(lists) => Swept(f[n], w, n, who, running, units)}
<1>3. 0 \in S
  BY <1>2 DEF Swept
<1>4. ASSUME NEW n \in Nat, n \in S PROVE n + 1 \in S
  <2> SUFFICES ASSUME n + 1 <= Len(lists)
               PROVE  Swept(f[n + 1], w, n + 1, who, running, units)
    OBVIOUS
  <2>1. Swept(f[n], w, n, who, running, units)
    BY <1>4
  <2>2. n + 1 \in 1..Len(lists) /\ (n + 1) - 1 = n
    OBVIOUS
  <2> DEFINE k == n + 1
             a == who[k]
             v == f[n]
             z == f[k]
  <2>3. z = World!ApplyAll(v, lists[k])
    BY <1>2, <2>2
  <2>4. a \in DOMAIN w.agents
    BY <2>2
  <2>5. \A i \in 1..n : who[i] # a
    <3> SUFFICES ASSUME NEW i \in 1..n, who[i] = a PROVE FALSE
      OBVIOUS
    <3>1. i \in 1..Len(lists) /\ i # k
      OBVIOUS
    <3> QED BY <2>2, <3>1
  <2>6. IsWorld(v) /\ a \in DOMAIN v.agents /\ v.agents[a] = w.agents[a]
    BY <2>1, <2>4, <2>5 DEF Swept
  <2>7. Turn(lists[k], w, a, running[k], units[k])
    BY <2>2
  <2>8. Moved(z, v, a, running[k], units[k])
    BY <2>3, <2>6, <2>7 DEF Turn
  <2>9. \A i \in 1..k : i = k \/ i \in 1..n
    OBVIOUS
  <2>10. \A i \in 1..n : i \in 1..k /\ i \in 1..Len(lists)
    OBVIOUS
  <2> HIDE DEF v, z, k
  <2>11. /\ IsWorld(z) /\ DOMAIN z.agents = DOMAIN v.agents
         /\ z.match = v.match /\ z.winner = v.winner /\ z.territories = v.territories
         /\ z.agents[a].running = running[k] /\ z.agents[a].units = units[k]
         /\ \A b \in DOMAIN v.agents \ {a} : z.agents[b] = v.agents[b]
    BY <2>6, <2>8 DEF Moved, AgentSet
  <2>12. Swept(v, w, n, who, running, units)
    BY <2>1 DEF v
  <2>13. \A i \in 1..n : who[i] \in DOMAIN v.agents \ {a}
    BY <2>5, <2>10, <2>12 DEF Swept
  <2>14. \A i \in 1..k : /\ z.agents[who[i]].running = running[i]
                         /\ z.agents[who[i]].units = units[i]
    BY <2>9, <2>11, <2>12, <2>13 DEF Swept
  <2>15. ASSUME NEW b \in DOMAIN w.agents, \A i \in 1..k : who[i] # b
         PROVE  z.agents[b] = w.agents[b]
    <3>1. b # a
      <4>1. k \in 1..k
        BY DEF k
      <4> QED BY <2>15, <4>1
    <3>2. \A i \in 1..n : who[i] # b
      BY <2>10, <2>15
    <3>3. v.agents[b] = w.agents[b] /\ b \in DOMAIN v.agents
      BY <2>12, <3>2 DEF Swept
    <3> QED BY <2>11, <3>1, <3>3
  <2>16. /\ z.match = w.match /\ z.winner = w.winner /\ z.territories = w.territories
         /\ DOMAIN z.agents = DOMAIN w.agents
    BY <2>11, <2>12 DEF Swept
  <2>17. Swept(z, w, k, who, running, units)
    BY <2>11, <2>14, <2>15, <2>16 DEF Swept
  <2> QED BY <2>17 DEF z, k
<1> HIDE DEF S
<1>5. \A n \in Nat : n \in S
  BY <1>3, <1>4, SetInduction
<1> QED BY <1>2, <1>5 DEF S

-----------------------------------------------------------------------------
(* The inductive invariant.                                                *)

Waiting == {"boot", "register"}
Checking == {"begin", "verify"}
LoopPhases == {"register", "loop", "collect", "contest", "sweep", "begin", "verify", "checkpoint"}
DrainPhases == {"freeze", "drain", "tally", "close", "done"}
Phases == {"boot", "over", "failed"} \cup LoopPhases \cup DrainPhases

WorkerRecord ==
  [state : {"waiting", "building", "ended", "killed"}, spent : Nat, told : Nat]

TypeOK ==
  /\ matchState \in Referee!MatchStates
  /\ competitors \in [Territory -> Referee!CompetitorRecord]
  /\ sequence \in Nat /\ lastTime \in Nat /\ clock \in Nat
  /\ outcome \in Referee!Outcome \cup {None}
  /\ pc \in Phases
  /\ current \in Nat /\ current >= 1
  /\ checks \subseteq Territory
  /\ seen \in [Territory -> Usages]
  /\ drain \in [pending : Nat, captured : Nat]
  /\ worker \in [Territory -> WorkerRecord]
  /\ channel \in Seq(Results)

(* The two ledgers, from the moment the world has its territories.         *)
LedgersOK ==
  /\ IsWorld(world)
  /\ world.match = matchState
  /\ world.winner = IF outcome = None THEN None ELSE outcome.winner
  /\ world.elapsed = lastTime
  /\ DOMAIN world.territories = IF pc = "boot" THEN {} ELSE Territory
  /\ \A t \in DOMAIN world.territories :
       LET c == competitors[t] IN
       Agrees(world.territories[t], c.state, c.passed, c.points, c.durableAt)

(* What the place in the loop says of the match and of its clock.          *)
PhaseOK ==
  /\ pc = "boot" =>
       /\ matchState = "preparing"
       /\ \A t \in Territory : competitors[t] =
            [state |-> "preparing", passed |-> {}, points |-> 0, durableAt |-> None]
  /\ pc \in Waiting => lastTime = 0 /\ outcome = None
  /\ pc \in LoopPhases => matchState = IF outcome = None THEN "running" ELSE "finished"
  /\ pc \in {"collect", "contest", "begin"} => outcome = None
  /\ pc = "over" => matchState = "aborted" /\ outcome = None
  /\ pc \in DrainPhases => matchState = "finished" /\ outcome # None
  /\ pc \in {"drain", "tally", "close"} => frozen = lastTime
  /\ lastTime <= clock
  /\ matchState # "aborted" => reply = "ok"

(* A check that is pending is of a milestone that may still be scored.     *)
ChecksOK ==
  /\ checks # {} => pc \in Checking \cup {"failed"}
  /\ pc \in Checking =>
       /\ current \in 1..Len(Contract)
       /\ \A t \in checks : /\ Contract[current] \notin competitors[t].passed
                            /\ DependsOn[Contract[current]] \subseteq competitors[t].passed

(* Nobody is durable while a match that stops there runs.                  *)
DurableOK ==
  StopOnFirstDurable /\ matchState \in {"preparing", "running"} =>
    \A t \in Territory : competitors[t].durableAt = None

(* The account of each agent, and its result on the way.                   *)
AgentsOK ==
  /\ DOMAIN world.agents = IF pc \in Waiting THEN {} ELSE Territory
  /\ \A a \in DOMAIN world.agents : world.agents[a].units = seen[a].units
  /\ \A a \in Territory :
       /\ worker[a].told <= worker[a].spent
       /\ seen[a].units <= worker[a].spent
       /\ pc \in Waiting => seen[a].units = 0 /\ worker[a].state = "waiting"
       /\ worker[a].state = "building" => world.agents[a].running
       /\ worker[a].state = "ended" =>
            \/ seen[a].units >= worker[a].told
            \/ \E i \in 1..Len(channel) : channel[i].agent = a

ChannelOK ==
  /\ pc \in Waiting => channel = <<>>
  /\ \A i \in 1..Len(channel) :
       LET a == channel[i].agent IN
       /\ worker[a].state = "ended"
       /\ channel[i].units = worker[a].told
       /\ world.agents[a].running
  /\ \A i, j \in 1..Len(channel) : channel[i].agent = channel[j].agent => i = j

DrainOK ==
  /\ pc \in {"drain", "tally", "close"} =>
       drain.captured + Cardinality(Running) = drain.pending
  /\ pc \in {"tally", "close", "done"} =>
       channel = <<>> /\ \A a \in Territory : worker[a].state # "building"
  /\ pc = "done" =>
       /\ Running = {}
       /\ emitted[Len(emitted)].captured + emitted[Len(emitted)].terminated = drain.pending

Inv ==
  /\ TypeOK /\ LedgersOK /\ PhaseOK /\ ChecksOK /\ DurableOK
  /\ AgentsOK /\ ChannelOK /\ DrainOK

-----------------------------------------------------------------------------
(* Facts about the constants, and what steps leave alone.                  *)

LEMMA IdsAre ==
  /\ Len(Ids) \in Nat
  /\ \A i \in 1..Len(Ids) : Ids[i] \in Territory /\ Ids[i] \in Nat
  /\ \A i, j \in 1..Len(Ids) : Ids[i] = Ids[j] => i = j
  /\ \A t \in Territory : t \in Nat /\ \E i \in 1..Len(Ids) : t = Ids[i]
<1>1. Ids \in Seq(Nat)
  BY MatchConstants
<1>2. \A i \in 1..Len(Ids) : Ids[i] \in Nat
  BY <1>1
<1>3. ASSUME NEW i \in 1..Len(Ids), NEW j \in 1..Len(Ids), Ids[i] = Ids[j] PROVE i = j
  <2>1. ~(i < j) /\ ~(j < i)
    BY <1>2, <1>3, MatchConstants
  <2> QED BY <2>1
<1> QED BY <1>1, <1>2, <1>3 DEF Territory

LEMMA TerritoryFinite == IsFiniteSet(Territory)
<1> DEFINE f == [i \in 1..Len(Ids) |-> Ids[i]]
<1>1. IsFiniteSet(1..Len(Ids))
  BY IdsAre, FS_Interval
<1>2. f \in Surjection(1..Len(Ids), Territory)
  BY IdsAre DEF Surjection
<1> HIDE DEF f
<1> QED BY <1>1, <1>2, FS_Surjection

LEMMA ContractIs ==
  /\ Len(Contract) \in Nat
  /\ \A i \in 1..Len(Contract) : Contract[i] \in Milestone
  /\ \A m \in Milestone : m \in Milestone /\ Points[m] \in 0..MaxPoints
BY MatchConstants DEF Milestone

LEMMA LedgersKept ==
  ASSUME LedgersOK, UNCHANGED <<matchState, competitors, outcome>>,
         pc = "boot" <=> pc' = "boot",
         IsWorld(world'), world'.match = world.match, world'.winner = world.winner,
         world'.territories = world.territories, world'.elapsed = lastTime'
  PROVE  LedgersOK'
BY DEF LedgersOK

LEMMA AgentsKept ==
  ASSUME AgentsOK, ChannelOK, world'.agents = world.agents, UNCHANGED <<seen, worker, channel>>,
         pc \in Waiting <=> pc' \in Waiting
  PROVE  AgentsOK' /\ ChannelOK'
BY DEF AgentsOK, ChannelOK

LEMMA DurableKept ==
  ASSUME DurableOK, UNCHANGED <<matchState, competitors>>
  PROVE  DurableOK'
BY DEF DurableOK

(* Steps of the runner that call nobody.                                   *)
LEMMA NoCallInv ==
  ASSUME Inv, NEW next, NoCall(next), UNCHANGED <<seen, drain, agentVars>>,
         pc \notin Waiting, next \in LoopPhases \cup {"freeze", "failed"}, next # "register",
         clock' \in Nat, clock' >= clock,
         current' \in Nat, current' >= 1, checks' \subseteq Territory,
         PhaseOK', ChecksOK'
  PROVE  Inv'
<1>1. UNCHANGED <<matchState, competitors, sequence, lastTime, outcome, emitted, reply, world,
                  worker, channel>> /\ pc' = next
  BY DEF NoCall, refereeVars, agentVars
<1>2. pc' \in Phases /\ pc' \notin Waiting /\ pc # "boot" /\ pc' # "boot"
      /\ pc' \notin {"drain", "tally", "close", "done"}
  <2>1. next \in LoopPhases \cup {"freeze", "failed"}
    OBVIOUS
  <2> QED BY <1>1, <2>1 DEF Phases, Waiting, LoopPhases, DrainPhases
<1>3. TypeOK'
  BY <1>1, <1>2 DEF Inv, TypeOK
<1>4. LedgersOK'
  BY <1>1, <1>2 DEF Inv, LedgersOK
<1>5. AgentsOK' /\ ChannelOK'
  BY <1>1, <1>2, AgentsKept DEF Inv
<1>6. DurableOK'
  BY <1>1 DEF Inv, DurableOK
<1>7. DrainOK'
  BY <1>2 DEF DrainOK
<1> QED BY <1>3, <1>4, <1>5, <1>6, <1>7 DEF Inv

LEMMA TickInv == Inv /\ Tick => Inv'
<1> SUFFICES ASSUME Inv, Tick PROVE Inv'
  OBVIOUS
<1>1. /\ NoCall("collect") /\ pc' = "collect" /\ pc = "loop" /\ outcome = None
      /\ UNCHANGED <<matchState, competitors, lastTime, outcome, reply, frozen, current, checks>>
      /\ UNCHANGED <<seen, drain, agentVars>> /\ clock' = clock + 1
  BY DEF Tick, Open, NoCall, refereeVars, runnerVars
<1>2. clock \in Nat /\ current \in Nat /\ current >= 1 /\ checks \subseteq Territory
  BY DEF Inv, TypeOK
<1>3. PhaseOK'
  <2>1. lastTime \in Nat
    BY DEF Inv, TypeOK
  <2> QED BY <1>1, <1>2, <2>1 DEF Inv, PhaseOK, LoopPhases, Waiting, DrainPhases
<1>4. ChecksOK'
  BY <1>1 DEF Inv, ChecksOK, Checking
<1> QED BY <1>1, <1>2, <1>3, <1>4, NoCallInv DEF LoopPhases, Waiting

LEMMA ContestInv == Inv /\ Contest => Inv'
<1> SUFFICES ASSUME Inv, Contest PROVE Inv'
  OBVIOUS
<1>1. /\ NoCall("sweep") /\ pc' = "sweep" /\ pc = "contest"
      /\ UNCHANGED <<matchState, competitors, lastTime, outcome, reply, frozen, checks>>
      /\ UNCHANGED <<seen, drain, agentVars, clock>> /\ current' = 1
  BY DEF Contest, NoCall, refereeVars
<1>2. clock \in Nat /\ checks \subseteq Territory
  BY DEF Inv, TypeOK
<1>3. PhaseOK'
  BY <1>1 DEF Inv, PhaseOK, LoopPhases, Waiting, DrainPhases
<1>4. ChecksOK'
  BY <1>1 DEF Inv, ChecksOK, Checking
<1> QED BY <1>1, <1>2, <1>3, <1>4, NoCallInv DEF LoopPhases, Waiting

LEMMA SweepInv == Inv /\ Sweep => Inv'
<1> SUFFICES ASSUME Inv, Sweep PROVE Inv'
  OBVIOUS
<1> DEFINE next == {i \in current..Len(Contract) : \E t \in Territory : Eligible(t, Contract[i])}
<1>1. /\ pc = "sweep" /\ UNCHANGED <<clock, checks, seen, frozen, drain, agentVars>>
      /\ \/ NoCall("checkpoint") /\ UNCHANGED current
         \/ outcome = None /\ next # {} /\ NoCall("begin") /\ current' = Min(next)
  BY DEF Sweep
<1>2. clock \in Nat /\ checks \subseteq Territory /\ current \in Nat /\ current >= 1
  BY DEF Inv, TypeOK
<1>3. checks = {}
  BY <1>1 DEF Inv, ChecksOK, Checking
<1>4. CASE NoCall("checkpoint") /\ UNCHANGED current
  <2>1. /\ pc' = "checkpoint"
        /\ UNCHANGED <<matchState, competitors, lastTime, outcome, reply, frozen, checks>>
    BY <1>1, <1>4 DEF NoCall, refereeVars
  <2>2. PhaseOK'
    BY <1>1, <2>1 DEF Inv, PhaseOK, LoopPhases, Waiting, DrainPhases
  <2>3. ChecksOK'
    BY <1>3, <2>1 DEF ChecksOK, Checking
  <2> QED BY <1>1, <1>2, <1>4, <2>2, <2>3, NoCallInv DEF LoopPhases, Waiting
<1>5. CASE outcome = None /\ next # {} /\ NoCall("begin") /\ current' = Min(next)
  <2>1. /\ pc' = "begin"
        /\ UNCHANGED <<matchState, competitors, lastTime, outcome, reply, frozen, checks>>
    BY <1>1, <1>5 DEF NoCall, refereeVars
  <2>2. PhaseOK'
    BY <1>1, <1>5, <2>1 DEF Inv, PhaseOK, LoopPhases, Waiting, DrainPhases
  <2>3. \A i \in next : i \in 1..Len(Contract) /\ i \in Nat /\ i >= 1
    BY <1>2, ContractIs
  <2> HIDE DEF next
  <2>4. \E x \in next : \A y \in next : x <= y
    <3>1. next \in SUBSET Nat
      BY <2>3
    <3> QED BY <1>5, <3>1, Least
  <2>5. Min(next) \in next
    BY <2>4 DEF Min
  <2>6. current' \in 1..Len(Contract) /\ current' \in Nat /\ current' >= 1
    BY <1>5, <2>3, <2>5
  <2>7. ChecksOK'
    BY <1>3, <2>1, <2>6 DEF ChecksOK
  <2> QED BY <1>1, <1>2, <1>5, <2>2, <2>6, <2>7, NoCallInv DEF LoopPhases, Waiting
<1> QED BY <1>1, <1>4, <1>5

LEMMA RebootLostInv ==
  ASSUME NEW t \in Territory
  PROVE  Inv /\ RebootLost(t) => Inv'
<1> SUFFICES ASSUME Inv, RebootLost(t) PROVE Inv'
  OBVIOUS
<1>1. /\ NoCall("failed") /\ pc' = "failed" /\ pc = "verify"
      /\ UNCHANGED <<matchState, competitors, lastTime, outcome, reply, frozen, current, checks>>
      /\ UNCHANGED <<seen, drain, agentVars, clock>>
  BY DEF RebootLost, NoCall, refereeVars, runnerVars
<1>2. clock \in Nat /\ checks \subseteq Territory /\ current \in Nat /\ current >= 1
  BY DEF Inv, TypeOK
<1>3. PhaseOK'
  BY <1>1 DEF Inv, PhaseOK, LoopPhases, Waiting, DrainPhases
<1>4. ChecksOK'
  BY <1>1 DEF Inv, ChecksOK, Checking
<1> QED BY <1>1, <1>2, <1>3, <1>4, NoCallInv DEF LoopPhases, Waiting

LEMMA ChecksDoneInv == Inv /\ ChecksDone => Inv'
<1> SUFFICES ASSUME Inv, ChecksDone PROVE Inv'
  OBVIOUS
<1>1. /\ NoCall("sweep") /\ pc' = "sweep" /\ pc = "verify"
      /\ UNCHANGED <<matchState, competitors, lastTime, outcome, reply, frozen>>
      /\ UNCHANGED <<seen, drain, agentVars, clock>> /\ checks' = {} /\ current' = current + 1
  BY DEF ChecksDone, NoCall, refereeVars
<1>2. clock \in Nat /\ current \in Nat /\ current >= 1 /\ current' \in Nat /\ current' >= 1
  BY <1>1 DEF Inv, TypeOK
<1>3. PhaseOK'
  BY <1>1 DEF Inv, PhaseOK, LoopPhases, Waiting, DrainPhases
<1>4. ChecksOK'
  BY <1>1 DEF Inv, ChecksOK, Checking
<1> QED BY <1>1, <1>2, <1>3, <1>4, NoCallInv DEF LoopPhases, Waiting

LEMMA FinishedInv == Inv /\ Finished => Inv'
<1> SUFFICES ASSUME Inv, Finished PROVE Inv'
  OBVIOUS
<1>1. /\ NoCall("freeze") /\ pc' = "freeze" /\ pc \in {"loop", "over"} /\ outcome # None
      /\ UNCHANGED <<matchState, competitors, lastTime, outcome, reply, frozen, current, checks>>
      /\ UNCHANGED <<seen, drain, agentVars, clock>>
  BY DEF Finished, LoopOver, NoCall, refereeVars, runnerVars
<1>2. clock \in Nat /\ checks \subseteq Territory /\ current \in Nat /\ current >= 1
  BY DEF Inv, TypeOK
<1>3. PhaseOK'
  BY <1>1 DEF Inv, PhaseOK, LoopPhases, Waiting, DrainPhases
<1>4. ChecksOK'
  BY <1>1 DEF Inv, ChecksOK, Checking
<1> QED BY <1>1, <1>2, <1>3, <1>4, NoCallInv DEF LoopPhases, Waiting

LEMMA ElapseInv == Inv /\ Elapse => Inv'
<1> SUFFICES ASSUME Inv, Elapse PROVE Inv'
  OBVIOUS
<1>1. /\ pc = "verify" /\ clock' = clock + 1
      /\ UNCHANGED <<matchState, competitors, sequence, lastTime, outcome, emitted, reply, pc,
                     world, current, checks, seen, frozen, drain, worker, channel>>
  BY DEF Elapse, refereeVars, runnerVars, agentVars
<1>2. clock \in Nat /\ lastTime \in Nat
  BY DEF Inv, TypeOK
<1>3. TypeOK' /\ PhaseOK'
  BY <1>1, <1>2 DEF Inv, TypeOK, PhaseOK
<1>4. LedgersOK' /\ ChecksOK' /\ DurableOK'
  BY <1>1 DEF Inv, LedgersOK, ChecksOK, DurableOK
<1>5. AgentsOK' /\ ChannelOK'
  BY <1>1, AgentsKept DEF Inv
<1>6. DrainOK'
  BY <1>1 DEF DrainOK
<1> QED BY <1>3, <1>4, <1>5, <1>6 DEF Inv

(* The invariant holds at first.                                           *)
LEMMA InvInit == Init => Inv
<1> SUFFICES ASSUME Init PROVE Inv
  OBVIOUS
<1>1. /\ matchState = "preparing" /\ sequence = 0 /\ lastTime = 0 /\ outcome = None
      /\ competitors = [t \in Territory |->
           [state |-> "preparing", passed |-> {}, points |-> 0, durableAt |-> None]]
      /\ reply = "ok" /\ pc = "boot" /\ clock = 0 /\ world = World!DefaultWorld
      /\ current = 1 /\ checks = {} /\ drain = [pending |-> 0, captured |-> 0]
      /\ channel = <<>>
  BY DEF Init, Referee!Init, Territory, Referee!Territory
<1>2. /\ seen = [a \in Territory |-> [units |-> 0, tokens |-> None, cost |-> None]]
      /\ worker = [a \in Territory |-> [state |-> "waiting", spent |-> 0, told |-> 0]]
  BY DEF Init, Usage!NoUsage
<1>3. TypeOK
  <2>1. MaxPoints \in Nat
    BY MatchConstants
  <2>2. competitors \in [Territory -> Referee!CompetitorRecord]
    BY <1>1, <2>1 DEF Referee!CompetitorRecord
  <2>3. seen \in [Territory -> Usages] /\ worker \in [Territory -> WorkerRecord]
    BY <1>2 DEF Usages, WorkerRecord
  <2>4. channel \in Seq(Results)
    BY <1>1
  <2>5. drain \in [pending : Nat, captured : Nat]
    BY <1>1
  <2>6. matchState \in Referee!MatchStates /\ pc \in Phases
    BY <1>1 DEF Referee!MatchStates, Phases
  <2>7. /\ outcome \in Referee!Outcome \cup {None} /\ checks \subseteq Territory
        /\ sequence \in Nat /\ lastTime \in Nat /\ clock \in Nat /\ current \in Nat /\ current >= 1
    BY <1>1
  <2> QED BY <2>2, <2>3, <2>4, <2>5, <2>6, <2>7 DEF TypeOK
<1>4. LedgersOK
  BY <1>1, DefaultsAre DEF LedgersOK
<1>5. PhaseOK
  BY <1>1 DEF PhaseOK, Waiting, LoopPhases, DrainPhases
<1>6. ChecksOK /\ DurableOK
  BY <1>1 DEF ChecksOK, DurableOK, Checking
<1>7. AgentsOK /\ ChannelOK
  BY <1>1, <1>2, DefaultsAre DEF AgentsOK, ChannelOK, Waiting
<1>8. DrainOK
  BY <1>1 DEF DrainOK
<1> QED BY <1>3, <1>4, <1>5, <1>6, <1>7, <1>8 DEF Inv

(* The calls that end the match.                                           *)
Ended(to, winner) ==
  /\ IsWorld(world') /\ world'.match = to /\ world'.winner = winner
  /\ world'.territories = world.territories /\ world'.agents = world.agents
  /\ world'.elapsed = lastTime'

(* A call that ends the match.                                             *)
LEMMA EndIs ==
  ASSUME IsWorld(world), NEW to, to \in {"finished", "aborted"}, NEW winner,
         emitted' = <<Referee!MatchStateChanged("running", to), Referee!MatchFinished(winner)>>,
         world' = World!Reduce(world, emitted', sequence', lastTime')
  PROVE  Ended(to, winner)
<1> DEFINE d == Referee!MatchStateChanged("running", to)
           e == Referee!MatchFinished(winner)
           s == <<d, e>>
           v == World!ApplyAll(world, s)
           next == sequence'
           time == lastTime'
           end == World!Reduce(world, s, next, time)
<1>1. MatchSet(v, world, to, winner)
  BY FinishEventsIs
<1>2. s # <<>>
  OBVIOUS
<1>3. end = world'
  OBVIOUS
<1> HIDE DEF s
<1>4. IsWorld(v)
  BY <1>1 DEF MatchSet
<1>5. Stamped(end, v, time)
  <2> HIDE DEF next, time
  <2> QED BY <1>2, <1>4, ReduceIs
<1> HIDE DEF v, end
<1> QED BY <1>1, <1>3, <1>5 DEF Stamped, MatchSet, Ended

LEMMA EndInvs ==
  ASSUME Inv, NEW to, to \in {"finished", "aborted"}, NEW winner, Ended(to, winner),
         matchState' = to, UNCHANGED <<competitors, current, checks, agentVars, seen, drain, clock>>,
         outcome' \in Referee!Outcome \cup {None}, sequence' \in Nat, lastTime' = clock,
         winner = IF outcome' = None THEN None ELSE outcome'.winner,
         pc \in {"loop", "contest"}, pc' \in {"over", "freeze"}
  PROVE  TypeOK' /\ LedgersOK' /\ ChecksOK' /\ DurableOK' /\ AgentsOK' /\ ChannelOK' /\ DrainOK'
<1>1. TypeOK'
  BY DEF Inv, TypeOK, agentVars, Referee!MatchStates, Phases, DrainPhases
<1>2. LedgersOK'
  BY DEF Inv, LedgersOK, Ended
<1>3. ChecksOK' /\ DurableOK' /\ DrainOK'
  BY DEF Inv, ChecksOK, DurableOK, DrainOK, Checking
<1>4. AgentsOK' /\ ChannelOK'
  BY AgentsKept DEF Inv, Ended, agentVars, Waiting
<1> QED BY <1>1, <1>2, <1>3, <1>4

LEMMA LoopIsRunning ==
  ASSUME Inv, pc \in LoopPhases, outcome = None
  PROVE  Referee!Accepts(clock) /\ matchState = "running"
BY DEF Inv, PhaseOK, Referee!Accepts

LEMMA AbortInv ==
  ASSUME Inv, pc \in {"loop", "contest"}, outcome = None, Call(Referee!Abort(clock), "over"),
         UNCHANGED <<clock, runnerVars, agentVars>>
  PROVE  Inv'
<1>1. Referee!Accepts(clock)
  BY LoopIsRunning DEF LoopPhases
<1>2. /\ matchState' = "aborted" /\ UNCHANGED <<competitors, outcome>>
      /\ emitted' = <<Referee!MatchStateChanged("running", "aborted"),
                      Referee!MatchFinished(None)>>
      /\ sequence' = sequence + Len(emitted') /\ lastTime' = clock /\ reply' = "ok"
      /\ world' = World!Reduce(world, emitted', sequence', lastTime')
      /\ pc' = "over"
  BY <1>1 DEF Call, Referee!Abort, Referee!Refused, Referee!Emit
<1>3. Ended("aborted", None)
  <2>1. IsWorld(world)
    BY DEF Inv, LedgersOK
  <2> QED BY <1>2, <2>1, EndIs
<1>4. sequence' \in Nat
  BY <1>2 DEF Inv, TypeOK
<1>5. TypeOK' /\ LedgersOK' /\ ChecksOK' /\ DurableOK' /\ AgentsOK' /\ ChannelOK' /\ DrainOK'
  BY <1>2, <1>3, <1>4, EndInvs DEF runnerVars
<1>6. PhaseOK'
  <2>1. clock \in Nat
    BY DEF Inv, TypeOK
  <2> QED BY <1>2, <2>1 DEF PhaseOK, Waiting, LoopPhases, DrainPhases
<1> QED BY <1>5, <1>6 DEF Inv

LEMMA InterruptInv == Inv /\ Interrupt => Inv'
BY AbortInv DEF Interrupt, Open

LEMMA NoContestInv == Inv /\ NoContest => Inv'
<1> SUFFICES ASSUME Inv, NoContest PROVE Inv'
  OBVIOUS
<1>1. outcome = None
  BY DEF Inv, PhaseOK, NoContest
<1> QED BY <1>1, AbortInv DEF NoContest

LEMMA WinnerIs ==
  ASSUME NEW c
  PROVE  Referee!Winner(c) \in Territory \cup {None}
<1> DEFINE clear == {t \in Referee!Territory :
                  /\ Referee!FirstOf(c, t, Referee!Territory)
                  /\ \A u \in Referee!Territory \ {t} :
                       Referee!FirstOf(c, u, Referee!Territory \ {t}) => ~Referee!Tied(c, t, u)}
<1>1. Referee!Winner(c) = IF clear = {} THEN None ELSE CHOOSE t \in clear : TRUE
  BY DEF Referee!Winner
<1>2. clear # {} => (CHOOSE t \in clear : TRUE) \in clear
  OBVIOUS
<1>3. clear \subseteq Territory
  BY DEF Territory, Referee!Territory
<1> HIDE DEF clear
<1> QED BY <1>1, <1>2, <1>3

(* The timer expires: finish is called.                                    *)
LEMMA ExpireInv == Inv /\ Expire => Inv'
<1> SUFFICES ASSUME Inv, Expire PROVE Inv'
  OBVIOUS
<1> DEFINE w == Referee!Winner(competitors)
<1>1. /\ outcome = None /\ pc \in {"over", "loop"}
      /\ UNCHANGED <<clock, runnerVars, agentVars>>
      /\ Call(Referee!Finish(clock), "freeze")
  BY DEF Expire, LoopOver
<1>2. CASE pc = "loop"
  <2>1. Referee!Accepts(clock)
    BY <1>1, <1>2, LoopIsRunning DEF LoopPhases
  <2>2. /\ matchState' = "finished" /\ UNCHANGED competitors
        /\ outcome' = [winner |-> w]
        /\ emitted' = <<Referee!MatchStateChanged("running", "finished"),
                        Referee!MatchFinished(w)>>
        /\ sequence' = sequence + Len(emitted') /\ lastTime' = clock /\ reply' = "ok"
        /\ world' = World!Reduce(world, emitted', sequence', lastTime')
        /\ pc' = "freeze"
    BY <1>1, <2>1 DEF Call, Referee!Finish, Referee!Refused, Referee!Emit, Referee!FinishEvents
  <2>3. w \in Territory \cup {None}
    BY WinnerIs
  <2> HIDE DEF w
  <2>4. Ended("finished", w)
    <3>1. IsWorld(world)
      BY DEF Inv, LedgersOK
    <3> QED BY <2>2, <3>1, EndIs
  <2>5. sequence' \in Nat
    BY <2>2 DEF Inv, TypeOK
  <2>6. outcome' # None /\ outcome' \in Referee!Outcome /\ outcome'.winner = w
    BY <2>2, <2>3, NoneIsNothing DEF Referee!Outcome, Territory, Referee!Territory
  <2>7. w = IF outcome' = None THEN None ELSE outcome'.winner
    BY <2>6
  <2>8. TypeOK' /\ LedgersOK' /\ ChecksOK' /\ DurableOK' /\ AgentsOK' /\ ChannelOK' /\ DrainOK'
    <3>1. UNCHANGED <<current, checks, agentVars, seen, drain, clock>>
      BY <1>1 DEF runnerVars
    <3>2. outcome' \in Referee!Outcome \cup {None}
      BY <2>6
    <3> QED BY <1>2, <2>2, <2>4, <2>5, <2>7, <3>1, <3>2, EndInvs
  <2>9. PhaseOK'
    <3>1. clock \in Nat
      BY DEF Inv, TypeOK
    <3> QED BY <1>1, <2>2, <2>6, <3>1 DEF PhaseOK, Waiting, LoopPhases, DrainPhases
  <2> QED BY <2>8, <2>9 DEF Inv
<1>3. CASE pc = "over"
  <2>1. matchState = "aborted"
    BY <1>3 DEF Inv, PhaseOK
  <2>2. /\ UNCHANGED <<matchState, competitors, sequence, lastTime, outcome>>
        /\ emitted' = <<>> /\ reply' # "ok"
        /\ world' = World!Reduce(world, emitted', sequence', lastTime') /\ pc' = "failed"
    BY <1>1, <2>1 DEF Call, Referee!Finish, Referee!Refused, Referee!Accepts
  <2>3. world' = world
    BY <2>2 DEF World!Reduce
  <2>4. UNCHANGED <<current, checks, worker, channel, seen, frozen, drain, clock>>
    BY <1>1 DEF runnerVars, agentVars
  <2>5. TypeOK'
    BY <2>2, <2>4 DEF Inv, TypeOK, Phases
  <2>6. LedgersOK'
    BY <1>3, <2>2, <2>3 DEF Inv, LedgersOK
  <2>7. PhaseOK'
    BY <2>1, <2>2, <2>4 DEF Inv, PhaseOK, Waiting, LoopPhases, DrainPhases
  <2>8. ChecksOK' /\ DurableOK' /\ DrainOK'
    BY <1>3, <2>2, <2>4 DEF Inv, ChecksOK, DurableOK, DrainOK, Checking
  <2>9. AgentsOK' /\ ChannelOK'
    BY <1>3, <2>2, <2>3, <2>4, AgentsKept DEF Inv, Waiting
  <2> QED BY <2>5, <2>6, <2>7, <2>8, <2>9 DEF Inv
<1> QED BY <1>1, <1>2, <1>3

(* The calls that judge a competitor.                                      *)
LEMMA LedgerOf ==
  ASSUME Inv, pc # "boot", NEW t \in Territory
  PROVE  Agrees(World!TerritoryOf(world, t), competitors[t].state, competitors[t].passed,
                competitors[t].points, competitors[t].durableAt)
BY DEF Inv, LedgersOK, World!TerritoryOf, World!Entry

LEMMA LedgersJudged ==
  ASSUME Inv, pc # "boot", pc' # "boot", NEW t \in Territory, NEW z,
         NEW state, NEW passed, NEW points, NEW durableAt, NEW to, NEW winner,
         Credited(z, world, t, state, passed, points, durableAt, to, winner),
         Stamped(world', z, lastTime'),
         competitors'[t].state = state, competitors'[t].passed = passed,
         competitors'[t].points = points, competitors'[t].durableAt = durableAt,
         \A u \in Territory \ {t} : competitors'[u] = competitors[u],
         IF to = "finished" THEN matchState' = "finished" /\ outcome' # None /\ outcome'.winner = winner
                 ELSE UNCHANGED <<matchState, outcome>>
  PROVE  LedgersOK' /\ world'.agents = world.agents
<1>1. PICK v : /\ Judged(v, world, t, state, passed, points, durableAt)
               /\ IF to = "finished" THEN MatchSet(z, v, "finished", winner) ELSE z = v
  BY DEF Credited
<1>2. PICK x : TerritorySet(v, world, t, x) /\ Agrees(x, state, passed, points, durableAt)
  BY <1>1 DEF Judged
<1>3. /\ z.territories = v.territories /\ z.agents = v.agents
      /\ IF to = "finished" THEN z.match = "finished" /\ z.winner = winner
                 ELSE z.match = v.match /\ z.winner = v.winner
  BY <1>1 DEF MatchSet
<1>4. /\ IsWorld(world') /\ world'.agents = world.agents /\ world'.elapsed = lastTime'
      /\ DOMAIN world'.territories = DOMAIN world.territories \cup {t}
      /\ world'.territories[t] = x
      /\ \A u \in DOMAIN world.territories \ {t} : world'.territories[u] = world.territories[u]
      /\ IF to = "finished" THEN world'.match = "finished" /\ world'.winner = winner
                 ELSE world'.match = world.match /\ world'.winner = world.winner
  BY <1>2, <1>3 DEF Stamped, TerritorySet
<1>5. /\ DOMAIN world.territories = Territory
      /\ world.match = matchState
      /\ world.winner = IF outcome = None THEN None ELSE outcome.winner
      /\ \A u \in Territory :
           Agrees(world.territories[u], competitors[u].state, competitors[u].passed,
                  competitors[u].points, competitors[u].durableAt)
  BY DEF Inv, LedgersOK
<1>6. /\ world'.match = matchState'
      /\ world'.winner = IF outcome' = None THEN None ELSE outcome'.winner
  BY <1>4, <1>5
<1>7. ASSUME NEW u \in Territory
      PROVE  Agrees(world'.territories[u], competitors'[u].state, competitors'[u].passed,
                    competitors'[u].points, competitors'[u].durableAt)
  BY <1>2, <1>4, <1>5
<1>8. DOMAIN world'.territories = Territory
  BY <1>4, <1>5
<1> QED BY <1>4, <1>6, <1>7, <1>8 DEF LedgersOK

LEMMA AgentsJudged ==
  ASSUME Inv, world'.agents = world.agents, UNCHANGED <<seen, drain, agentVars>>,
         pc \in {"begin", "verify"}, pc' \in {"begin", "verify"}
  PROVE  AgentsOK' /\ ChannelOK' /\ DrainOK'
<1>1. AgentsOK' /\ ChannelOK'
  BY AgentsKept DEF Inv, Waiting, agentVars
<1> QED BY <1>1 DEF DrainOK

(* A verifier reports: passed, then failed.                                *)
LEMMA PassInv ==
  ASSUME Inv, pc = "verify", outcome = None, NEW t \in checks, t \in Territory,
         NEW m, m = Contract[current],
         Call(Referee!PassMilestone(t, m, Points[m], clock), "verify"),
         checks' = checks \ {t}, UNCHANGED <<clock, current, seen, frozen, drain, agentVars>>
  PROVE  Inv'
<1> DEFINE c == competitors[t]
           after == Referee!Credit(c, m, Points[m], clock)
           standings == [competitors EXCEPT ![t] = after]
           winner == Referee!Winner(standings)
           s == VerdictEvents(t, m, Points[m], clock, winner)
           to == IF Ends(m) THEN "finished" ELSE "running"
<1>1. Referee!Accepts(clock) /\ matchState = "running"
  BY LoopIsRunning DEF LoopPhases
<1>2. m \notin c.passed /\ m \in Milestone /\ t \in Referee!Territory
      /\ current \in 1..Len(Contract)
  BY ContractIs DEF Inv, ChecksOK, Checking, Territory, Referee!Territory
<1>3. /\ competitors' = standings
      /\ matchState' = (IF Ends(m) THEN "finished" ELSE matchState)
      /\ outcome' = (IF Ends(m) THEN [winner |-> winner] ELSE outcome)
      /\ emitted' = s /\ sequence' = sequence + Len(s) /\ lastTime' = clock /\ reply' = "ok"
      /\ world' = World!Reduce(world, emitted', sequence', lastTime') /\ pc' = "verify"
  BY <1>1, <1>2 DEF Call, Referee!PassMilestone, Referee!Refused, Referee!UnknownTerritory,
                    Referee!Emit, VerdictEvents, Completes, Ends
<1>4. IsWorld(world)
  BY DEF Inv, LedgersOK
<1>5. Agrees(World!TerritoryOf(world, t), c.state, c.passed, c.points, c.durableAt)
  BY LedgerOf
<1>6. /\ c \in Referee!CompetitorRecord /\ clock \in Nat /\ sequence \in Nat
      /\ competitors \in [Territory -> Referee!CompetitorRecord]
  BY DEF Inv, TypeOK
<1>7. Points[m] \in 0..MaxPoints /\ MaxPoints \in Nat
  BY <1>2, MatchConstants, ContractIs
<1>8. /\ after.state = (IF Completes(m) THEN "durable" ELSE c.state)
      /\ after.passed = c.passed \cup {m}
      /\ after.points = World!AddPoints(c.points, Points[m])
      /\ after.durableAt = (IF Completes(m) THEN clock ELSE c.durableAt)
      /\ after \in Referee!CompetitorRecord
  BY <1>2, <1>6, <1>7 DEF Completes, Referee!Credit, Referee!SaturatingAdd, World!AddPoints,
                          Referee!CompetitorRecord
<1> HIDE DEF after
<1>9. /\ standings[t] = after /\ standings \in [Territory -> Referee!CompetitorRecord]
      /\ \A u \in Territory \ {t} : standings[u] = competitors[u]
  BY <1>6, <1>8
<1> HIDE DEF standings
<1>10. winner \in Territory \cup {None}
  BY WinnerIs
<1> HIDE DEF winner
<1>11. to = IF Ends(m) THEN "finished" ELSE "running"
  OBVIOUS
<1>12. /\ s # <<>>
       /\ Credited(World!ApplyAll(world, s), world, t, IF Completes(m) THEN "durable" ELSE c.state,
                   c.passed \cup {m}, World!AddPoints(c.points, Points[m]),
                   IF Completes(m) THEN clock ELSE c.durableAt, to, winner)
  <2> DEFINE pay == Points[m]
             state == c.state
             passed == c.passed
             points == c.points
             durableAt == c.durableAt
             state2 == IF Completes(m) THEN "durable" ELSE state
             durable2 == IF Completes(m) THEN clock ELSE durableAt
  <2>1. Agrees(World!TerritoryOf(world, t), state, passed, points, durableAt) /\ m \notin passed
    BY <1>2, <1>5
  <2>2. s = VerdictEvents(t, m, pay, clock, winner)
    OBVIOUS
  <2>3. /\ state2 = IF Completes(m) THEN "durable" ELSE state
        /\ durable2 = IF Completes(m) THEN clock ELSE durableAt
    OBVIOUS
  <2> HIDE DEF c, s, to, pay, state, passed, points, durableAt, state2, durable2
  <2>4. /\ s # <<>>
        /\ Credited(World!ApplyAll(world, s), world, t, state2, passed \cup {m},
                    World!AddPoints(points, pay), durable2, to, winner)
    BY <1>4, <1>11, <2>1, <2>2, <2>3, PassEvents
  <2> QED BY <2>4 DEF c, pay, state, passed, points, durableAt, state2, durable2
<1> DEFINE z == World!ApplyAll(world, s)
           state == after.state
           passed == after.passed
           points == after.points
           durableAt == after.durableAt
<1>13. Credited(z, world, t, state, passed, points, durableAt, to, winner)
  BY <1>8, <1>12
<1>14. Len(s) \in Nat
  <2> DEFINE p == Referee!MilestonePassed(t, m, Points[m])
             d == Referee!CompetitorStateChanged(t, "verifying", "durable")
             e == Referee!DurableCompleted(t, clock)
             f == Referee!MatchStateChanged("running", "finished")
             g == Referee!MatchFinished(winner)
             S == {p, d, e, f, g}
             durable == IF Completes(m) THEN <<d, e>> ELSE <<>>
             finish == IF Ends(m) THEN <<f, g>> ELSE <<>>
  <2>1. s = <<p>> \o durable \o finish
    BY DEF VerdictEvents, Referee!FinishEvents
  <2>2. \A x, y \in S : <<x, y>> \in Seq(S) /\ <<x>> \in Seq(S)
    OBVIOUS
  <2>3. <<>> \in Seq(S)
    OBVIOUS
  <2>4. p \in S /\ d \in S /\ e \in S /\ f \in S /\ g \in S
    OBVIOUS
  <2> HIDE DEF S, p, d, e, f, g, s
  <2>5. <<p>> \in Seq(S) /\ durable \in Seq(S) /\ finish \in Seq(S)
    BY <2>2, <2>3, <2>4
  <2> HIDE DEF durable, finish
  <2>6. s \in Seq(S)
    BY <2>1, <2>5
  <2> QED BY <2>6
<1> HIDE DEF s
<1>15. IsWorld(z)
  BY <1>13 DEF Credited, Judged, TerritorySet, MatchSet
<1>16. Stamped(world', z, lastTime')
  <2> DEFINE next == sequence'
             time == lastTime'
             end == World!Reduce(world, s, next, time)
  <2>1. world' = end
    BY <1>3
  <2> HIDE DEF next, time, end
  <2>2. Stamped(end, z, time)
    BY <1>12, <1>15, ReduceIs DEF end
  <2> QED BY <2>1, <2>2 DEF time
<1> HIDE DEF z
<1>17. IF to = "finished" THEN matchState' = "finished" /\ outcome' # None /\ outcome'.winner = winner
               ELSE UNCHANGED <<matchState, outcome>>
  BY <1>3, <1>10, NoneIsNothing
<1>18. LedgersOK' /\ world'.agents = world.agents
  <2>1. /\ competitors'[t].state = state /\ competitors'[t].passed = passed
        /\ competitors'[t].points = points /\ competitors'[t].durableAt = durableAt
        /\ \A u \in Territory \ {t} : competitors'[u] = competitors[u]
    BY <1>3, <1>9
  <2>2. pc # "boot" /\ pc' # "boot"
    BY <1>3
  <2> HIDE DEF state, passed, points, durableAt, to
  <2> QED BY <1>11, <1>13, <1>16, <1>17, <2>1, <2>2, LedgersJudged
<1>19. AgentsOK' /\ ChannelOK' /\ DrainOK'
  BY <1>3, <1>18, AgentsJudged
<1>20. TypeOK'
  <2>1. outcome' \in Referee!Outcome \cup {None}
    BY <1>3, <1>10 DEF Referee!Outcome, Territory, Referee!Territory
  <2>2. matchState' \in Referee!MatchStates /\ pc' \in Phases
    BY <1>1, <1>3 DEF Referee!MatchStates, Phases, LoopPhases
  <2>3. sequence' \in Nat /\ lastTime' \in Nat
    BY <1>3, <1>6, <1>14
  <2> QED BY <1>3, <1>9, <2>1, <2>2, <2>3 DEF Inv, TypeOK, agentVars
<1>21. PhaseOK'
  BY <1>1, <1>3, <1>6, <1>17 DEF PhaseOK, LoopPhases, DrainPhases, Waiting
<1>22. ChecksOK'
  BY <1>2, <1>3, <1>9 DEF Inv, TypeOK, ChecksOK, Checking
<1>23. DurableOK'
  <2> SUFFICES ASSUME StopOnFirstDurable, matchState' \in {"preparing", "running"},
                      NEW u \in Territory
               PROVE  competitors'[u].durableAt = None
    BY DEF DurableOK
  <2>1. ~Completes(m)
    BY <1>3 DEF Completes, Ends
  <2>2. competitors[u].durableAt = None
    BY <1>1 DEF Inv, DurableOK
  <2> QED BY <1>3, <1>8, <1>9, <2>1, <2>2
<1> QED BY <1>18, <1>19, <1>20, <1>21, <1>22, <1>23 DEF Inv

LEMMA FailInv ==
  ASSUME Inv, pc = "verify", outcome = None, NEW t \in checks, t \in Territory, NEW m,
         Call(Referee!FailMilestone(t, m, clock), "verify"),
         checks' = checks \ {t}, UNCHANGED <<clock, current, seen, frozen, drain, agentVars>>
  PROVE  Inv'
<1> DEFINE e == Referee!MilestoneFailed(t, m)
           z == World!ApplyAll(world, <<e>>)
           state == competitors[t].state
           passed == competitors[t].passed
           points == competitors[t].points
           durableAt == competitors[t].durableAt
<1>1. Referee!Accepts(clock) /\ matchState = "running" /\ t \in Referee!Territory
  BY LoopIsRunning DEF LoopPhases, Territory, Referee!Territory
<1>2. /\ UNCHANGED <<matchState, competitors, outcome>>
      /\ emitted' = <<e>> /\ sequence' = sequence + Len(<<e>>)
      /\ lastTime' = clock /\ reply' = "ok"
      /\ world' = World!Reduce(world, emitted', sequence', lastTime') /\ pc' = "verify"
  BY <1>1 DEF Call, Referee!FailMilestone, Referee!Refused, Referee!UnknownTerritory,
              Referee!Emit
<1>3. IsWorld(world) /\ Agrees(World!TerritoryOf(world, t), state, passed, points, durableAt)
  BY LedgerOf DEF Inv, LedgersOK
<1> HIDE DEF state, passed, points, durableAt
<1>4. Judged(z, world, t, state, passed, points, durableAt)
  BY <1>3, FailStep, FoldOne
<1>5. <<e>> # <<>> /\ Len(<<e>>) = 1
  OBVIOUS
<1>6. IsWorld(z) /\ Stamped(world', z, lastTime')
  <2> DEFINE next == sequence'
             time == lastTime'
             s == <<e>>
             end == World!Reduce(world, s, next, time)
  <2>1. world' = end /\ s # <<>> /\ z = World!ApplyAll(world, s)
    BY <1>2
  <2>2. IsWorld(z)
    BY <1>4 DEF Judged, TerritorySet
  <2> HIDE DEF next, time, end, s, z
  <2>3. Stamped(end, z, time)
    BY <2>1, <2>2, ReduceIs DEF end
  <2> QED BY <2>1, <2>2, <2>3 DEF time
<1> HIDE DEF z, e
<1>7. LedgersOK' /\ world'.agents = world.agents
  <2> DEFINE to == "running"
  <2>1. to # "finished"
    OBVIOUS
  <2>2. /\ competitors'[t].state = state /\ competitors'[t].passed = passed
        /\ competitors'[t].points = points /\ competitors'[t].durableAt = durableAt
        /\ \A u \in Territory \ {t} : competitors'[u] = competitors[u]
        /\ pc # "boot" /\ pc' # "boot"
    BY <1>2 DEF state, passed, points, durableAt
  <2> HIDE DEF to
  <2>3. Credited(z, world, t, state, passed, points, durableAt, to, None)
    BY <1>4, <2>1 DEF Credited
  <2> QED BY <1>2, <1>6, <2>1, <2>2, <2>3, LedgersJudged
<1>8. AgentsOK' /\ ChannelOK' /\ DrainOK'
  BY <1>2, <1>7, AgentsJudged
<1>9. clock \in Nat /\ sequence \in Nat
  BY DEF Inv, TypeOK
<1>10. TypeOK'
  BY <1>2, <1>5, <1>9 DEF Inv, TypeOK, agentVars, Phases, LoopPhases
<1>11. PhaseOK'
  BY <1>1, <1>2, <1>9 DEF Inv, PhaseOK, LoopPhases, DrainPhases, Waiting
<1>12. ChecksOK' /\ DurableOK'
  BY <1>2 DEF Inv, ChecksOK, DurableOK, Checking
<1> QED BY <1>7, <1>8, <1>10, <1>11, <1>12 DEF Inv

LEMMA VerdictInv ==
  ASSUME NEW t \in Territory
  PROVE  Inv /\ Verdict(t) => Inv'
BY PassInv, FailInv DEF Verdict

LEMMA MinIs ==
  ASSUME NEW S \in SUBSET Nat, S # {}
  PROVE  Min(S) \in S /\ \A x \in S : Min(S) <= x
BY Least DEF Min

(* Who is eligible has not passed the milestone, but what it depends on.   *)
LEMMA EligibleIs ==
  ASSUME Inv, pc # "boot", NEW t \in Territory, NEW m, Eligible(t, m)
  PROVE  m \notin competitors[t].passed /\ DependsOn[m] \subseteq competitors[t].passed
<1>1. {u \in DOMAIN Milestones(t) : Milestones(t)[u].passed} = competitors[t].passed
  BY DEF Inv, LedgersOK, Agrees, Milestones
<1> QED BY <1>1 DEF Eligible

(* A check begins.                                                         *)
LEMMA BeginInv == Inv /\ Begin => Inv'
<1> SUFFICES ASSUME Inv, Begin PROVE Inv'
  OBVIOUS
<1> DEFINE m == Contract[current]
           eligible == {t \in Territory : Eligible(t, m)}
<1>1. /\ pc = "begin" /\ UNCHANGED <<clock, current, seen, frozen, drain, agentVars>>
      /\ IF eligible = {} THEN NoCall("verify") /\ UNCHANGED checks
         ELSE /\ Call(Referee!BeginMilestone(Min(eligible), m, clock), "begin")
              /\ checks' = checks \cup {Min(eligible)}
  BY DEF Begin
<1>2. /\ outcome = None /\ clock \in Nat /\ current \in Nat /\ current >= 1
      /\ checks \subseteq Territory /\ sequence \in Nat
      /\ competitors \in [Territory -> Referee!CompetitorRecord]
  BY <1>1 DEF Inv, PhaseOK, TypeOK
<1>3. CASE eligible = {}
  <2>1. /\ pc' = "verify" /\ NoCall("verify") /\ UNCHANGED checks
        /\ UNCHANGED <<matchState, competitors, lastTime, outcome, reply, frozen>>
    BY <1>1, <1>3 DEF NoCall, refereeVars
  <2>2. PhaseOK'
    BY <1>1, <2>1 DEF Inv, PhaseOK, LoopPhases, Waiting, DrainPhases
  <2>3. ChecksOK'
    BY <1>1, <2>1 DEF Inv, ChecksOK, Checking
  <2> QED BY <1>1, <1>2, <2>1, <2>2, <2>3, NoCallInv DEF LoopPhases, Waiting
<1>4. CASE eligible # {}
  <2> DEFINE t == Min(eligible)
  <2>1. t \in Territory /\ Eligible(t, m)
    <3>1. eligible \in SUBSET Nat
      BY IdsAre
    <3>2. t \in eligible
      <4> HIDE DEF eligible
      <4> QED BY <1>4, <3>1, MinIs
    <3> QED BY <3>2
  <2> HIDE DEF eligible, t
  <2>2. m \notin competitors[t].passed /\ DependsOn[m] \subseteq competitors[t].passed
    <3> HIDE DEF m
    <3> QED BY <1>1, <2>1, EligibleIs
  <2>3. Referee!Accepts(clock) /\ matchState = "running" /\ t \in Referee!Territory
    BY <1>1, <1>2, <2>1, LoopIsRunning DEF LoopPhases, Territory, Referee!Territory
  <2> DEFINE state == competitors[t].state
             passed == competitors[t].passed
             points == competitors[t].points
             durableAt == competitors[t].durableAt
             now == IF state = "building" THEN "verifying" ELSE state
             s == (IF state = "building"
                     THEN <<Referee!CompetitorStateChanged(t, "building", "verifying")>>
                     ELSE <<>>) \o <<Referee!EvaluationStarted(t, m)>>
             z == World!ApplyAll(world, s)
  <2>4. /\ competitors' = IF state = "building"
                          THEN [competitors EXCEPT ![t].state = "verifying"] ELSE competitors
        /\ UNCHANGED <<matchState, outcome>> /\ checks' = checks \cup {t}
        /\ emitted' = s /\ sequence' = sequence + Len(s) /\ lastTime' = clock /\ reply' = "ok"
        /\ world' = World!Reduce(world, emitted', sequence', lastTime') /\ pc' = "begin"
    BY <1>1, <1>4, <2>3 DEF Call, Referee!BeginMilestone, Referee!Refused,
                            Referee!UnknownTerritory, Referee!Emit, t
  <2>5. /\ competitors'[t].state = now /\ competitors'[t].passed = passed
        /\ competitors'[t].points = points /\ competitors'[t].durableAt = durableAt
        /\ \A u \in Territory \ {t} : competitors'[u] = competitors[u]
        /\ competitors' \in [Territory -> Referee!CompetitorRecord]
    BY <1>2, <2>1, <2>4 DEF Referee!CompetitorRecord
  <2>6. IsWorld(world) /\ Agrees(World!TerritoryOf(world, t), state, passed, points, durableAt)
    BY <1>1, <2>1, LedgerOf DEF Inv, LedgersOK
  <2>7. Len(s) \in Nat
    <3> DEFINE c == Referee!CompetitorStateChanged(t, "building", "verifying")
               e == Referee!EvaluationStarted(t, m)
               S == {c, e}
               head == IF state = "building" THEN <<c>> ELSE <<>>
    <3>1. \A x \in S : <<x>> \in Seq(S)
      OBVIOUS
    <3>2. <<>> \in Seq(S) /\ c \in S /\ e \in S
      OBVIOUS
    <3>3. s = head \o <<e>>
      OBVIOUS
    <3> HIDE DEF S, c, e, s, state
    <3>4. head \in Seq(S) /\ <<e>> \in Seq(S)
      BY <3>1, <3>2
    <3> HIDE DEF head
    <3>5. s \in Seq(S)
      BY <3>3, <3>4
    <3> QED BY <3>5
  <2>8. /\ s # <<>> /\ Judged(z, world, t, now, passed, points, durableAt)
    <3> DEFINE d == s
    <3>1. d = (IF state = "building"
                 THEN <<Referee!CompetitorStateChanged(t, "building", "verifying")>>
                 ELSE <<>>) \o <<Referee!EvaluationStarted(t, m)>>
      OBVIOUS
    <3> HIDE DEF d, state, passed, points, durableAt, m
    <3>2. d # <<>> /\ Judged(World!ApplyAll(world, d), world, t,
                        IF state = "building" THEN "verifying" ELSE state,
                        passed, points, durableAt)
      BY <2>6, <3>1, BeginEvents
    <3> QED BY <3>2 DEF d
  <2> HIDE DEF s, state, passed, points, durableAt, now
  <2>9. IsWorld(z) /\ Stamped(world', z, lastTime')
    <3> DEFINE next == sequence'
               time == lastTime'
               end == World!Reduce(world, s, next, time)
    <3>1. world' = end
      BY <2>4
    <3>2. IsWorld(z)
      <4> HIDE DEF z
      <4> QED BY <2>8 DEF Judged, TerritorySet
    <3> HIDE DEF next, time, end
    <3>3. Stamped(end, z, time)
      BY <2>8, <3>2, ReduceIs DEF end
    <3> QED BY <3>1, <3>2, <3>3 DEF time
  <2> HIDE DEF z
  <2>10. LedgersOK' /\ world'.agents = world.agents
    <3> DEFINE to == "running"
    <3>1. to # "finished"
      OBVIOUS
    <3>2. pc # "boot" /\ pc' # "boot"
      BY <1>1, <2>4
    <3>4. IF to = "finished" THEN matchState' = "finished" /\ outcome' # None /\ outcome'.winner = None
                             ELSE UNCHANGED <<matchState, outcome>>
      BY <2>4
    <3> HIDE DEF to, m
    <3>3. Credited(z, world, t, now, passed, points, durableAt, to, None)
      BY <2>8, <3>1 DEF Credited
    <3> QED BY <2>1, <2>5, <2>9, <3>2, <3>3, <3>4, LedgersJudged
  <2>11. AgentsOK' /\ ChannelOK' /\ DrainOK'
    BY <1>1, <2>4, <2>10, AgentsJudged
  <2>12. TypeOK'
    BY <1>1, <1>2, <2>1, <2>4, <2>5, <2>7 DEF Inv, TypeOK, agentVars, Phases, LoopPhases
  <2>13. PhaseOK'
    BY <1>1, <1>2, <2>3, <2>4 DEF PhaseOK, LoopPhases, DrainPhases, Waiting
  <2>14. \A u \in Territory : /\ competitors'[u].passed = competitors[u].passed
                              /\ competitors'[u].durableAt = competitors[u].durableAt
    BY <2>5 DEF passed, durableAt
  <2>15. ChecksOK'
    BY <1>1, <1>2, <2>1, <2>2, <2>4, <2>14 DEF Inv, ChecksOK, Checking
  <2>16. DurableOK'
    BY <2>4, <2>14 DEF Inv, DurableOK
  <2> QED BY <2>10, <2>11, <2>12, <2>13, <2>15, <2>16 DEF Inv
<1> QED BY <1>3, <1>4

(* The competitors enter the world one by one.                             *)
Entered(v, w, n) ==
  /\ IsWorld(v) /\ v.match = w.match /\ v.winner = w.winner /\ v.agents = w.agents
  /\ DOMAIN v.territories = {Ids[i] : i \in 1..n}
  /\ \A i \in 1..n : Agrees(v.territories[Ids[i]], "building", {}, 0, None)

LEMMA CompetitorsEnter ==
  ASSUME NEW w, IsWorld(w), DOMAIN w.territories = {}, NEW s, Len(s) = Len(Ids),
         \A i \in 1..Len(Ids) :
           s[i] = Referee!CompetitorStateChanged(Ids[i], "preparing", "building")
  PROVE  Entered(World!ApplyAll(w, s), w, Len(Ids))
<1>1. Len(s) \in Nat
  BY IdsAre
<1>2. PICK f : Steps(f, w, s) /\ World!ApplyAll(w, s) = f[Len(s)]
  BY <1>1, ApplyAllSteps
<1>3. f[0] = w /\ \A i \in 1..Len(s) : f[i] = World!Apply(f[i - 1], s[i])
  BY <1>1, <1>2, StepsAre
<1> DEFINE S == {n \in Nat : n <= Len(Ids) => Entered(f[n], w, n)}
<1>4. 0 \in S
  <2>1. {Ids[i] : i \in 1..0} = {}
    OBVIOUS
  <2> QED BY <1>3, <2>1 DEF Entered
<1>5. ASSUME NEW n \in Nat, n \in S PROVE n + 1 \in S
  <2> SUFFICES ASSUME n + 1 <= Len(Ids) PROVE Entered(f[n + 1], w, n + 1)
    OBVIOUS
  <2> DEFINE k == n + 1
             t == Ids[k]
             v == f[n]
             z == f[k]
  <2>1. /\ k \in 1..Len(Ids) /\ k - 1 = n
        /\ \A i \in 1..k : i = k \/ i \in 1..n
        /\ \A i \in 1..n : i \in 1..k /\ i \in 1..Len(Ids) /\ i # k
    BY IdsAre
  <2>2. z = World!Apply(v, Referee!CompetitorStateChanged(t, "preparing", "building"))
    BY <1>3, <2>1
  <2>3. Entered(v, w, n)
    BY <1>5, IdsAre
  <2> HIDE DEF k, v, z
  <2>4. \A i \in 1..n : Ids[i] # t
    BY <2>1, IdsAre
  <2>5. t \notin DOMAIN v.territories /\ IsWorld(v)
    BY <2>3, <2>4 DEF Entered
  <2>6. Agrees(World!TerritoryOf(v, t), None, {}, 0, None)
    <3>1. World!TerritoryOf(v, t) = World!DefaultTerritory
      BY <2>5 DEF World!TerritoryOf, World!Entry
    <3> QED BY <3>1, DefaultAgrees
  <2> HIDE DEF t
  <2>7. Judged(z, v, t, "building", {}, 0, None)
    BY <2>2, <2>5, <2>6, CompetitorStep
  <2>8. PICK x : TerritorySet(z, v, t, x) /\ Agrees(x, "building", {}, 0, None)
    BY <2>7 DEF Judged
  <2>9. DOMAIN z.territories = {Ids[i] : i \in 1..k}
    <3>1. DOMAIN z.territories = {Ids[i] : i \in 1..n} \cup {t}
      BY <2>3, <2>8 DEF TerritorySet, Entered
    <3>2. {Ids[i] : i \in 1..k} = {Ids[i] : i \in 1..n} \cup {t}
      <4>1. k \in 1..k
        BY DEF k
      <4> QED BY <2>1, <4>1 DEF t
    <3> QED BY <3>1, <3>2
  <2>10. ASSUME NEW i \in 1..k
         PROVE  Agrees(z.territories[Ids[i]], "building", {}, 0, None)
    <3>1. CASE i = k
      BY <2>8, <3>1 DEF TerritorySet, t
    <3>2. CASE i \in 1..n
      <4>1. Ids[i] \in DOMAIN v.territories \ {t}
        BY <2>3, <2>4, <3>2 DEF Entered
      <4> QED BY <2>3, <2>8, <3>2, <4>1 DEF TerritorySet, Entered
    <3> QED BY <2>1, <3>1, <3>2
  <2>11. IsWorld(z) /\ z.match = w.match /\ z.winner = w.winner /\ z.agents = w.agents
    BY <2>3, <2>8 DEF TerritorySet, Entered
  <2>12. Entered(z, w, k)
    BY <2>9, <2>10, <2>11 DEF Entered
  <2> QED BY <2>12 DEF z, k
<1> HIDE DEF S
<1>6. \A n \in Nat : n \in S
  BY <1>4, <1>5, SetInduction
<1> QED BY <1>1, <1>2, <1>6 DEF S

(* The referee starts the match, and the world has its territories.        *)
LEMMA BootInv == Inv /\ Boot => Inv'
<1> SUFFICES ASSUME Inv, Boot PROVE Inv'
  OBVIOUS
<1> DEFINE e == Referee!MatchStateChanged("preparing", "running")
           list == [i \in 1..Len(Ids) |->
                      Referee!CompetitorStateChanged(Ids[i], "preparing", "building")]
           s == <<e>> \o list
           S == {e} \cup {list[i] : i \in 1..Len(Ids)}
           u == World!Apply(world, e)
           v == World!ApplyAll(u, list)
<1>1. /\ pc = "boot" /\ UNCHANGED <<clock, current, checks, seen, frozen, drain, agentVars>>
      /\ Call(Referee!Start, "register")
  BY DEF Boot, runnerVars
<1>2. /\ matchState = "preparing" /\ lastTime = 0 /\ outcome = None
      /\ \A t \in Territory : competitors[t] =
           [state |-> "preparing", passed |-> {}, points |-> 0, durableAt |-> None]
  BY <1>1 DEF Inv, PhaseOK, Waiting
<1>3. /\ matchState' = "running" /\ UNCHANGED outcome
      /\ competitors' = [t \in Territory |-> [competitors[t] EXCEPT !.state = "building"]]
      /\ emitted' = s /\ sequence' = sequence + Len(s) /\ lastTime' = lastTime /\ reply' = "ok"
      /\ world' = World!Reduce(world, emitted', sequence', lastTime') /\ pc' = "register"
  BY <1>1, <1>2 DEF Call, Referee!Start, Referee!Emit, Territory, Referee!Territory
<1>4. /\ IsWorld(world) /\ DOMAIN world.territories = {} /\ world.winner = None
  BY <1>1, <1>2 DEF Inv, LedgersOK
<1>5. list \in Seq(S) /\ <<e>> \in Seq(S) /\ <<e>> # <<>> /\ Len(list) = Len(Ids)
      /\ \A i \in 1..Len(Ids) :
           list[i] = Referee!CompetitorStateChanged(Ids[i], "preparing", "building")
  <2>1. Len(Ids) \in Nat
    BY IdsAre
  <2>2. e \in S /\ \A i \in 1..Len(Ids) : list[i] \in S
    OBVIOUS
  <2>3. list = [i \in 1..Len(Ids) |-> list[i]]
    OBVIOUS
  <2>4. \A i \in 1..Len(Ids) :
           list[i] = Referee!CompetitorStateChanged(Ids[i], "preparing", "building")
    OBVIOUS
  <2> HIDE DEF list, S, e
  <2>5. list \in Seq(S) /\ Len(list) = Len(Ids)
    BY <2>1, <2>2, <2>3
  <2>6. <<e>> \in Seq(S) /\ <<e>> # <<>>
    BY <2>2
  <2> QED BY <2>4, <2>5, <2>6
<1>6. MatchSet(u, world, "running", None)
  <2>1. MatchSet(u, world, "running", world.winner)
    BY <1>4, MatchSteps
  <2> QED BY <1>4, <2>1
<1> HIDE DEF list, u, S
<1>7. Entered(v, u, Len(Ids))
  <2>1. IsWorld(u) /\ DOMAIN u.territories = {}
    BY <1>4, <1>6 DEF MatchSet
  <2> HIDE DEF e
  <2> QED BY <1>5, <2>1, CompetitorsEnter
<1> DEFINE one == <<e>>
<1>8. World!ApplyAll(world, s) = v /\ s # <<>> /\ Len(s) \in Nat
  <2>1. World!ApplyAll(world, one) = u
    BY FoldOne DEF u
  <2>2. s = one \o list /\ one \in Seq(S) /\ one # <<>>
    BY <1>5
  <2> HIDE DEF one, s, e
  <2>3. World!ApplyAll(world, one \o list) = World!ApplyAll(World!ApplyAll(world, one), list)
    BY <1>5, <2>2, FoldConcat
  <2>4. one \o list \in Seq(S) /\ one \o list # <<>>
    BY <1>5, <2>2, NotEmpty
  <2> QED BY <2>1, <2>2, <2>3, <2>4
<1> HIDE DEF s, e, v
<1>9. IsWorld(v) /\ Stamped(world', v, lastTime')
  <2> DEFINE next == sequence'
             time == lastTime'
             end == World!Reduce(world, s, next, time)
  <2>1. world' = end /\ IsWorld(v)
    BY <1>3, <1>7 DEF Entered
  <2> HIDE DEF next, time, end
  <2>2. Stamped(end, v, time)
    BY <1>8, <2>1, ReduceIs DEF end
  <2> QED BY <2>1, <2>2 DEF time
<1>10. /\ DOMAIN world'.territories = Territory /\ world'.agents = world.agents
       /\ IsWorld(world') /\ world'.match = "running" /\ world'.winner = None
       /\ world'.elapsed = lastTime'
       /\ \A t \in Territory : Agrees(world'.territories[t], "building", {}, 0, None)
  BY <1>6, <1>7, <1>9 DEF Stamped, Entered, MatchSet, Territory
<1>11. /\ \A t \in Territory : competitors'[t] =
            [state |-> "building", passed |-> {}, points |-> 0, durableAt |-> None]
       /\ DOMAIN competitors' = Territory
       /\ competitors' = [t \in Territory |-> competitors'[t]]
  <2> DEFINE old == [state |-> "preparing", passed |-> {}, points |-> 0, durableAt |-> None]
             new == [state |-> "building", passed |-> {}, points |-> 0, durableAt |-> None]
  <2>1. [old EXCEPT !.state = "building"] = new
    OBVIOUS
  <2>2. \A t \in Territory : competitors[t] = old
    BY <1>2
  <2> HIDE DEF old, new
  <2>3. competitors' = [t \in Territory |-> [competitors[t] EXCEPT !.state = "building"]]
    BY <1>3
  <2>4. \A t \in Territory : competitors'[t] = new
    BY <2>1, <2>2, <2>3
  <2> QED BY <2>3, <2>4 DEF new
<1>12. LedgersOK'
  <2>1. \A t \in Territory :
          /\ competitors'[t].state = "building" /\ competitors'[t].passed = {}
          /\ competitors'[t].points = 0 /\ competitors'[t].durableAt = None
    BY <1>11
  <2>2. \A t \in Territory :
          Agrees(world'.territories[t], competitors'[t].state, competitors'[t].passed,
                 competitors'[t].points, competitors'[t].durableAt)
    BY <1>10, <2>1
  <2>3. outcome' = None /\ pc' # "boot" /\ matchState' = "running"
    BY <1>2, <1>3
  <2> QED BY <1>10, <2>2, <2>3 DEF LedgersOK
<1>13. MaxPoints \in Nat
  BY MatchConstants
<1>14. TypeOK'
  <2>1. competitors' \in [Territory -> Referee!CompetitorRecord]
    <3>1. \A t \in Territory : competitors'[t] \in Referee!CompetitorRecord
      BY <1>11, <1>13 DEF Referee!CompetitorRecord
    <3> QED BY <1>11, <3>1
  <2>2. matchState' \in Referee!MatchStates /\ pc' \in Phases
    BY <1>3 DEF Referee!MatchStates, Phases, LoopPhases
  <2> QED BY <1>1, <1>3, <1>8, <2>1, <2>2 DEF Inv, TypeOK, agentVars
<1>15. PhaseOK'
  BY <1>1, <1>2, <1>3 DEF Inv, PhaseOK, LoopPhases, DrainPhases, Waiting
<1>16. ChecksOK' /\ DrainOK'
  BY <1>1, <1>3 DEF Inv, ChecksOK, DrainOK, Checking
<1>17. DurableOK'
  BY <1>11 DEF DurableOK
<1>18. AgentsOK' /\ ChannelOK'
  BY <1>1, <1>3, <1>10, AgentsKept DEF Inv, Waiting, agentVars
<1> QED BY <1>12, <1>14, <1>15, <1>16, <1>17, <1>18 DEF Inv

(* What the runner has recorded: the referee keeps its standings.          *)
Recorded(s, v, time, next) ==
  /\ UNCHANGED <<matchState, competitors, outcome>>
  /\ lastTime' = time /\ reply' = "ok" /\ sequence' \in Nat /\ emitted' = s /\ pc' = next
  /\ IsWorld(v) /\ Stamped(world', v, time)

(* What record makes of the referee and of the world.                      *)
LEMMA RecordIs ==
  ASSUME Inv, NEW E, NEW s, s \in Seq(E), NEW time \in Nat, time >= lastTime,
         s # <<>> \/ time = lastTime,
         NEW next, Call(Referee!Record(s, time), next), IsWorld(World!ApplyAll(world, s))
  PROVE  Recorded(s, World!ApplyAll(world, s), time, next)
<1> DEFINE v == World!ApplyAll(world, s)
           n == sequence'
           end == World!Reduce(world, s, n, time)
<1>1. lastTime \in Nat /\ sequence \in Nat
  BY DEF Inv, TypeOK
<1>2. /\ UNCHANGED <<matchState, competitors, outcome>>
      /\ emitted' = s /\ sequence' = sequence + Len(s) /\ lastTime' = time /\ reply' = "ok"
      /\ world' = end /\ pc' = next
  BY <1>1 DEF Call, Referee!Record, Referee!Emit
<1>3. sequence' \in Nat
  BY <1>1, <1>2
<1>4. s = <<>> => v = world /\ end = world
  BY FoldNone DEF World!Reduce
<1> HIDE DEF n, end
<1>5. Stamped(end, v, time)
  <2>1. CASE s # <<>>
    BY <2>1, ReduceIs DEF end
  <2>2. CASE s = <<>>
    <3>1. world.elapsed = lastTime /\ IsWorld(world) /\ time = lastTime
      BY <2>2 DEF Inv, LedgersOK
    <3> HIDE DEF v
    <3> QED BY <1>4, <2>2, <3>1 DEF Stamped
  <2> QED BY <2>1, <2>2
<1> QED BY <1>2, <1>3, <1>5 DEF Recorded

(* Territories are registered: no standing changes.                        *)
SameViews(v, w) ==
  /\ IsWorld(v) /\ v.match = w.match /\ v.winner = w.winner /\ v.agents = w.agents
  /\ DOMAIN v.territories = DOMAIN w.territories
  /\ \A t \in DOMAIN w.territories :
       /\ v.territories[t].competitor = w.territories[t].competitor
       /\ v.territories[t].milestones = w.territories[t].milestones
       /\ v.territories[t].points = w.territories[t].points
       /\ v.territories[t].durableAt = w.territories[t].durableAt

RegisteredEvent(t) == [kind |-> "territory_registered", territory |-> t, agent |-> t]
StartedEvent(t) == [kind |-> "agent_started", territory |-> t, agent |-> t]

LEMMA RegisteredStep ==
  ASSUME NEW w, IsWorld(w), NEW t \in DOMAIN w.territories
  PROVE  SameViews(World!Apply(w, RegisteredEvent(t)), w)
<1> DEFINE e == RegisteredEvent(t)
           y == World!TerritoryOf(w, t)
           x == [y EXCEPT !.agent = t]
           z == World!SetTerritory(w, t, x)
<1>1. e.kind = "territory_registered" /\ e.territory = t /\ e.agent = t
  BY DEF RegisteredEvent
<1> HIDE DEF e
<1>2. World!Apply(w, e) = z
  BY <1>1 DEF World!Apply
<1>3. IsView(y) /\ y = w.territories[t]
  BY EntriesAre DEF World!TerritoryOf, World!Entry
<1> HIDE DEF y
<1>4. /\ IsView(x) /\ x.competitor = y.competitor
      /\ x.milestones = y.milestones /\ x.points = y.points /\ x.durableAt = y.durableAt
  BY <1>3 DEF IsView, ViewFields
<1> HIDE DEF x
<1>5. TerritorySet(z, w, t, x)
  BY <1>4, SetTerritoryIs
<1> HIDE DEF z
<1>6. /\ IsWorld(z) /\ z.match = w.match /\ z.winner = w.winner /\ z.agents = w.agents
      /\ DOMAIN z.territories = DOMAIN w.territories
  BY <1>5 DEF TerritorySet
<1>7. ASSUME NEW u \in DOMAIN w.territories
      PROVE  /\ z.territories[u].competitor = w.territories[u].competitor
             /\ z.territories[u].milestones = w.territories[u].milestones
             /\ z.territories[u].points = w.territories[u].points
             /\ z.territories[u].durableAt = w.territories[u].durableAt
  <2>1. CASE u = t
    BY <1>3, <1>4, <1>5, <2>1 DEF TerritorySet
  <2>2. CASE u # t
    BY <1>5, <2>2 DEF TerritorySet
  <2> QED BY <2>1, <2>2
<1>8. SameViews(z, w)
  BY <1>6, <1>7 DEF SameViews
<1> QED BY <1>2, <1>8 DEF e

LEMMA SameAgain ==
  ASSUME NEW w, NEW v, NEW z, SameViews(v, w), SameViews(z, v)
  PROVE  SameViews(z, w)
BY DEF SameViews

LEMMA TerritoriesRegister ==
  ASSUME NEW w, IsWorld(w), NEW s, Len(s) = Len(Ids),
         \A i \in 1..Len(Ids) : Ids[i] \in DOMAIN w.territories,
         \A i \in 1..Len(Ids) : s[i] = RegisteredEvent(Ids[i])
  PROVE  SameViews(World!ApplyAll(w, s), w)
<1>1. Len(s) \in Nat
  BY IdsAre
<1>2. PICK f : Steps(f, w, s) /\ World!ApplyAll(w, s) = f[Len(s)]
  BY <1>1, ApplyAllSteps
<1>3. f[0] = w /\ \A i \in 1..Len(s) : f[i] = World!Apply(f[i - 1], s[i])
  BY <1>1, <1>2, StepsAre
<1> DEFINE S == {n \in Nat : n <= Len(Ids) => SameViews(f[n], w)}
<1>4. 0 \in S
  BY <1>3 DEF SameViews
<1>5. ASSUME NEW n \in Nat, n \in S PROVE n + 1 \in S
  <2> SUFFICES ASSUME n + 1 <= Len(Ids) PROVE SameViews(f[n + 1], w)
    OBVIOUS
  <2> DEFINE k == n + 1
             t == Ids[k]
             v == f[n]
             z == f[k]
  <2>1. k \in 1..Len(Ids) /\ k - 1 = n
    BY IdsAre
  <2>2. z = World!Apply(v, RegisteredEvent(t)) /\ t \in DOMAIN w.territories
    BY <1>3, <2>1
  <2>3. SameViews(v, w)
    BY <1>5, IdsAre
  <2> HIDE DEF t, v, z, k
  <2>4. IsWorld(v) /\ t \in DOMAIN v.territories
    BY <2>2, <2>3 DEF SameViews
  <2>5. SameViews(z, v)
    BY <2>2, <2>4, RegisteredStep
  <2>6. SameViews(z, w)
    BY <2>3, <2>5, SameAgain
  <2> QED BY <2>6 DEF z, k
<1> HIDE DEF S
<1>6. \A n \in Nat : n \in S
  BY <1>4, <1>5, SetInduction
<1> QED BY <1>1, <1>2, <1>6 DEF S

(* And the agents start one by one.                                        *)
Joining(v, w, n) ==
  /\ IsWorld(v) /\ v.match = w.match /\ v.winner = w.winner /\ v.territories = w.territories
  /\ DOMAIN v.agents = {Ids[i] : i \in 1..n}
  /\ \A i \in 1..n : v.agents[Ids[i]].running /\ v.agents[Ids[i]].units = 0

LEMMA StartedStep ==
  ASSUME NEW w, IsWorld(w), NEW t
  PROVE  \E x : /\ AgentSet(World!Apply(w, StartedEvent(t)), w, t, x)
                /\ x.running /\ x.units = 0
<1> DEFINE e == StartedEvent(t)
           y == World!DefaultAgent
           x == [y EXCEPT !.territory = t, !.running = TRUE]
<1>1. e.kind = "agent_started" /\ e.territory = t /\ e.agent = t
  BY DEF StartedEvent
<1> HIDE DEF e
<1>2. World!Apply(w, e) = World!SetAgent(w, t, x)
  BY <1>1 DEF World!Apply
<1>3. DOMAIN y = AgentFields /\ y.units = 0
  BY DefaultsAre
<1> HIDE DEF y
<1>4. DOMAIN x = AgentFields /\ x.running /\ x.units = 0
  BY <1>3 DEF AgentFields
<1> HIDE DEF x
<1>5. AgentSet(World!SetAgent(w, t, x), w, t, x)
  BY <1>4, SetAgentIs
<1> QED BY <1>2, <1>4, <1>5 DEF e

LEMMA AgentsStart ==
  ASSUME NEW w, IsWorld(w), DOMAIN w.agents = {}, NEW s, Len(s) = Len(Ids),
         \A i \in 1..Len(Ids) : s[i] = StartedEvent(Ids[i])
  PROVE  Joining(World!ApplyAll(w, s), w, Len(Ids))
<1>1. Len(s) \in Nat
  BY IdsAre
<1>2. PICK f : Steps(f, w, s) /\ World!ApplyAll(w, s) = f[Len(s)]
  BY <1>1, ApplyAllSteps
<1>3. f[0] = w /\ \A i \in 1..Len(s) : f[i] = World!Apply(f[i - 1], s[i])
  BY <1>1, <1>2, StepsAre
<1> DEFINE S == {n \in Nat : n <= Len(Ids) => Joining(f[n], w, n)}
<1>4. 0 \in S
  <2>1. {Ids[i] : i \in 1..0} = {}
    OBVIOUS
  <2> QED BY <1>3, <2>1 DEF Joining
<1>5. ASSUME NEW n \in Nat, n \in S PROVE n + 1 \in S
  <2> SUFFICES ASSUME n + 1 <= Len(Ids) PROVE Joining(f[n + 1], w, n + 1)
    OBVIOUS
  <2> DEFINE k == n + 1
             t == Ids[k]
             v == f[n]
             z == f[k]
  <2>1. /\ k \in 1..Len(Ids) /\ k - 1 = n
        /\ \A i \in 1..k : i = k \/ i \in 1..n
        /\ \A i \in 1..n : i \in 1..k /\ i \in 1..Len(Ids) /\ i # k
    BY IdsAre
  <2>2. z = World!Apply(v, StartedEvent(t))
    BY <1>3, <2>1
  <2>3. Joining(v, w, n)
    BY <1>5, IdsAre
  <2>4. \A i \in 1..n : Ids[i] # t
    BY <2>1, IdsAre
  <2> HIDE DEF k, v, z, t
  <2>5. IsWorld(v)
    BY <2>3 DEF Joining
  <2>6. PICK x : AgentSet(z, v, t, x) /\ x.running /\ x.units = 0
    BY <2>2, <2>5, StartedStep
  <2>7. DOMAIN z.agents = {Ids[i] : i \in 1..k}
    <3>1. DOMAIN z.agents = {Ids[i] : i \in 1..n} \cup {t}
      BY <2>3, <2>6 DEF AgentSet, Joining
    <3>2. {Ids[i] : i \in 1..k} = {Ids[i] : i \in 1..n} \cup {t}
      <4>1. k \in 1..k
        BY DEF k
      <4> QED BY <2>1, <4>1 DEF t
    <3> QED BY <3>1, <3>2
  <2>8. ASSUME NEW i \in 1..k
        PROVE  z.agents[Ids[i]].running /\ z.agents[Ids[i]].units = 0
    <3>1. CASE i = k
      BY <2>6, <3>1 DEF AgentSet, t
    <3>2. CASE i \in 1..n
      <4>1. Ids[i] \in DOMAIN v.agents \ {t}
        BY <2>3, <2>4, <3>2 DEF Joining
      <4> QED BY <2>3, <2>6, <3>2, <4>1 DEF AgentSet, Joining
    <3> QED BY <2>1, <3>1, <3>2
  <2>9. IsWorld(z) /\ z.match = w.match /\ z.winner = w.winner /\ z.territories = w.territories
    BY <2>3, <2>6 DEF AgentSet, Joining
  <2>10. Joining(z, w, k)
    BY <2>7, <2>8, <2>9 DEF Joining
  <2> QED BY <2>10 DEF z, k
<1> HIDE DEF S
<1>6. \A n \in Nat : n \in S
  BY <1>4, <1>5, SetInduction
<1> QED BY <1>1, <1>2, <1>6 DEF S

(* Competitors are registered and agents spawned.                          *)
LEMMA RegisterInv == Inv /\ Register => Inv'
<1> SUFFICES ASSUME Inv, Register PROVE Inv'
  OBVIOUS
<1> DEFINE first == [i \in 1..Len(Ids) |-> RegisteredEvent(Ids[i])]
           second == [i \in 1..Len(Ids) |-> StartedEvent(Ids[i])]
           s == first \o second
           E == {first[i] : i \in 1..Len(Ids)} \cup {second[i] : i \in 1..Len(Ids)}
           u == World!ApplyAll(world, first)
           v == World!ApplyAll(u, second)
<1>1. /\ pc = "register" /\ UNCHANGED <<clock, current, checks, seen, frozen, drain, channel>>
      /\ Call(Referee!Record(s, 0), "loop")
      /\ worker' = [a \in Territory |-> [worker[a] EXCEPT !.state = "building"]]
  BY DEF Register, runnerVars, RegisteredEvent, StartedEvent
<1>2. /\ lastTime = 0 /\ outcome = None /\ matchState = "running" /\ channel = <<>>
      /\ IsWorld(world) /\ DOMAIN world.territories = Territory /\ DOMAIN world.agents = {}
      /\ world.match = matchState /\ world.winner = None
      /\ \A t \in Territory :
           Agrees(world.territories[t], competitors[t].state, competitors[t].passed,
                  competitors[t].points, competitors[t].durableAt)
      /\ \A a \in Territory : seen[a].units = 0
  BY <1>1 DEF Inv, PhaseOK, LedgersOK, AgentsOK, ChannelOK, Waiting, LoopPhases
<1>3. Len(Ids) \in Nat
  BY IdsAre
<1>4. /\ first \in Seq(E) /\ second \in Seq(E) /\ Len(first) = Len(Ids) /\ Len(second) = Len(Ids)
      /\ \A i \in 1..Len(Ids) : first[i] = RegisteredEvent(Ids[i])
      /\ \A i \in 1..Len(Ids) : second[i] = StartedEvent(Ids[i])
  <2>1. /\ \A i \in 1..Len(Ids) : first[i] \in E /\ second[i] \in E
        /\ \A i \in 1..Len(Ids) : first[i] = RegisteredEvent(Ids[i])
        /\ \A i \in 1..Len(Ids) : second[i] = StartedEvent(Ids[i])
        /\ first = [i \in 1..Len(Ids) |-> first[i]]
        /\ second = [i \in 1..Len(Ids) |-> second[i]]
    OBVIOUS
  <2> HIDE DEF first, second, E
  <2>2. first \in Seq(E) /\ Len(first) = Len(Ids)
    BY <1>3, <2>1
  <2>3. second \in Seq(E) /\ Len(second) = Len(Ids)
    BY <1>3, <2>1
  <2> QED BY <2>1, <2>2, <2>3
<1> HIDE DEF first, second, E
<1>5. SameViews(u, world)
  BY <1>2, <1>4, IdsAre, TerritoriesRegister
<1> HIDE DEF u
<1>6. Joining(v, u, Len(Ids))
  <2>1. IsWorld(u) /\ DOMAIN u.agents = {}
    BY <1>2, <1>5 DEF SameViews
  <2> QED BY <1>4, <2>1, AgentsStart
<1>7. World!ApplyAll(world, s) = v
  BY <1>4, FoldConcat DEF u
<1> HIDE DEF v
<1>8. IsWorld(v)
  BY <1>6 DEF Joining
<1>9. Recorded(s, v, 0, "loop")
  <2>1. s \in Seq(E) /\ IsWorld(World!ApplyAll(world, s))
    BY <1>4, <1>7, <1>8
  <2>2. 0 \in Nat /\ 0 >= lastTime /\ 0 = lastTime
    BY <1>2
  <2> HIDE DEF s
  <2> DEFINE time == 0
             next == "loop"
  <2>3. Call(Referee!Record(s, time), next)
    BY <1>1
  <2> HIDE DEF time, next
  <2>4. Recorded(s, World!ApplyAll(world, s), time, next)
    BY <2>1, <2>2, <2>3, RecordIs DEF time
  <2> QED BY <1>7, <2>4 DEF time, next
<1> HIDE DEF s
<1>10. /\ UNCHANGED <<matchState, competitors, outcome>> /\ lastTime' = 0
       /\ reply' = "ok" /\ sequence' \in Nat /\ pc' = "loop"
       /\ IsWorld(world') /\ world'.match = v.match /\ world'.winner = v.winner
       /\ world'.territories = v.territories /\ world'.agents = v.agents /\ world'.elapsed = 0
  BY <1>9 DEF Recorded, Stamped
<1>11. /\ world'.match = world.match /\ world'.winner = world.winner
       /\ DOMAIN world'.territories = Territory
       /\ \A t \in Territory :
            /\ world'.territories[t].competitor = world.territories[t].competitor
            /\ world'.territories[t].milestones = world.territories[t].milestones
            /\ world'.territories[t].points = world.territories[t].points
            /\ world'.territories[t].durableAt = world.territories[t].durableAt
  BY <1>2, <1>5, <1>6, <1>10 DEF SameViews, Joining
<1>12. /\ DOMAIN world'.agents = Territory
       /\ \A a \in Territory : world'.agents[a].running /\ world'.agents[a].units = 0
  BY <1>6, <1>10 DEF Joining, Territory
<1>13. LedgersOK'
  <2>1. ASSUME NEW t \in Territory
        PROVE  Agrees(world'.territories[t], competitors[t].state, competitors[t].passed,
                      competitors[t].points, competitors[t].durableAt)
    BY <1>2, <1>11 DEF Agrees
  <2> QED BY <1>2, <1>10, <1>11, <2>1 DEF LedgersOK
<1>14. \A a \in Territory : /\ worker'[a].state = "building"
                            /\ worker'[a].told = worker[a].told
                            /\ worker'[a].spent = worker[a].spent
                            /\ worker'[a] \in WorkerRecord
  BY <1>1 DEF Inv, TypeOK, WorkerRecord
<1>15. worker' \in [Territory -> WorkerRecord]
  <2>1. worker' = [a \in Territory |-> worker'[a]]
    BY <1>1
  <2> QED BY <1>14, <2>1
<1>16. TypeOK'
  BY <1>1, <1>10, <1>15 DEF Inv, TypeOK, Phases, LoopPhases
<1>17. PhaseOK'
  <2>1. clock \in Nat
    BY DEF Inv, TypeOK
  <2> QED BY <1>1, <1>2, <1>10, <2>1 DEF PhaseOK, LoopPhases, DrainPhases, Waiting
<1>18. ChecksOK' /\ DurableOK' /\ DrainOK'
  BY <1>1, <1>10 DEF Inv, ChecksOK, DurableOK, DrainOK, Checking
<1>19. AgentsOK'
  BY <1>1, <1>2, <1>10, <1>12, <1>14 DEF Inv, AgentsOK, Waiting
<1>20. ChannelOK'
  BY <1>1, <1>2, <1>10 DEF ChannelOK, Waiting
<1> QED BY <1>13, <1>16, <1>17, <1>18, <1>19, <1>20 DEF Inv

(* Recording what agents did leaves the standings and the match alone.     *)
Quiet(time, next) ==
  /\ UNCHANGED <<matchState, competitors, outcome>>
  /\ lastTime' \in {lastTime, time} /\ reply' = "ok" /\ sequence' \in Nat /\ pc' = next
  /\ IsWorld(world') /\ world'.match = world.match /\ world'.winner = world.winner
  /\ world'.territories = world.territories /\ world'.elapsed = lastTime'
  /\ DOMAIN world'.agents = Territory

(* Distinct agents sent these results, and each of them was running.       *)
Genuine(rs) ==
  /\ rs \in Seq(Results)
  /\ \A i \in 1..Len(rs) : rs[i].units <= worker[rs[i].agent].spent
  /\ \A i, j \in 1..Len(rs) : rs[i].agent = rs[j].agent => i = j

(* What recording them makes of the accounts.                              *)
Settled(rs) ==
  /\ seen' \in [Territory -> Usages]
  /\ \A i \in 1..Len(rs) :
       LET a == rs[i].agent IN
       /\ world'.agents[a].running = FALSE /\ world'.agents[a].units = seen'[a].units
       /\ seen'[a].units = IF rs[i].units > seen[a].units THEN rs[i].units ELSE seen[a].units
  /\ \A a \in Territory : (\A i \in 1..Len(rs) : rs[i].agent # a) =>
       world'.agents[a] = world.agents[a] /\ seen'[a] = seen[a]

LEMMA ResultsAre ==
  ASSUME NEW rs \in Seq(Results)
  PROVE  /\ Len(rs) \in Nat
         /\ \A i \in 1..Len(rs) :
              rs[i] \in Results /\ rs[i].agent \in Territory /\ rs[i].units \in Nat
<1>1. \A r \in Results : r.agent \in Territory /\ r.units \in Nat
  BY DEF Results
<1>2. Len(rs) \in Nat /\ \A i \in 1..Len(rs) : rs[i] \in Results
  OBVIOUS
<1> QED BY <1>1, <1>2

LEMMA ResultsSeen ==
  ASSUME Inv, NEW rs, Genuine(rs), NEW time, NEW next, RecordResults(rs, time, next)
  PROVE  /\ seen' \in [Territory -> Usages]
         /\ \A i \in 1..Len(rs) :
              seen'[rs[i].agent] = Usage!Seen(seen[rs[i].agent], Report(rs[i].units))
         /\ \A a \in Territory : (\A i \in 1..Len(rs) : rs[i].agent # a) => seen'[a] = seen[a]
<1>1. seen' = [a \in Territory |->
                LET own == {i \in 1..Len(rs) : rs[i].agent = a} IN
                IF own = {} THEN seen[a]
                ELSE Usage!Seen(seen[a], Report(rs[Min(own)].units))]
  BY DEF RecordResults
<1>2. rs \in Seq(Results) /\ seen \in [Territory -> Usages]
  BY DEF Genuine, Inv, TypeOK
<1>3. \A i \in 1..Len(rs) : rs[i].agent \in Territory /\ rs[i].units \in Nat /\ rs[i] \in Results
  BY <1>2, ResultsAre
<1>4. ASSUME NEW i \in 1..Len(rs)
      PROVE  seen'[rs[i].agent] = Usage!Seen(seen[rs[i].agent], Report(rs[i].units))
  <2> DEFINE own == {k \in 1..Len(rs) : rs[k].agent = rs[i].agent}
  <2>1. own = {i}
    BY DEF Genuine
  <2>2. Min({i}) = i
    <3>1. {i} \in SUBSET Nat /\ {i} # {}
      OBVIOUS
    <3> QED BY <3>1, MinIs
  <2>3. Min(own) = i
    BY <2>1, <2>2
  <2> QED BY <1>1, <1>3, <2>1, <2>3
<1>5. ASSUME NEW a \in Territory, \A i \in 1..Len(rs) : rs[i].agent # a
      PROVE  seen'[a] = seen[a]
  <2>1. {i \in 1..Len(rs) : rs[i].agent = a} = {}
    BY <1>5
  <2> QED BY <1>1, <2>1
<1>6. seen' \in [Territory -> Usages]
  <2>1. ASSUME NEW a \in Territory PROVE seen'[a] \in Usages
    <3>1. CASE \A i \in 1..Len(rs) : rs[i].agent # a
      BY <1>2, <1>5, <3>1
    <3>2. CASE \E i \in 1..Len(rs) : rs[i].agent = a
      <4>1. PICK i \in 1..Len(rs) : rs[i].agent = a
        BY <3>2
      <4> DEFINE u == rs[i].units
                 p == seen[a]
      <4>2. u \in Nat /\ p \in Usages /\ seen'[a] = Usage!Seen(p, Report(u))
        BY <1>2, <1>3, <1>4, <4>1
      <4> HIDE DEF u, p
      <4> QED BY <4>2, DeltaIs
    <3> QED BY <3>1, <3>2
  <2>2. seen' = [a \in Territory |-> seen'[a]]
    BY <1>1
  <2> QED BY <2>1, <2>2
<1> QED BY <1>4, <1>5, <1>6

LEMMA ResultsRecorded ==
  ASSUME Inv, pc \notin Waiting, matchState # "aborted", NEW rs, Genuine(rs),
         NEW time \in Nat, time >= lastTime, NEW next, RecordResults(rs, time, next)
  PROVE  Quiet(time, next) /\ Settled(rs)
<1>1. /\ seen' \in [Territory -> Usages]
      /\ \A i \in 1..Len(rs) :
           seen'[rs[i].agent] = Usage!Seen(seen[rs[i].agent], Report(rs[i].units))
      /\ \A a \in Territory : (\A i \in 1..Len(rs) : rs[i].agent # a) => seen'[a] = seen[a]
  BY ResultsSeen
<1>2. /\ IsWorld(world) /\ DOMAIN world.agents = Territory /\ world.elapsed = lastTime
      /\ \A a \in Territory : world.agents[a].units = seen[a].units
      /\ seen \in [Territory -> Usages] /\ sequence \in Nat /\ reply = "ok"
  BY DEF Inv, LedgersOK, AgentsOK, TypeOK, PhaseOK
<1>3. rs \in Seq(Results) /\ Len(rs) \in Nat
  BY DEF Genuine
<1>4. \A i \in 1..Len(rs) : rs[i].agent \in Territory /\ rs[i].units \in Nat /\ rs[i] \in Results
  BY <1>3, ResultsAre
<1>5. CASE rs = <<>>
  <2>1. NoCall(next) /\ Len(rs) = 0
    BY <1>5 DEF RecordResults
  <2>2. Quiet(time, next)
    BY <1>2, <2>1 DEF Quiet, NoCall, refereeVars
  <2>3. Settled(rs)
    BY <1>1, <2>1 DEF Settled, NoCall
  <2> QED BY <2>2, <2>3
<1>6. CASE rs # <<>>
  <2> DEFINE n == Len(rs)
             lists == [i \in 1..n |-> ResultEvents(rs[i])]
             s == Joined(lists)
             v == World!ApplyAll(world, s)
             who == [i \in 1..n |-> rs[i].agent]
             running == [i \in 1..n |-> FALSE]
             units == [i \in 1..n |-> world.agents[rs[i].agent].units +
                         Usage!Delta(seen[rs[i].agent], Report(rs[i].units)).units]
  <2>1. Call(Referee!Record(s, time), next)
    BY <1>6 DEF RecordResults
  <2>2. Len(lists) = n /\ Len(lists) \in Nat
    <3>1. DOMAIN lists = 1..n
      OBVIOUS
    <3> HIDE DEF lists
    <3> QED BY <1>3, <3>1
  <2>3. ASSUME NEW i \in 1..n
        PROVE  /\ lists[i] \in Seq(AgentEvents) /\ lists[i] # <<>>
               /\ Turn(lists[i], world, who[i], running[i], units[i])
    <3> DEFINE r == rs[i]
               c == Usage!Delta(seen[r.agent], Report(r.units))
               more == IF CompletedAfterFinish(r) THEN <<Outraced(r.agent)>> ELSE <<>>
               list == ResultEvents(r)
    <3>1. r \in Results /\ r.agent \in Territory /\ r.units \in Nat /\ seen[r.agent] \in Usages
      BY <1>2, <1>4
    <3>2. more = <<>> \/ more = <<Outraced(r.agent)>>
      OBVIOUS
    <3>3. list = <<Terminal(r), Charge(r.agent, c)>> \o more
      BY DEF ResultEvents
    <3>4. c \in Usages
      <4> DEFINE p == seen[r.agent]
                 u == r.units
      <4>1. p \in Usages /\ u \in Nat
        BY <3>1
      <4> HIDE DEF p, u, r
      <4>2. Usage!Delta(p, Report(u)) \in Usages
        BY <4>1, DeltaIs
      <4> QED BY <4>2 DEF p, u
    <3>5. lists[i] = list /\ who[i] = r.agent /\ running[i] = FALSE
          /\ units[i] = world.agents[r.agent].units + c.units
      OBVIOUS
    <3> HIDE DEF r, c, more, list, lists, who, running, units
    <3>6. /\ list \in Seq(AgentEvents) /\ list # <<>>
          /\ Turn(list, world, r.agent, FALSE, world.agents[r.agent].units + c.units)
      BY <3>1, <3>2, <3>3, <3>4, ResultTurn
    <3>7. Turn(lists[i], world, who[i], running[i], units[i])
      BY <3>5, <3>6 DEF Turn
    <3> QED BY <3>5, <3>6, <3>7
  <2>4. \A i \in 1..n : who[i] = rs[i].agent /\ running[i] = FALSE
                        /\ units[i] = world.agents[rs[i].agent].units +
                             Usage!Delta(seen[rs[i].agent], Report(rs[i].units)).units
    OBVIOUS
  <2> HIDE DEF lists, who, running, units
  <2>5. Swept(v, world, n, who, running, units)
    <3>1. \A i \in 1..Len(lists) : who[i] \in DOMAIN world.agents /\ lists[i] \in Seq(AgentEvents)
                                   /\ Turn(lists[i], world, who[i], running[i], units[i])
      BY <1>2, <1>4, <2>2, <2>3, <2>4
    <3>2. \A i, j \in 1..Len(lists) : who[i] = who[j] => i = j
      BY <2>2, <2>4 DEF Genuine
    <3>3. Swept(World!ApplyAll(world, Joined(lists)), world, Len(lists), who, running, units)
      BY <1>2, <2>2, <3>1, <3>2, TurnsSweep
    <3> QED BY <2>2, <3>3
  <2>6. s \in Seq(AgentEvents) /\ s # <<>>
    <3>1. \A i \in 1..Len(lists) : lists[i] \in Seq(AgentEvents) /\ lists[i] # <<>>
      BY <2>2, <2>3
    <3>2. Joined(lists) \in Seq(AgentEvents)
      BY <2>2, <3>1, FoldJoined
    <3>3. 1 \in 1..Len(lists)
      BY <1>3, <1>6, <2>2
    <3>4. Joined(lists) # <<>>
      BY <2>2, <3>1, <3>3, JoinedNotEmpty
    <3> QED BY <3>2, <3>4
  <2> HIDE DEF s
  <2>7. Recorded(s, v, time, next)
    <3>1. IsWorld(v)
      BY <2>5 DEF Swept
    <3> QED BY <2>1, <2>6, <3>1, RecordIs
  <2> HIDE DEF v, n
  <2>8. /\ UNCHANGED <<matchState, competitors, outcome>>
        /\ lastTime' = time /\ reply' = "ok" /\ sequence' \in Nat /\ pc' = next
        /\ IsWorld(world') /\ world'.match = v.match /\ world'.winner = v.winner
        /\ world'.territories = v.territories /\ world'.agents = v.agents
        /\ world'.elapsed = time
    BY <2>7 DEF Recorded, Stamped
  <2>9. Quiet(time, next)
    BY <1>2, <2>5, <2>8 DEF Quiet, Swept
  <2>10. ASSUME NEW i \in 1..n
         PROVE  LET a == rs[i].agent IN
                /\ world'.agents[a].running = FALSE /\ world'.agents[a].units = seen'[a].units
                /\ seen'[a].units = IF rs[i].units > seen[a].units THEN rs[i].units
                                    ELSE seen[a].units
    <3> DEFINE a == rs[i].agent
               p == seen[a]
               u == rs[i].units
    <3>1. p \in Usages /\ u \in Nat /\ seen'[a] = Usage!Seen(p, Report(u))
          /\ world.agents[a].units = p.units /\ who[i] = a /\ running[i] = FALSE
          /\ units[i] = world.agents[a].units + Usage!Delta(p, Report(u)).units
      BY <1>1, <1>2, <1>4, <2>4 DEF n
    <3>2. v.agents[who[i]].running = running[i] /\ v.agents[who[i]].units = units[i]
      BY <2>5 DEF Swept
    <3> HIDE DEF a, p, u
    <3>3. /\ p.units + Usage!Delta(p, Report(u)).units = Usage!Seen(p, Report(u)).units
          /\ Usage!Seen(p, Report(u)).units = IF u > p.units THEN u ELSE p.units
      BY <3>1, DeltaIs
    <3>4. /\ world'.agents[a].running = FALSE /\ world'.agents[a].units = seen'[a].units
          /\ seen'[a].units = IF u > p.units THEN u ELSE p.units
      BY <2>8, <3>1, <3>2, <3>3
    <3> QED BY <3>4 DEF a, p, u
  <2>11. ASSUME NEW a \in Territory, \A i \in 1..n : rs[i].agent # a
         PROVE  world'.agents[a] = world.agents[a]
    <3>1. \A i \in 1..n : who[i] # a
      BY <2>4, <2>11
    <3> QED BY <1>2, <2>5, <2>8, <3>1 DEF Swept
  <2>12. Settled(rs)
    BY <1>1, <2>10, <2>11 DEF Settled, n
  <2> QED BY <2>9, <2>12
<1> QED BY <1>5, <1>6

LEMMA QuietInv ==
  ASSUME Inv, pc # "boot", NEW next, next # "boot", NEW time, Quiet(time, next)
  PROVE  LedgersOK' /\ DurableOK'
<1>1. LedgersOK'
  BY LedgersKept DEF Quiet, Inv
<1>2. DurableOK'
  BY DurableKept DEF Quiet, Inv
<1> QED BY <1>1, <1>2

(* What is in the channel is genuine, and so is what is at its head.       *)
LEMMA ChannelGenuine ==
  ASSUME Inv
  PROVE  Genuine(channel)
<1>1. /\ channel \in Seq(Results)
      /\ \A i \in 1..Len(channel) : channel[i].units = worker[channel[i].agent].told
      /\ \A i, j \in 1..Len(channel) : channel[i].agent = channel[j].agent => i = j
      /\ \A a \in Territory : worker[a].told <= worker[a].spent
  BY DEF Inv, TypeOK, ChannelOK, AgentsOK
<1>2. \A i \in 1..Len(channel) : channel[i].agent \in Territory
  BY <1>1, ResultsAre
<1> QED BY <1>1, <1>2 DEF Genuine

(* Nobody else works on while results are recorded.                        *)
Still ==
  \A a \in Territory :
    /\ worker'[a].told = worker[a].told /\ worker'[a].spent = worker[a].spent
    /\ \/ worker'[a].state = worker[a].state
       \/ worker[a].state = "building" /\ worker'[a].state = "killed"

LEMMA SettledAgents ==
  ASSUME Inv, pc \notin Waiting, NEW next, next \notin Waiting, NEW time, NEW rs,
         Quiet(time, next), Genuine(rs), Settled(rs), Still,
         \A i \in 1..Len(rs) : /\ worker[rs[i].agent].state = "ended"
                               /\ rs[i].units = worker[rs[i].agent].told,
         \A a \in Territory : (\E i \in 1..Len(channel) : channel[i].agent = a) =>
           \/ \E i \in 1..Len(rs) : rs[i].agent = a
           \/ \E i \in 1..Len(channel') : channel'[i].agent = a
  PROVE  AgentsOK'
<1>1. /\ DOMAIN world.agents = Territory /\ seen \in [Territory -> Usages]
      /\ worker \in [Territory -> WorkerRecord] /\ rs \in Seq(Results)
      /\ DOMAIN world'.agents = Territory /\ pc' \notin Waiting
  BY DEF Inv, AgentsOK, TypeOK, Genuine, Quiet
<1>2. ASSUME NEW a \in Territory
      PROVE  /\ worker[a].told \in Nat /\ worker[a].spent \in Nat /\ seen[a].units \in Nat
             /\ world.agents[a].units = seen[a].units
             /\ worker[a].told <= worker[a].spent /\ seen[a].units <= worker[a].spent
             /\ worker[a].state = "building" => world.agents[a].running
             /\ worker[a].state = "ended" =>
                  \/ seen[a].units >= worker[a].told
                  \/ \E i \in 1..Len(channel) : channel[i].agent = a
  BY <1>1 DEF Inv, AgentsOK, WorkerRecord, Usages
<1>3. ASSUME NEW a \in Territory
      PROVE  /\ world'.agents[a].units = seen'[a].units
             /\ seen'[a].units <= worker[a].spent
             /\ worker'[a].state = "building" => world'.agents[a].running
             /\ worker'[a].state = "ended" =>
                  \/ seen'[a].units >= worker[a].told
                  \/ \E i \in 1..Len(channel') : channel'[i].agent = a
  <2>1. worker'[a].state \in {"building", "ended"} => worker'[a].state = worker[a].state
    BY DEF Still
  <2>2. CASE \A i \in 1..Len(rs) : rs[i].agent # a
    <3>1. world'.agents[a] = world.agents[a] /\ seen'[a] = seen[a]
      BY <2>2 DEF Settled
    <3> QED BY <1>2, <2>1, <2>2, <3>1
  <2>3. CASE \E i \in 1..Len(rs) : rs[i].agent = a
    <3>1. PICK i \in 1..Len(rs) : rs[i].agent = a
      BY <2>3
    <3>2. rs[i].units \in Nat
      BY <1>1, ResultsAre
    <3>3. /\ world'.agents[a].units = seen'[a].units
          /\ seen'[a].units = IF rs[i].units > seen[a].units THEN rs[i].units ELSE seen[a].units
      BY <3>1 DEF Settled
    <3>4. /\ rs[i].units <= worker[a].spent
          /\ worker[a].state = "ended" /\ rs[i].units = worker[a].told
      BY <3>1 DEF Genuine
    <3>5. worker'[a].state # "building"
      BY <2>1, <3>4
    <3>6. seen'[a].units <= worker[a].spent /\ seen'[a].units >= worker[a].told
      BY <1>2, <3>2, <3>3, <3>4
    <3> QED BY <3>3, <3>5, <3>6
  <2> QED BY <2>2, <2>3
<1>4. \A a \in Territory : worker'[a].told = worker[a].told /\ worker'[a].spent = worker[a].spent
  BY DEF Still
<1> QED BY <1>1, <1>2, <1>3, <1>4 DEF AgentsOK

(* The loop collects what is in the channel.                               *)
LEMMA CollectInv == Inv /\ Collect => Inv'
<1> SUFFICES ASSUME Inv, Collect PROVE Inv'
  OBVIOUS
<1> DEFINE next == "contest"
<1>1. /\ pc = "collect" /\ RecordResults(channel, clock, next) /\ channel' = <<>>
      /\ UNCHANGED <<clock, current, checks, frozen, drain, worker>>
  BY DEF Collect
<1>2. /\ outcome = None /\ matchState = "running" /\ lastTime <= clock /\ clock \in Nat
      /\ lastTime \in Nat /\ checks = {} /\ pc \notin Waiting
  BY <1>1 DEF Inv, PhaseOK, TypeOK, ChecksOK, Checking, LoopPhases, Waiting
<1>3. Genuine(channel)
  BY ChannelGenuine
<1>4. Quiet(clock, next) /\ Settled(channel)
  BY <1>1, <1>2, <1>3, ResultsRecorded
<1>5. pc' = next /\ lastTime' \in {lastTime, clock} /\ reply' = "ok" /\ sequence' \in Nat
      /\ UNCHANGED <<matchState, competitors, outcome>> /\ seen' \in [Territory -> Usages]
  BY <1>4 DEF Quiet, Settled
<1>6. LedgersOK' /\ DurableOK'
  BY <1>1, <1>4, QuietInv
<1>7. AgentsOK'
  <2>1. Still
    BY <1>1 DEF Still
  <2>2. \A i \in 1..Len(channel) : /\ worker[channel[i].agent].state = "ended"
                                   /\ channel[i].units = worker[channel[i].agent].told
    BY DEF Inv, ChannelOK
  <2>3. next \notin Waiting
    BY DEF Waiting
  <2> QED BY <1>2, <1>3, <1>4, <2>1, <2>2, <2>3, SettledAgents
<1>8. ChannelOK'
  BY <1>1 DEF ChannelOK
<1>9. TypeOK'
  <2>1. channel' \in Seq(Results)
    BY <1>1
  <2> QED BY <1>1, <1>2, <1>5, <2>1 DEF Inv, TypeOK, Phases, LoopPhases
<1>10. PhaseOK'
  BY <1>1, <1>2, <1>5 DEF PhaseOK, LoopPhases, DrainPhases, Waiting
<1>11. ChecksOK' /\ DrainOK'
  BY <1>1, <1>2, <1>5 DEF ChecksOK, DrainOK, Checking
<1> QED BY <1>6, <1>7, <1>8, <1>9, <1>10, <1>11 DEF Inv

LEMMA RunningFinite ==
  /\ IsFiniteSet(Running) /\ Cardinality(Running) \in Nat /\ Running \subseteq Territory
<1>1. Running \subseteq Territory
  BY DEF Running
<1> QED BY <1>1, TerritoryFinite, FS_Subset, FS_CardinalityType

(* What stays the same of the place of the drain.                          *)
LEMMA DrainIs ==
  ASSUME Inv, pc \in {"drain", "tally", "close"}
  PROVE  /\ outcome # None /\ matchState = "finished" /\ frozen = lastTime /\ lastTime <= clock
         /\ clock \in Nat /\ lastTime \in Nat /\ checks = {} /\ pc \notin Waiting
         /\ drain \in [pending : Nat, captured : Nat]
         /\ drain.captured + Cardinality(Running) = drain.pending
BY DEF Inv, PhaseOK, TypeOK, ChecksOK, DrainOK, Checking, DrainPhases, Waiting

LEMMA HeadIs ==
  ASSUME NEW rs \in Seq(Results), rs # <<>>
  PROVE  /\ Len(rs) \in Nat /\ 1 \in 1..Len(rs) /\ Head(rs) = rs[1]
         /\ Tail(rs) \in Seq(Results) /\ Len(Tail(rs)) = Len(rs) - 1
         /\ \A i \in 1..Len(Tail(rs)) : i + 1 \in 1..Len(rs) /\ Tail(rs)[i] = rs[i + 1]
         /\ <<Head(rs)>> \in Seq(Results) /\ Len(<<Head(rs)>>) = 1 /\ <<Head(rs)>>[1] = rs[1]
<1>1. Len(rs) \in Nat /\ Len(rs) > 0
  OBVIOUS
<1>2. Head(rs) = rs[1] /\ rs[1] \in Results
  BY <1>1
<1>3. /\ Tail(rs) \in Seq(Results) /\ Len(Tail(rs)) = Len(rs) - 1
      /\ \A i \in 1..Len(Tail(rs)) : i + 1 \in 1..Len(rs) /\ Tail(rs)[i] = rs[i + 1]
  BY <1>1
<1> QED BY <1>1, <1>2, <1>3

(* The drain receives one result, and ends.                                *)
LEMMA ReceiveInv == Inv /\ Receive => Inv'
<1> SUFFICES ASSUME Inv, Receive PROVE Inv'
  OBVIOUS
<1> DEFINE next == "drain"
           rs == <<Head(channel)>>
           b == channel[1].agent
<1>1. /\ pc = "drain" /\ channel # <<>> /\ RecordResults(rs, frozen, next)
      /\ channel' = Tail(channel) /\ drain' = [drain EXCEPT !.captured = @ + 1]
      /\ UNCHANGED <<clock, current, checks, frozen, worker>>
  BY DEF Receive
<1>2. /\ outcome # None /\ matchState = "finished" /\ frozen = lastTime /\ lastTime <= clock
      /\ clock \in Nat /\ lastTime \in Nat /\ checks = {} /\ pc \notin Waiting
      /\ drain \in [pending : Nat, captured : Nat]
      /\ drain.captured + Cardinality(Running) = drain.pending
  BY <1>1, DrainIs
<1>3. channel \in Seq(Results)
  BY DEF Inv, TypeOK
<1>4. /\ Len(channel) \in Nat /\ 1 \in 1..Len(channel)
      /\ channel' \in Seq(Results) /\ Len(channel') = Len(channel) - 1
      /\ \A i \in 1..Len(channel') : i + 1 \in 1..Len(channel) /\ channel'[i] = channel[i + 1]
      /\ rs \in Seq(Results) /\ Len(rs) = 1 /\ rs[1] = channel[1]
  BY <1>1, <1>3, HeadIs
<1>5. /\ worker[b].state = "ended" /\ channel[1].units = worker[b].told
      /\ world.agents[b].running /\ b \in Territory
      /\ \A i \in 1..Len(channel) : channel[i].agent = b => i = 1
  BY <1>3, <1>4, ResultsAre DEF Inv, ChannelOK
<1>6. Genuine(rs)
  <2>1. channel[1].units <= worker[b].spent
    BY <1>4, ChannelGenuine DEF Genuine
  <2> HIDE DEF rs
  <2> QED BY <1>4, <2>1 DEF Genuine
<1> HIDE DEF rs
<1>7. Quiet(frozen, next) /\ Settled(rs)
  <2>1. frozen \in Nat /\ frozen >= lastTime /\ matchState # "aborted"
    BY <1>2
  <2> HIDE DEF next
  <2> QED BY <1>1, <1>2, <1>6, <2>1, ResultsRecorded
<1>8. pc' = next /\ lastTime' = lastTime /\ reply' = "ok" /\ sequence' \in Nat
      /\ UNCHANGED <<matchState, competitors, outcome>> /\ seen' \in [Territory -> Usages]
  BY <1>2, <1>7 DEF Quiet, Settled
<1>9. LedgersOK' /\ DurableOK'
  BY <1>1, <1>7, QuietInv
<1>10. \A i \in 1..Len(rs) : i = 1
  BY <1>4
<1>11. world'.agents[b].running = FALSE
       /\ \A a \in Territory \ {b} : world'.agents[a] = world.agents[a]
  BY <1>4, <1>7, <1>10 DEF Settled
<1>12. AgentsOK'
  <2>1. Still
    BY <1>1 DEF Still
  <2>2. \A i \in 1..Len(rs) : /\ worker[rs[i].agent].state = "ended"
                              /\ rs[i].units = worker[rs[i].agent].told
    BY <1>4, <1>5, <1>10
  <2>3. next \notin Waiting
    BY DEF Waiting
  <2>4. ASSUME NEW a \in Territory, NEW i \in 1..Len(channel), channel[i].agent = a
        PROVE  \/ \E k \in 1..Len(rs) : rs[k].agent = a
               \/ \E k \in 1..Len(channel') : channel'[k].agent = a
    <3>1. CASE i = 1
      BY <1>4, <2>4, <3>1
    <3>2. CASE i # 1
      <4>1. i - 1 \in 1..Len(channel') /\ (i - 1) + 1 = i
        BY <1>4, <3>2
      <4> QED BY <1>4, <2>4, <4>1
    <3> QED BY <3>1, <3>2
  <2> QED BY <1>2, <1>6, <1>7, <2>1, <2>2, <2>3, <2>4, SettledAgents
<1>13. ChannelOK'
  <2>1. ASSUME NEW i \in 1..Len(channel')
        PROVE  /\ worker'[channel'[i].agent].state = "ended"
               /\ channel'[i].units = worker'[channel'[i].agent].told
               /\ world'.agents[channel'[i].agent].running
    <3>1. i + 1 \in 1..Len(channel) /\ i + 1 # 1 /\ channel'[i] = channel[i + 1]
      BY <1>4
    <3>2. channel'[i].agent \in Territory \ {b}
      BY <1>3, <1>5, <3>1, ResultsAre
    <3> QED BY <1>1, <1>11, <3>1, <3>2 DEF Inv, ChannelOK
  <2>2. ASSUME NEW i \in 1..Len(channel'), NEW j \in 1..Len(channel'),
               channel'[i].agent = channel'[j].agent
        PROVE  i = j
    <3> DEFINE k == i + 1
               l == j + 1
    <3>1. k \in 1..Len(channel) /\ l \in 1..Len(channel)
          /\ channel'[i] = channel[k] /\ channel'[j] = channel[l]
      BY <1>4
    <3>2. k = l => i = j
      OBVIOUS
    <3> HIDE DEF k, l
    <3>3. channel[k].agent = channel[l].agent
      BY <2>2, <3>1
    <3>4. k = l
      BY <3>1, <3>3 DEF Inv, ChannelOK
    <3> QED BY <3>2, <3>4
  <2>3. pc' \notin Waiting
    BY <1>8 DEF Waiting
  <2> QED BY <2>1, <2>2, <2>3 DEF ChannelOK
<1>14. /\ drain' \in [pending : Nat, captured : Nat]
       /\ drain'.pending = drain.pending /\ drain'.captured = drain.captured + 1
  BY <1>1, <1>2
<1>15. TypeOK'
  BY <1>1, <1>2, <1>4, <1>8, <1>14 DEF Inv, TypeOK, Phases, DrainPhases
<1>16. PhaseOK'
  BY <1>1, <1>2, <1>8 DEF PhaseOK, LoopPhases, DrainPhases, Waiting
<1>17. ChecksOK'
  BY <1>1, <1>2, <1>8 DEF ChecksOK, Checking
<1>18. DrainOK'
  <2>1. Running' = Running \ {b} /\ b \in Running
    BY <1>5, <1>11 DEF Running
  <2>2. Cardinality(Running \ {b}) = Cardinality(Running) - 1
    BY <2>1, RunningFinite, FS_RemoveElement
  <2>3. Cardinality(Running') = Cardinality(Running) - 1
    BY <2>1, <2>2
  <2>4. drain'.captured + Cardinality(Running') = drain'.pending
    BY <1>2, <1>14, <2>3, RunningFinite
  <2> QED BY <1>8, <2>4 DEF DrainOK
<1> QED BY <1>9, <1>12, <1>13, <1>15, <1>16, <1>17, <1>18 DEF Inv

(* Results of distinct agents are as many as there are agents.             *)
LEMMA Senders ==
  ASSUME NEW n \in Nat, NEW rs, \A i, j \in 1..n : rs[i].agent = rs[j].agent => i = j
  PROVE  LET A == {rs[i].agent : i \in 1..n} IN Cardinality(A) = n /\ IsFiniteSet(A)
<1> DEFINE A == {rs[i].agent : i \in 1..n}
           f == [i \in 1..n |-> rs[i].agent]
           I == 1..n
<1>1. /\ f \in [I -> A] /\ \A x \in A : \E i \in I : f[i] = x
      /\ \A i, j \in I : f[i] = f[j] => i = j
  OBVIOUS
<1>2. n \in Int /\ 1 \in Int /\ ~(1 > n) => n - 1 + 1 = n
  OBVIOUS
<1>3. IsFiniteSet(I) /\ Cardinality(I) = IF 1 > n THEN 0 ELSE n - 1 + 1
  BY <1>2, FS_Interval
<1>4. Cardinality(I) = n
  BY <1>3
<1> HIDE DEF f, A, I
<1>5. f \in Surjection(I, A) /\ f \in Injection(I, A)
  <2>1. DOMAIN f = I
    BY <1>1
  <2> QED BY <1>1, <2>1 DEF Surjection, Injection, IsInjective
<1>6. IsFiniteSet(A) /\ Cardinality(A) = Cardinality(I)
  BY <1>3, <1>5, FS_Surjection
<1> QED BY <1>4, <1>6 DEF A

LEMMA DrainOverInv == Inv /\ DrainOver => Inv'
<1> SUFFICES ASSUME Inv, DrainOver PROVE Inv'
  OBVIOUS
<1> DEFINE next == "tally"
           n == Len(channel)
           A == {channel[i].agent : i \in 1..n}
<1>1. /\ pc = "drain" /\ RecordResults(channel, frozen, next) /\ channel' = <<>>
      /\ drain' = [drain EXCEPT !.captured = @ + n]
      /\ worker' = [a \in Territory |->
                       IF worker[a].state = "building"
                       THEN [worker[a] EXCEPT !.state = "killed"] ELSE worker[a]]
      /\ UNCHANGED <<clock, current, checks, frozen>>
  BY DEF DrainOver, AbortAgents
<1>2. /\ outcome # None /\ matchState = "finished" /\ frozen = lastTime /\ lastTime <= clock
      /\ clock \in Nat /\ lastTime \in Nat /\ checks = {} /\ pc \notin Waiting
      /\ drain \in [pending : Nat, captured : Nat]
      /\ drain.captured + Cardinality(Running) = drain.pending
  BY <1>1, DrainIs
<1>3. /\ channel \in Seq(Results) /\ n \in Nat /\ Genuine(channel)
      /\ \A i \in 1..n : channel[i].agent \in Territory
  <2>1. channel \in Seq(Results)
    BY DEF Inv, TypeOK
  <2> QED BY <2>1, ResultsAre, ChannelGenuine
<1>4. Quiet(frozen, next) /\ Settled(channel)
  <2>1. frozen \in Nat /\ frozen >= lastTime /\ matchState # "aborted"
    BY <1>2
  <2> HIDE DEF next
  <2> QED BY <1>1, <1>2, <1>3, <2>1, ResultsRecorded
<1>5. pc' = next /\ lastTime' = lastTime /\ reply' = "ok" /\ sequence' \in Nat
      /\ UNCHANGED <<matchState, competitors, outcome>> /\ seen' \in [Territory -> Usages]
  BY <1>2, <1>4 DEF Quiet, Settled
<1>6. LedgersOK' /\ DurableOK'
  BY <1>1, <1>4, QuietInv
<1>7. ASSUME NEW a \in Territory
      PROVE  /\ worker'[a] \in WorkerRecord
             /\ worker'[a].told = worker[a].told /\ worker'[a].spent = worker[a].spent
             /\ \/ worker'[a].state = worker[a].state
                \/ worker[a].state = "building" /\ worker'[a].state = "killed"
             /\ worker'[a].state # "building"
  <2>1. worker[a] \in WorkerRecord
    BY DEF Inv, TypeOK
  <2>2. worker'[a] = IF worker[a].state = "building"
                     THEN [worker[a] EXCEPT !.state = "killed"] ELSE worker[a]
    BY <1>1
  <2> QED BY <2>1, <2>2 DEF WorkerRecord
<1>8. worker' \in [Territory -> WorkerRecord]
  <2>1. worker' = [a \in Territory |-> worker'[a]]
    BY <1>1
  <2> QED BY <1>7, <2>1
<1>9. AgentsOK'
  <2>1. Still
    BY <1>7 DEF Still
  <2>2. \A i \in 1..Len(channel) : /\ worker[channel[i].agent].state = "ended"
                                   /\ channel[i].units = worker[channel[i].agent].told
    BY DEF Inv, ChannelOK
  <2>3. next \notin Waiting
    BY DEF Waiting
  <2> QED BY <1>2, <1>3, <1>4, <2>1, <2>2, <2>3, SettledAgents
<1>10. ChannelOK'
  BY <1>1 DEF ChannelOK
<1>11. /\ drain' \in [pending : Nat, captured : Nat]
       /\ drain'.pending = drain.pending /\ drain'.captured = drain.captured + n
  BY <1>1, <1>2, <1>3
<1>12. TypeOK'
  <2>1. channel' \in Seq(Results)
    BY <1>1
  <2> QED BY <1>1, <1>2, <1>5, <1>8, <1>11, <2>1 DEF Inv, TypeOK, Phases, DrainPhases
<1>13. PhaseOK'
  BY <1>1, <1>2, <1>5 DEF PhaseOK, LoopPhases, DrainPhases, Waiting
<1>14. ChecksOK'
  BY <1>1, <1>2, <1>5 DEF ChecksOK, Checking
<1>15. Cardinality(A) = n /\ IsFiniteSet(A)
  <2>1. \A i, j \in 1..n : channel[i].agent = channel[j].agent => i = j
    BY <1>3 DEF Genuine
  <2> HIDE DEF n
  <2> QED BY <1>3, <2>1, Senders
<1>16. Running' = Running \ A /\ A \subseteq Running
  <2>1. \A i \in 1..n : world.agents[channel[i].agent].running
                        /\ world'.agents[channel[i].agent].running = FALSE
    BY <1>4 DEF Inv, ChannelOK, Settled
  <2>2. \A a \in Territory : a \notin A => world'.agents[a] = world.agents[a]
    BY <1>4 DEF Settled
  <2>3. \A a \in A : a \in Territory /\ world.agents[a].running /\ world'.agents[a].running = FALSE
    BY <1>3, <2>1
  <2> HIDE DEF A
  <2> QED BY <2>2, <2>3 DEF Running
<1> HIDE DEF A
<1>17. Cardinality(Running') = Cardinality(Running) - n
  <2> DEFINE R == Running \ A
  <2>1. /\ R \cup A = Running /\ R \cap A = {}
    BY <1>16
  <2>2. IsFiniteSet(R) /\ Cardinality(R) \in Nat
    BY RunningFinite, FS_Subset, FS_CardinalityType
  <2> HIDE DEF R
  <2>3. Cardinality(R \cup A) = Cardinality(R) + Cardinality(A) - Cardinality(R \cap A)
    BY <1>15, <2>2, FS_Union
  <2>4. Cardinality(Running) = Cardinality(R) + n - 0
    BY <1>15, <2>1, <2>3, FS_EmptySet
  <2>5. Cardinality(R) = Cardinality(Running) - n
    BY <1>3, <2>2, <2>4, RunningFinite
  <2> QED BY <1>16, <2>5 DEF R
<1>18. DrainOK'
  <2>1. drain'.captured + Cardinality(Running') = drain'.pending
    BY <1>2, <1>3, <1>11, <1>17, RunningFinite
  <2> QED BY <1>1, <1>5, <1>7, <2>1 DEF DrainOK
<1> QED BY <1>6, <1>9, <1>10, <1>12, <1>13, <1>14, <1>18 DEF Inv

(* What a checkpoint of the usage makes of the accounts.                   *)
Metered ==
  /\ seen' \in [Territory -> Usages]
  /\ \A a \in Territory :
       /\ world'.agents[a].running = world.agents[a].running
       /\ world'.agents[a].units = seen'[a].units
       /\ seen'[a].units >= seen[a].units /\ seen'[a].units <= worker[a].spent

(* A read of usage.json is of what was spent so far, never of more.        *)
LEMMA UsageSeen ==
  ASSUME Inv, NEW reads \in Reads, NEW time, NEW next, RecordUsage(reads, time, next)
  PROVE  /\ seen' \in [Territory -> Usages]
         /\ \A a \in Territory :
              /\ seen'[a].units >= seen[a].units /\ seen'[a].units <= worker[a].spent
              /\ ~Due(reads, a) => seen'[a].units = seen[a].units
              /\ Due(reads, a) =>
                   /\ Usage!Delta(seen[a], Report(reads[a])) \in Usages
                   /\ seen'[a].units =
                        seen[a].units + Usage!Delta(seen[a], Report(reads[a])).units
<1>1. /\ seen' = [a \in Territory |->
                IF reads[a] = None THEN seen[a]
                ELSE Usage!Seen(seen[a], Report(reads[a]))]
      /\ Published(reads)
  BY DEF RecordUsage
<1>2. /\ seen \in [Territory -> Usages] /\ worker \in [Territory -> WorkerRecord]
      /\ \A a \in Territory : seen[a].units <= worker[a].spent
  BY DEF Inv, TypeOK, AgentsOK
<1>3. ASSUME NEW a \in Territory
      PROVE  /\ seen'[a] \in Usages
             /\ seen'[a].units >= seen[a].units /\ seen'[a].units <= worker[a].spent
             /\ ~Due(reads, a) => seen'[a].units = seen[a].units
             /\ Due(reads, a) =>
                  /\ Usage!Delta(seen[a], Report(reads[a])) \in Usages
                  /\ seen'[a].units =
                       seen[a].units + Usage!Delta(seen[a], Report(reads[a])).units
  <2> DEFINE p == seen[a]
             u == reads[a]
             spent == worker[a].spent
             d == Usage!Delta(p, Report(u))
             z == Usage!Seen(p, Report(u))
  <2>1. p \in Usages /\ p.units \in Nat /\ spent \in Nat /\ p.units <= spent
    BY <1>2 DEF Usages, WorkerRecord
  <2>2. CASE u = None
    <3>1. seen'[a] = p /\ ~Due(reads, a)
      BY <1>1, <2>2 DEF Due
    <3> QED BY <2>1, <3>1
  <2>3. CASE u # None
    <3>1. u \in Nat /\ u <= spent
      <4>1. u \in 0..MaxUnits /\ MaxUnits \in Nat
        BY <2>3, MatchConstants DEF Reads
      <4> QED BY <1>1, <2>3, <4>1 DEF Published
    <3>2. seen'[a] = z /\ (Due(reads, a) <=> ~Usage!IsEmpty(d))
      BY <1>1, <2>3 DEF Due
    <3> HIDE DEF p, u, spent
    <3>3. /\ d \in Usages /\ z \in Usages /\ p.units + d.units = z.units
          /\ z.units = IF u > p.units THEN u ELSE p.units
      BY <2>1, <3>1, DeltaIs
    <3> HIDE DEF d, z
    <3>4. z.units >= p.units /\ z.units <= spent
      BY <2>1, <3>1, <3>3
    <3>5. Usage!IsEmpty(d) => z.units = p.units
      BY <2>1, <3>3 DEF Usage!IsEmpty
    <3> QED BY <3>2, <3>3, <3>4, <3>5 DEF p, u, spent, d, z
  <2> QED BY <2>2, <2>3
<1>4. seen' = [a \in Territory |-> seen'[a]]
  BY <1>1
<1> QED BY <1>3, <1>4

LEMMA UsageRecorded ==
  ASSUME Inv, pc \notin Waiting, matchState # "aborted", NEW reads \in Reads,
         NEW time \in Nat, time >= lastTime, NEW next, RecordUsage(reads, time, next)
  PROVE  Quiet(time, next) /\ Metered
<1>1. /\ seen' \in [Territory -> Usages]
      /\ \A a \in Territory :
           /\ seen'[a].units >= seen[a].units /\ seen'[a].units <= worker[a].spent
           /\ ~Due(reads, a) => seen'[a].units = seen[a].units
           /\ Due(reads, a) =>
                /\ Usage!Delta(seen[a], Report(reads[a])) \in Usages
                /\ seen'[a].units =
                     seen[a].units + Usage!Delta(seen[a], Report(reads[a])).units
  BY UsageSeen
<1>2. /\ IsWorld(world) /\ DOMAIN world.agents = Territory /\ world.elapsed = lastTime
      /\ \A a \in Territory : world.agents[a].units = seen[a].units
      /\ seen \in [Territory -> Usages] /\ sequence \in Nat /\ reply = "ok"
  BY DEF Inv, LedgersOK, AgentsOK, TypeOK, PhaseOK
<1>3. CASE \A a \in Territory : ~Due(reads, a)
  <2>1. NoCall(next)
    BY <1>3 DEF RecordUsage
  <2>2. Quiet(time, next)
    BY <1>2, <2>1 DEF Quiet, NoCall, refereeVars
  <2>3. Metered
    BY <1>1, <1>2, <1>3, <2>1 DEF Metered, NoCall
  <2> QED BY <2>2, <2>3
<1>4. CASE ~(\A a \in Territory : ~Due(reads, a))
  <2> DEFINE n == Len(Ids)
             lists == [i \in 1..n |->
                         IF Due(reads, Ids[i])
                         THEN <<Charge(Ids[i], Usage!Delta(seen[Ids[i]], Report(reads[Ids[i]])))>>
                         ELSE <<>>]
             s == Joined(lists)
             v == World!ApplyAll(world, s)
             who == [i \in 1..n |-> Ids[i]]
             running == [i \in 1..n |-> world.agents[Ids[i]].running]
             units == [i \in 1..n |-> seen'[Ids[i]].units]
  <2>1. Call(Referee!Record(s, time), next)
    BY <1>4 DEF RecordUsage, Charges
  <2>2. Len(lists) = n /\ Len(lists) \in Nat /\ n \in Nat
    <3>1. DOMAIN lists = 1..n /\ n \in Nat
      BY IdsAre
    <3> HIDE DEF lists
    <3> QED BY <3>1
  <2>3. ASSUME NEW i \in 1..n
        PROVE  /\ lists[i] \in Seq(AgentEvents) /\ (Due(reads, Ids[i]) => lists[i] # <<>>)
               /\ Turn(lists[i], world, who[i], running[i], units[i])
    <3> DEFINE a == Ids[i]
               c == Usage!Delta(seen[a], Report(reads[a]))
               list == lists[i]
               more == world.agents[a].units + c.units
    <3>1. a \in Territory
      BY IdsAre
    <3>2. who[i] = a /\ running[i] = world.agents[a].running /\ units[i] = seen'[a].units
          /\ list = IF Due(reads, a) THEN <<Charge(a, c)>> ELSE <<>>
      OBVIOUS
    <3>3. CASE Due(reads, a)
      <4>1. c \in Usages /\ units[i] = more /\ list = <<Charge(a, c)>>
        BY <1>1, <1>2, <3>1, <3>2, <3>3
      <4> HIDE DEF a, c, list, lists, who, running, units
      <4>2. /\ <<Charge(a, c)>> \in Seq(AgentEvents) /\ <<Charge(a, c)>> # <<>>
            /\ Turn(<<Charge(a, c)>>, world, a, world.agents[a].running,
                    world.agents[a].units + c.units)
        BY <3>1, <4>1, ChargeTurn
      <4> QED BY <3>2, <4>1, <4>2 DEF list
    <3>4. CASE ~Due(reads, a)
      <4>1. units[i] = world.agents[a].units /\ list = <<>>
        BY <1>1, <1>2, <3>1, <3>2, <3>4
      <4> HIDE DEF a, c, list, lists, who, running, units
      <4>2. /\ <<>> \in Seq(AgentEvents)
            /\ Turn(<<>>, world, a, world.agents[a].running, world.agents[a].units)
        BY IdleTurn
      <4> QED BY <3>2, <3>4, <4>1, <4>2 DEF list, a
    <3> QED BY <3>3, <3>4
  <2>4. \A i \in 1..n : who[i] = Ids[i] /\ running[i] = world.agents[Ids[i]].running
                        /\ units[i] = seen'[Ids[i]].units
    OBVIOUS
  <2> HIDE DEF lists, who, running, units
  <2>5. Swept(v, world, n, who, running, units)
    <3>1. \A i \in 1..Len(lists) : who[i] \in DOMAIN world.agents /\ lists[i] \in Seq(AgentEvents)
                                   /\ Turn(lists[i], world, who[i], running[i], units[i])
      BY <1>2, <2>2, <2>3, <2>4, IdsAre
    <3>2. \A i, j \in 1..Len(lists) : who[i] = who[j] => i = j
      BY <2>2, <2>4, IdsAre
    <3>3. Swept(World!ApplyAll(world, Joined(lists)), world, Len(lists), who, running, units)
      BY <1>2, <2>2, <3>1, <3>2, TurnsSweep
    <3> QED BY <2>2, <3>3
  <2>6. s \in Seq(AgentEvents) /\ s # <<>>
    <3>1. \A i \in 1..Len(lists) : lists[i] \in Seq(AgentEvents)
      BY <2>2, <2>3
    <3>2. Joined(lists) \in Seq(AgentEvents)
      BY <2>2, <3>1, FoldJoined
    <3>3. PICK k \in 1..n : Due(reads, Ids[k])
      BY <1>4, IdsAre
    <3>4. lists[k] # <<>> /\ k \in 1..Len(lists)
      BY <2>2, <2>3, <3>3
    <3>5. Joined(lists) # <<>>
      BY <2>2, <3>1, <3>4, JoinedNotEmpty
    <3> QED BY <3>2, <3>5
  <2> HIDE DEF s
  <2>7. Recorded(s, v, time, next)
    <3>1. IsWorld(v)
      BY <2>5 DEF Swept
    <3> QED BY <2>1, <2>6, <3>1, RecordIs
  <2> HIDE DEF v, n
  <2>8. /\ UNCHANGED <<matchState, competitors, outcome>>
        /\ lastTime' = time /\ reply' = "ok" /\ sequence' \in Nat /\ pc' = next
        /\ IsWorld(world') /\ world'.match = v.match /\ world'.winner = v.winner
        /\ world'.territories = v.territories /\ world'.agents = v.agents
        /\ world'.elapsed = time
    BY <2>7 DEF Recorded, Stamped
  <2>9. Quiet(time, next)
    BY <1>2, <2>5, <2>8 DEF Quiet, Swept
  <2>10. ASSUME NEW a \in Territory
         PROVE  /\ world'.agents[a].running = world.agents[a].running
                /\ world'.agents[a].units = seen'[a].units
    <3>1. PICK i \in 1..n : a = Ids[i]
      BY IdsAre DEF n
    <3>2. v.agents[who[i]].running = running[i] /\ v.agents[who[i]].units = units[i]
      BY <2>5 DEF Swept
    <3>3. who[i] = a /\ running[i] = world.agents[a].running /\ units[i] = seen'[a].units
      BY <2>4, <3>1
    <3> QED BY <2>8, <3>2, <3>3
  <2>11. Metered
    BY <1>1, <2>10 DEF Metered
  <2> QED BY <2>9, <2>11
<1> QED BY <1>3, <1>4

LEMMA MeteredAgents ==
  ASSUME Inv, pc \notin Waiting, NEW next, next \notin Waiting, NEW time, Quiet(time, next),
         Metered, UNCHANGED agentVars
  PROVE  AgentsOK' /\ ChannelOK' /\ Running' = Running
<1>1. /\ DOMAIN world.agents = Territory /\ seen \in [Territory -> Usages]
      /\ worker \in [Territory -> WorkerRecord] /\ channel \in Seq(Results)
      /\ DOMAIN world'.agents = Territory /\ pc' \notin Waiting
      /\ worker' = worker /\ channel' = channel
  BY DEF Inv, AgentsOK, TypeOK, Quiet, agentVars
<1>2. \A i \in 1..Len(channel) : channel[i].agent \in Territory
  BY <1>1, ResultsAre
<1>3. ASSUME NEW a \in Territory
      PROVE  /\ world'.agents[a].running = world.agents[a].running
             /\ world'.agents[a].units = seen'[a].units
             /\ seen'[a].units <= worker[a].spent
             /\ seen[a].units >= worker[a].told => seen'[a].units >= worker[a].told
  <2>1. /\ seen[a].units \in Nat /\ seen'[a].units \in Nat /\ worker[a].told \in Nat
        /\ seen'[a].units >= seen[a].units
    BY <1>1 DEF Metered, Usages, WorkerRecord
  <2>2. seen[a].units >= worker[a].told => seen'[a].units >= worker[a].told
    BY <2>1
  <2> QED BY <2>2 DEF Metered
<1>4. AgentsOK'
  BY <1>1, <1>3 DEF Inv, AgentsOK
<1>5. ChannelOK'
  BY <1>1, <1>2, <1>3 DEF Inv, ChannelOK
<1> QED BY <1>3, <1>4, <1>5 DEF Running

(* Usage is read in the loop, and once more after the drain.               *)
LEMMA CheckpointInv == Inv /\ Checkpoint => Inv'
<1> SUFFICES ASSUME Inv, Checkpoint PROVE Inv'
  OBVIOUS
<1> DEFINE next == "loop"
<1>1. /\ pc = "checkpoint" /\ \E reads \in Reads : RecordUsage(reads, clock, next)
      /\ UNCHANGED <<clock, current, checks, frozen, drain, worker, channel, agentVars>>
  BY DEF Checkpoint, agentVars
<1>2. /\ matchState = IF outcome = None THEN "running" ELSE "finished"
      /\ lastTime <= clock /\ clock \in Nat
      /\ lastTime \in Nat /\ checks = {} /\ pc \notin Waiting
  BY <1>1 DEF Inv, PhaseOK, TypeOK, ChecksOK, Checking, LoopPhases, Waiting
<1>3. Quiet(clock, next) /\ Metered
  <2>1. clock >= lastTime /\ matchState # "aborted"
    BY <1>2
  <2> HIDE DEF next
  <2> QED BY <1>1, <1>2, <2>1, UsageRecorded
<1>4. pc' = next /\ lastTime' \in {lastTime, clock} /\ reply' = "ok" /\ sequence' \in Nat
      /\ UNCHANGED <<matchState, competitors, outcome>> /\ seen' \in [Territory -> Usages]
  BY <1>3 DEF Quiet, Metered
<1>5. LedgersOK' /\ DurableOK'
  BY <1>1, <1>3, QuietInv
<1>6. AgentsOK' /\ ChannelOK'
  <2>1. next \notin Waiting
    BY DEF Waiting
  <2> QED BY <1>1, <1>2, <1>3, <2>1, MeteredAgents
<1>7. TypeOK'
  BY <1>1, <1>2, <1>4 DEF Inv, TypeOK, Phases, LoopPhases
<1>8. PhaseOK'
  BY <1>1, <1>2, <1>4 DEF PhaseOK, LoopPhases, DrainPhases, Waiting
<1>9. ChecksOK' /\ DrainOK'
  BY <1>1, <1>2, <1>4 DEF ChecksOK, DrainOK, Checking
<1> QED BY <1>5, <1>6, <1>7, <1>8, <1>9 DEF Inv

LEMMA TallyInv == Inv /\ Tally => Inv'
<1> SUFFICES ASSUME Inv, Tally PROVE Inv'
  OBVIOUS
<1> DEFINE next == "close"
<1>1. /\ pc = "tally" /\ \E reads \in Reads : RecordUsage(reads, frozen, next)
      /\ UNCHANGED <<clock, current, checks, frozen, drain, worker, channel, agentVars>>
  BY DEF Tally, agentVars
<1>2. /\ outcome # None /\ matchState = "finished" /\ frozen = lastTime /\ lastTime <= clock
      /\ clock \in Nat /\ lastTime \in Nat /\ checks = {} /\ pc \notin Waiting
      /\ drain \in [pending : Nat, captured : Nat]
      /\ drain.captured + Cardinality(Running) = drain.pending
  BY <1>1, DrainIs
<1>3. Quiet(frozen, next) /\ Metered
  <2>1. frozen \in Nat /\ frozen >= lastTime /\ matchState # "aborted"
    BY <1>2
  <2> HIDE DEF next
  <2> QED BY <1>1, <1>2, <2>1, UsageRecorded
<1>4. pc' = next /\ lastTime' = lastTime /\ reply' = "ok" /\ sequence' \in Nat
      /\ UNCHANGED <<matchState, competitors, outcome>> /\ seen' \in [Territory -> Usages]
  BY <1>2, <1>3 DEF Quiet, Metered
<1>5. LedgersOK' /\ DurableOK'
  BY <1>1, <1>3, QuietInv
<1>6. AgentsOK' /\ ChannelOK' /\ Running' = Running
  <2>1. next \notin Waiting
    BY DEF Waiting
  <2> QED BY <1>1, <1>2, <1>3, <2>1, MeteredAgents
<1>7. TypeOK'
  BY <1>1, <1>2, <1>4 DEF Inv, TypeOK, Phases, DrainPhases
<1>8. PhaseOK'
  BY <1>1, <1>2, <1>4 DEF PhaseOK, LoopPhases, DrainPhases, Waiting
<1>9. ChecksOK'
  BY <1>1, <1>2, <1>4 DEF ChecksOK, Checking
<1>10. DrainOK'
  BY <1>1, <1>4, <1>6 DEF Inv, DrainOK
<1> QED BY <1>5, <1>6, <1>7, <1>8, <1>9, <1>10 DEF Inv

DrainEvent == [kind |-> "drain_started"]
DrainedEvent(captured, terminated) ==
  [kind |-> "drain_finished", captured |-> captured, terminated |-> terminated]

(* The drain begins: the clock is frozen, everyone running is pending.     *)
LEMMA FreezeInv == Inv /\ Freeze => Inv'
<1> SUFFICES ASSUME Inv, Freeze PROVE Inv'
  OBVIOUS
<1> DEFINE next == "drain"
           E == {DrainEvent}
           s == <<DrainEvent>>
<1>1. /\ pc = "freeze" /\ world.elapsed = lastTime /\ IsWorld(world)
      /\ outcome # None /\ matchState = "finished" /\ lastTime <= clock
      /\ clock \in Nat /\ lastTime \in Nat /\ checks = {} /\ pc \notin Waiting
  BY DEF Freeze, Inv, PhaseOK, TypeOK, ChecksOK, LedgersOK, Checking, DrainPhases, Waiting
<1>2. /\ frozen' = lastTime
      /\ drain' = [pending |-> Cardinality(Running), captured |-> 0]
      /\ Call(Referee!Record(s, lastTime), next)
      /\ UNCHANGED <<clock, current, checks, seen, worker, channel, agentVars>>
  BY <1>1 DEF Freeze, FrozenClock, DrainEvent, agentVars
<1>3. World!Apply(world, DrainEvent) = world
  <2> DEFINE e == DrainEvent
  <2>1. e.kind = "drain_started"
    BY DEF DrainEvent
  <2> HIDE DEF e
  <2>2. World!Apply(world, e) = world
    BY <2>1 DEF World!Apply
  <2> QED BY <2>2 DEF e
<1>4. s \in Seq(E) /\ s # <<>>
  OBVIOUS
<1>5. World!ApplyAll(world, s) = world
  BY <1>3, FoldOne
<1> HIDE DEF s, E, next
<1>6. Recorded(s, world, lastTime, next)
  <2>1. IsWorld(World!ApplyAll(world, s)) /\ lastTime >= lastTime
    BY <1>1, <1>5
  <2>2. Recorded(s, World!ApplyAll(world, s), lastTime, next)
    BY <1>1, <1>2, <1>4, <2>1, RecordIs
  <2> QED BY <1>5, <2>2
<1>7. /\ UNCHANGED <<matchState, competitors, outcome>>
      /\ lastTime' = lastTime /\ reply' = "ok" /\ sequence' \in Nat /\ pc' = "drain"
      /\ IsWorld(world') /\ world'.match = world.match /\ world'.winner = world.winner
      /\ world'.territories = world.territories /\ world'.agents = world.agents
      /\ world'.elapsed = lastTime
  BY <1>6 DEF Recorded, Stamped, next
<1>8. LedgersOK' /\ DurableOK'
  BY <1>1, <1>7, LedgersKept, DurableKept DEF Inv
<1>9. AgentsOK' /\ ChannelOK'
  BY <1>1, <1>2, <1>7, AgentsKept DEF Inv, Waiting
<1>10. Running' = Running
  BY <1>7 DEF Running
<1>11. drain' \in [pending : Nat, captured : Nat] /\ drain'.pending = Cardinality(Running)
       /\ drain'.captured = 0
  BY <1>2, RunningFinite
<1>12. TypeOK'
  BY <1>1, <1>2, <1>7, <1>11 DEF Inv, TypeOK, Phases, DrainPhases
<1>13. PhaseOK'
  BY <1>1, <1>2, <1>7 DEF PhaseOK, LoopPhases, DrainPhases, Waiting
<1>14. ChecksOK'
  BY <1>1, <1>2, <1>7 DEF ChecksOK, Checking
<1>15. DrainOK'
  BY <1>7, <1>10, <1>11, RunningFinite DEF DrainOK
<1> QED BY <1>8, <1>9, <1>12, <1>13, <1>14, <1>15 DEF Inv

(* Agents spend, and end.                                                  *)
LEMMA SpendInv ==
  ASSUME Inv, NEW a \in Territory, Spend(a)
  PROVE  Inv'
<1>1. /\ worker[a].state = "building"
      /\ worker' = [worker EXCEPT ![a].spent = @ + 1]
      /\ UNCHANGED <<matchState, competitors, sequence, lastTime, outcome, emitted, reply, pc,
                     clock, world, current, checks, seen, frozen, drain, channel>>
  BY DEF Spend, refereeVars, runnerVars
<1>2. worker \in [Territory -> WorkerRecord]
  BY DEF Inv, TypeOK
<1>3. /\ worker' \in [Territory -> WorkerRecord]
      /\ \A b \in Territory :
           /\ worker'[b].state = worker[b].state /\ worker'[b].told = worker[b].told
           /\ worker'[b].spent >= worker[b].spent
           /\ worker'[b].spent \in Nat /\ worker[b].spent \in Nat
           /\ worker[b].told \in Nat
  BY <1>1, <1>2 DEF WorkerRecord
<1>4. TypeOK'
  BY <1>1, <1>3 DEF Inv, TypeOK
<1>5. LedgersOK' /\ PhaseOK' /\ ChecksOK' /\ DurableOK'
  BY <1>1 DEF Inv, LedgersOK, PhaseOK, ChecksOK, DurableOK
<1>6. AgentsOK'
  <2>1. \A b \in Territory :
          /\ worker'[b].told <= worker'[b].spent /\ seen'[b].units <= worker'[b].spent
    <3>1. \A b \in Territory : seen[b].units \in Nat /\ seen[b].units <= worker[b].spent
                               /\ worker[b].told <= worker[b].spent
      BY DEF Inv, AgentsOK, TypeOK, Usages
    <3> QED BY <1>1, <1>3, <3>1
  <2> QED BY <1>1, <1>3, <2>1 DEF Inv, AgentsOK
<1>7. \A i \in 1..Len(channel) : channel[i].agent \in Territory
  BY ResultsAre DEF Inv, TypeOK
<1>8. ChannelOK'
  BY <1>1, <1>3, <1>7 DEF Inv, ChannelOK
<1>9. DrainOK'
  <2>1. Running' = Running
    BY <1>1 DEF Running
  <2> QED BY <1>1, <1>3, <2>1 DEF Inv, DrainOK
<1> QED BY <1>4, <1>5, <1>6, <1>8, <1>9 DEF Inv

LEMMA LonelySent ==
  ASSUME NEW rs \in Seq(Results), NEW r \in Results
  PROVE  /\ Append(rs, r) \in Seq(Results) /\ Len(Append(rs, r)) = Len(rs) + 1
         /\ Append(rs, r)[Len(rs) + 1] = r
         /\ \A i \in 1..Len(rs) : Append(rs, r)[i] = rs[i]
OBVIOUS

LEMMA EndInv ==
  ASSUME Inv, NEW a \in Territory, NEW status \in Status, End(a, status)
  PROVE  Inv'
<1>1. PICK units \in {0, worker[a].spent} :
        /\ worker' = [worker EXCEPT ![a].state = "ended", ![a].told = units]
        /\ channel' = Append(channel, [agent |-> a, status |-> status, units |-> units])
  BY DEF End
<1>2. /\ worker[a].state = "building"
      /\ UNCHANGED <<matchState, competitors, sequence, lastTime, outcome, emitted, reply, pc,
                     clock, world, current, checks, seen, frozen, drain>>
  BY DEF End, refereeVars, runnerVars
<1>3. worker \in [Territory -> WorkerRecord] /\ channel \in Seq(Results)
  BY DEF Inv, TypeOK
<1>4. worker[a].spent \in Nat /\ units \in Nat /\ units <= worker[a].spent
  BY <1>3 DEF WorkerRecord
<1>5. /\ worker' \in [Territory -> WorkerRecord]
      /\ worker'[a].state = "ended" /\ worker'[a].told = units
      /\ worker'[a].spent = worker[a].spent
      /\ \A b \in Territory \ {a} : worker'[b] = worker[b]
  BY <1>1, <1>3, <1>4 DEF WorkerRecord
<1> DEFINE r == [agent |-> a, status |-> status, units |-> units]
           n == Len(channel)
<1>6. r \in Results /\ r.agent = a /\ r.units = units
  BY <1>4 DEF Results
<1>7. channel' = Append(channel, r)
  BY <1>1
<1> HIDE DEF r
<1>8. /\ channel' \in Seq(Results) /\ Len(channel') = n + 1 /\ n \in Nat
      /\ channel'[n + 1] = r
      /\ \A i \in 1..n : channel'[i] = channel[i] /\ channel[i].agent \in Territory
  BY <1>3, <1>6, <1>7, LonelySent, ResultsAre
<1>9. pc \notin Waiting /\ world.agents[a].running /\ pc \notin {"tally", "close", "done"}
  BY <1>2 DEF Inv, AgentsOK, DrainOK
<1>10. \A i \in 1..n : channel[i].agent # a
  BY <1>2 DEF Inv, ChannelOK
<1>11. TypeOK'
  BY <1>2, <1>5, <1>8 DEF Inv, TypeOK
<1>12. LedgersOK' /\ PhaseOK' /\ ChecksOK' /\ DurableOK'
  BY <1>2 DEF Inv, LedgersOK, PhaseOK, ChecksOK, DurableOK
<1> HIDE DEF n
<1>13. n + 1 \in 1..Len(channel') /\ \A i \in 1..n : i \in 1..Len(channel')
  BY <1>8
<1>14. AgentsOK'
  <2>1. ASSUME NEW b \in Territory
        PROVE  /\ worker'[b].told <= worker'[b].spent
               /\ seen'[b].units <= worker'[b].spent
               /\ worker'[b].state = "building" => world'.agents[b].running
               /\ worker'[b].state = "ended" =>
                    \/ seen'[b].units >= worker'[b].told
                    \/ \E i \in 1..Len(channel') : channel'[i].agent = b
    <3>1. CASE b = a
      <4>1. seen[a].units <= worker[a].spent
        BY DEF Inv, AgentsOK
      <4> QED BY <1>2, <1>4, <1>5, <1>6, <1>8, <1>13, <3>1, <4>1
    <3>2. CASE b # a
      <4>1. worker'[b] = worker[b]
        BY <1>5, <3>2
      <4>2. (\E i \in 1..n : channel[i].agent = b) =>
              \E i \in 1..Len(channel') : channel'[i].agent = b
        BY <1>8, <1>13
      <4> QED BY <1>2, <4>1, <4>2 DEF Inv, AgentsOK, n
    <3> QED BY <3>1, <3>2
  <2> QED BY <1>2, <1>9, <2>1 DEF Inv, AgentsOK
<1>15. \A i \in 1..Len(channel') : i \in 1..n \/ i = n + 1
  BY <1>8
<1>16. ChannelOK'
  <2>1. ASSUME NEW i \in 1..Len(channel')
        PROVE  /\ worker'[channel'[i].agent].state = "ended"
               /\ channel'[i].units = worker'[channel'[i].agent].told
               /\ world'.agents[channel'[i].agent].running
    <3>1. CASE i \in 1..n
      BY <1>2, <1>5, <1>8, <1>10, <3>1 DEF Inv, ChannelOK, n
    <3>2. CASE i = n + 1
      BY <1>2, <1>5, <1>6, <1>8, <1>9, <3>2
    <3> QED BY <1>15, <3>1, <3>2
  <2>2. ASSUME NEW i \in 1..Len(channel'), NEW j \in 1..Len(channel'),
               channel'[i].agent = channel'[j].agent
        PROVE  i = j
    <3>1. CASE i \in 1..n /\ j \in 1..n
      BY <1>8, <2>2, <3>1 DEF Inv, ChannelOK, n
    <3>2. CASE i = n + 1 /\ j = n + 1
      BY <3>2
    <3>3. CASE i \in 1..n /\ j = n + 1
      BY <1>6, <1>8, <1>10, <2>2, <3>3
    <3>4. CASE i = n + 1 /\ j \in 1..n
      BY <1>6, <1>8, <1>10, <2>2, <3>4
    <3> QED BY <1>15, <3>1, <3>2, <3>3, <3>4
  <2> QED BY <1>2, <1>9, <2>1, <2>2 DEF ChannelOK
<1>17. DrainOK'
  <2>1. Running' = Running
    BY <1>2 DEF Running
  <2> QED BY <1>2, <1>9, <2>1 DEF Inv, DrainOK
<1> QED BY <1>11, <1>12, <1>14, <1>16, <1>17 DEF Inv

LEMMA WiderSeq ==
  ASSUME NEW S, NEW T, S \subseteq T, NEW s \in Seq(S)
  PROVE  s \in Seq(T)
OBVIOUS

LEMMA Concatenated ==
  ASSUME NEW S, NEW s \in Seq(S), NEW t \in Seq(S)
  PROVE  /\ Len(s) \in Nat /\ Len(s \o t) = Len(s) + Len(t)
         /\ \A i \in 1..Len(t) : (s \o t)[Len(s) + i] = t[i]
OBVIOUS

LEMMA LastOf ==
  ASSUME NEW S, NEW s \in Seq(S), NEW e \in S
  PROVE  (s \o <<e>>)[Len(s \o <<e>>)] = e
<1> DEFINE t == <<e>>
           st == s \o t
<1>1. t \in Seq(S) /\ Len(t) = 1 /\ t[1] = e
  OBVIOUS
<1> HIDE DEF t
<1>2. Len(s) \in Nat /\ Len(st) = Len(s) + Len(t)
      /\ \A i \in 1..Len(t) : st[Len(s) + i] = t[i]
  <2>1. t \in Seq(S)
    BY <1>1
  <2> QED BY <2>1, Concatenated
<1> HIDE DEF st
<1>3. st[Len(st)] = e
  BY <1>1, <1>2
<1> QED BY <1>3 DEF st, t

(* Those the drain left running are outraced at its end.                   *)
LEMMA UnfinishedIs ==
  ASSUME Inv, pc \notin Waiting
  PROVE  /\ Unfinished \in Seq(AgentEvents)
         /\ LET v == World!ApplyAll(world, Unfinished) IN
            /\ IsWorld(v) /\ v.match = world.match /\ v.winner = world.winner
            /\ v.territories = world.territories /\ DOMAIN v.agents = Territory
            /\ \A a \in Territory : /\ ~v.agents[a].running
                                    /\ v.agents[a].units = world.agents[a].units
<1> DEFINE n == Len(Ids)
           lists == [i \in 1..n |->
                       IF Ids[i] \in Running THEN <<Outraced(Ids[i])>> ELSE <<>>]
           v == World!ApplyAll(world, Joined(lists))
           who == [i \in 1..n |-> Ids[i]]
           running == [i \in 1..n |->
                         IF Ids[i] \in Running THEN FALSE ELSE world.agents[Ids[i]].running]
           units == [i \in 1..n |-> world.agents[Ids[i]].units]
<1>1. Unfinished = Joined(lists)
  BY DEF Unfinished
<1>2. IsWorld(world) /\ DOMAIN world.agents = Territory
  BY DEF Inv, LedgersOK, AgentsOK
<1>3. Len(lists) = n /\ Len(lists) \in Nat /\ n \in Nat
  <2>1. DOMAIN lists = 1..n /\ n \in Nat
    BY IdsAre
  <2> HIDE DEF lists
  <2> QED BY <2>1
<1>4. ASSUME NEW i \in 1..n
      PROVE  /\ lists[i] \in Seq(AgentEvents)
             /\ Turn(lists[i], world, who[i], running[i], units[i])
  <2> DEFINE a == Ids[i]
             list == lists[i]
  <2>1. a \in Territory
    BY IdsAre
  <2>2. /\ who[i] = a /\ units[i] = world.agents[a].units
        /\ list = IF a \in Running THEN <<Outraced(a)>> ELSE <<>>
        /\ running[i] = IF a \in Running THEN FALSE ELSE world.agents[a].running
    OBVIOUS
  <2>3. CASE a \in Running
    <3>1. list = <<Outraced(a)>> /\ running[i] = FALSE
      BY <2>2, <2>3
    <3> HIDE DEF a, list, lists, who, running, units
    <3>2. /\ <<Outraced(a)>> \in Seq(AgentEvents)
          /\ Turn(<<Outraced(a)>>, world, a, FALSE, world.agents[a].units)
      BY <2>1, OutracedTurn
    <3> QED BY <2>2, <3>1, <3>2 DEF list
  <2>4. CASE a \notin Running
    <3>1. list = <<>> /\ running[i] = world.agents[a].running
      BY <2>2, <2>4
    <3> HIDE DEF a, list, lists, who, running, units
    <3>2. /\ <<>> \in Seq(AgentEvents)
          /\ Turn(<<>>, world, a, world.agents[a].running, world.agents[a].units)
      BY IdleTurn
    <3> QED BY <2>2, <3>1, <3>2 DEF list
  <2> QED BY <2>3, <2>4
<1>5. \A i \in 1..n :
        /\ who[i] = Ids[i] /\ units[i] = world.agents[Ids[i]].units
        /\ running[i] = IF Ids[i] \in Running THEN FALSE ELSE world.agents[Ids[i]].running
  OBVIOUS
<1> HIDE DEF lists, who, running, units
<1>6. Swept(v, world, n, who, running, units)
  <2>1. \A i \in 1..Len(lists) : who[i] \in DOMAIN world.agents /\ lists[i] \in Seq(AgentEvents)
                                 /\ Turn(lists[i], world, who[i], running[i], units[i])
    BY <1>2, <1>3, <1>4, <1>5, IdsAre
  <2>2. \A i, j \in 1..Len(lists) : who[i] = who[j] => i = j
    BY <1>3, <1>5, IdsAre
  <2>3. Swept(World!ApplyAll(world, Joined(lists)), world, Len(lists), who, running, units)
    BY <1>2, <1>3, <2>1, <2>2, TurnsSweep
  <2> QED BY <1>3, <2>3
<1>7. Joined(lists) \in Seq(AgentEvents)
  <2>1. \A i \in 1..Len(lists) : lists[i] \in Seq(AgentEvents)
    BY <1>3, <1>4
  <2> QED BY <1>3, <2>1, FoldJoined
<1> HIDE DEF v, n
<1>8. ASSUME NEW a \in Territory
      PROVE  ~v.agents[a].running /\ v.agents[a].units = world.agents[a].units
  <2>1. PICK i \in 1..n : a = Ids[i]
    BY IdsAre DEF n
  <2>2. v.agents[who[i]].running = running[i] /\ v.agents[who[i]].units = units[i]
    BY <1>6 DEF Swept
  <2>3. who[i] = a /\ units[i] = world.agents[a].units
        /\ running[i] = IF a \in Running THEN FALSE ELSE world.agents[a].running
    BY <1>5, <2>1
  <2>4. a \notin Running => ~world.agents[a].running
    BY DEF Running
  <2> QED BY <2>2, <2>3, <2>4
<1>9. /\ IsWorld(v) /\ v.match = world.match /\ v.winner = world.winner
      /\ v.territories = world.territories /\ DOMAIN v.agents = Territory
  BY <1>2, <1>6 DEF Swept
<1> QED BY <1>1, <1>7, <1>8, <1>9 DEF v

(* The drain is closed: whoever is left is outraced and counted.           *)
LEMMA CloseInv == Inv /\ Close => Inv'
<1> SUFFICES ASSUME Inv, Close PROVE Inv'
  OBVIOUS
<1> DEFINE next == "done"
           left == Cardinality(Running)
           e == DrainedEvent(drain.captured, left)
           E == AgentEvents \cup {e}
           p == Unfinished
           s == p \o <<e>>
           v == World!ApplyAll(world, p)
<1>1. pc = "close"
  BY DEF Close
<1>2. /\ outcome # None /\ matchState = "finished" /\ frozen = lastTime /\ lastTime <= clock
      /\ clock \in Nat /\ lastTime \in Nat /\ checks = {} /\ pc \notin Waiting
      /\ drain \in [pending : Nat, captured : Nat]
      /\ drain.captured + left = drain.pending
  BY <1>1, DrainIs
<1>3. /\ Call(Referee!Record(s, lastTime), next)
      /\ UNCHANGED <<clock, current, checks, seen, frozen, drain, worker, channel, agentVars>>
  BY <1>2 DEF Close, DrainedEvent, runnerVars, agentVars
<1>4. /\ p \in Seq(AgentEvents)
      /\ IsWorld(v) /\ v.match = world.match /\ v.winner = world.winner
      /\ v.territories = world.territories /\ DOMAIN v.agents = Territory
      /\ \A a \in Territory : ~v.agents[a].running /\ v.agents[a].units = world.agents[a].units
  BY <1>2, UnfinishedIs
<1>5. World!Apply(v, e) = v
  <2>1. e.kind = "drain_finished"
    BY DEF DrainedEvent
  <2> HIDE DEF e, v
  <2> QED BY <2>1 DEF World!Apply
<1>6. /\ e.captured = drain.captured /\ e.terminated = left
  BY DEF DrainedEvent
<1> HIDE DEF e, p, next, left
<1>7. p \in Seq(E) /\ e \in E
  <2>1. e \in E /\ AgentEvents \subseteq E
    OBVIOUS
  <2> HIDE DEF E
  <2> QED BY <1>4, <2>1, WiderSeq
<1> HIDE DEF E
<1>8. /\ World!ApplyAll(world, s) = v /\ s \in Seq(E) /\ s # <<>>
      /\ s[Len(s)] = e
  BY <1>5, <1>7, FoldBehind, LastOf
<1> HIDE DEF s, v
<1>9. Recorded(s, v, lastTime, next)
  <2>1. IsWorld(World!ApplyAll(world, s)) /\ lastTime >= lastTime
    BY <1>2, <1>4, <1>8
  <2>2. Recorded(s, World!ApplyAll(world, s), lastTime, next)
    BY <1>2, <1>3, <1>8, <2>1, RecordIs
  <2> QED BY <1>8, <2>2
<1>10. /\ UNCHANGED <<matchState, competitors, outcome>>
       /\ lastTime' = lastTime /\ reply' = "ok" /\ sequence' \in Nat /\ pc' = "done"
       /\ IsWorld(world') /\ world'.match = world.match /\ world'.winner = world.winner
       /\ world'.territories = world.territories /\ world'.agents = v.agents
       /\ world'.elapsed = lastTime /\ emitted'[Len(emitted')] = e
  BY <1>4, <1>8, <1>9 DEF Recorded, Stamped, next
<1>11. LedgersOK' /\ DurableOK'
  BY <1>1, <1>10, LedgersKept, DurableKept DEF Inv
<1>12. channel = <<>> /\ \A a \in Territory : worker[a].state # "building"
  BY <1>1 DEF Inv, DrainOK
<1>13. AgentsOK'
  <2>1. DOMAIN world.agents = Territory
    BY <1>2 DEF Inv, AgentsOK
  <2>2. DOMAIN world'.agents = Territory
        /\ \A a \in Territory : world'.agents[a].units = seen'[a].units
    BY <1>3, <1>4, <1>10, <2>1 DEF Inv, AgentsOK
  <2>3. pc' \notin Waiting
    BY <1>10 DEF Waiting
  <2> QED BY <1>3, <1>12, <2>2, <2>3 DEF Inv, AgentsOK
<1>14. ChannelOK'
  BY <1>3, <1>12 DEF ChannelOK
<1>15. TypeOK'
  BY <1>2, <1>3, <1>10 DEF Inv, TypeOK, Phases, DrainPhases
<1>16. PhaseOK'
  BY <1>1, <1>2, <1>3, <1>10 DEF PhaseOK, LoopPhases, DrainPhases, Waiting
<1>17. ChecksOK'
  BY <1>2, <1>3, <1>10 DEF ChecksOK, Checking
<1>18. DrainOK'
  <2>1. Running' = {}
    BY <1>4, <1>10 DEF Running
  <2>2. drain' = drain /\ e.captured + e.terminated = drain.pending
    BY <1>2, <1>3, <1>6
  <2> QED BY <1>3, <1>10, <1>12, <2>1, <2>2 DEF DrainOK
<1> QED BY <1>11, <1>13, <1>14, <1>15, <1>16, <1>17, <1>18 DEF Inv

-----------------------------------------------------------------------------
(* Every step keeps the invariant.                                         *)
LEMMA InvNext == Inv /\ [Next]_vars => Inv'
<1> SUFFICES ASSUME Inv, [Next]_vars PROVE Inv'
  OBVIOUS
<1>1. CASE Boot
  BY <1>1, BootInv
<1>2. CASE Register
  BY <1>2, RegisterInv
<1>3. CASE Tick
  BY <1>3, TickInv
<1>4. CASE Interrupt
  BY <1>4, InterruptInv
<1>5. CASE Collect
  BY <1>5, CollectInv
<1>6. CASE NoContest
  BY <1>6, NoContestInv
<1>7. CASE Contest
  BY <1>7, ContestInv
<1>8. CASE Sweep
  BY <1>8, SweepInv
<1>9. CASE Begin
  BY <1>9, BeginInv
<1>10. CASE ChecksDone
  BY <1>10, ChecksDoneInv
<1>11. CASE \E t \in Territory : Verdict(t) \/ RebootLost(t)
  <2>1. PICK t \in Territory : Verdict(t) \/ RebootLost(t)
    BY <1>11
  <2>2. CASE Verdict(t)
    BY <2>2, VerdictInv
  <2>3. CASE RebootLost(t)
    BY <2>3, RebootLostInv
  <2> QED BY <2>1, <2>2, <2>3
<1>12. CASE Checkpoint
  BY <1>12, CheckpointInv
<1>13. CASE Expire
  BY <1>13, ExpireInv
<1>14. CASE Finished
  BY <1>14, FinishedInv
<1>15. CASE Freeze
  BY <1>15, FreezeInv
<1>16. CASE Receive
  BY <1>16, ReceiveInv
<1>17. CASE DrainOver
  BY <1>17, DrainOverInv
<1>18. CASE Tally
  BY <1>18, TallyInv
<1>19. CASE Close
  BY <1>19, CloseInv
<1>20. CASE Elapse
  BY <1>20, ElapseInv
<1>21. CASE Agents
  <2>1. PICK a \in Territory : Spend(a) \/ \E status \in Status : End(a, status)
    BY <1>21 DEF Agents
  <2>2. CASE Spend(a)
    BY <2>2, SpendInv
  <2>3. CASE \E status \in Status : End(a, status)
    BY <2>3, EndInv
  <2> QED BY <2>1, <2>2, <2>3
<1>22. CASE UNCHANGED vars
  <2>1. UNCHANGED <<matchState, competitors, sequence, lastTime, outcome, emitted, reply, pc,
                    clock, world, current, checks, seen, frozen, drain, worker, channel>>
    BY <1>22 DEF vars, refereeVars, runnerVars, agentVars
  <2>2. TypeOK' /\ LedgersOK' /\ PhaseOK' /\ ChecksOK' /\ DurableOK'
    BY <2>1 DEF Inv, TypeOK, LedgersOK, PhaseOK, ChecksOK, DurableOK
  <2>3. AgentsOK' /\ ChannelOK'
    BY <2>1 DEF Inv, AgentsOK, ChannelOK
  <2>4. DrainOK'
    <3>1. Running' = Running
      BY <2>1 DEF Running
    <3> QED BY <2>1, <3>1 DEF Inv, DrainOK
  <2> QED BY <2>2, <2>3, <2>4 DEF Inv
<1> QED
  BY <1>1, <1>2, <1>3, <1>4, <1>5, <1>6, <1>7, <1>8, <1>9, <1>10, <1>11, <1>12, <1>13, <1>14,
     <1>15, <1>16, <1>17, <1>18, <1>19, <1>20, <1>21, <1>22 DEF Next, Runner, Stopped

(* In every state a match reaches the invariant holds: the two ledgers     *)
(* agree, the clocks are in order, and each agent's account stands where   *)
(* its result on the way says.                                             *)
THEOREM InvHolds == Spec => []Inv
<1>1. Init => Inv
  BY InvInit
<1>2. Inv /\ [Next]_vars => Inv'
  BY InvNext
<1> QED BY <1>1, <1>2, PTL DEF Spec

(* The referee refuses no call of the runner while the match is not        *)
(* aborted: no append of what agents did, of usage or of the drain is      *)
(* dated before the last one.                                              *)
THEOREM NeverRefused == Spec => []RefereeNeverRefuses
<1>1. Inv => RefereeNeverRefuses
  BY DEF Inv, PhaseOK, RefereeNeverRefuses
<1> QED BY <1>1, InvHolds, PTL

(* The world reduced from the events and the referee's own records say the *)
(* same of match, winner, clock and every competitor, after every step.    *)
THEOREM LedgersAgree == Spec => []WorldFollowsReferee
<1>1. Inv => WorldFollowsReferee
  BY DEF Inv, LedgersOK, Agrees, WorldFollowsReferee
<1> QED BY <1>1, InvHolds, PTL

(* Every agent that was running when the drain began is counted once,      *)
(* captured or terminated, and none is left running.                       *)
THEOREM AgentsCounted == Spec => []EveryAgentCounted
<1>1. Inv => EveryAgentCounted
  BY DEF Inv, DrainOK, EveryAgentCounted
<1> QED BY <1>1, InvHolds, PTL

(* No agent is ever charged more than it spent, and at the end each result *)
(* received is covered by the charges.                                     *)
THEOREM ChargedOnce == Spec => []UsageChargedOnce
<1>1. Inv => UsageChargedOnce
  <2> SUFFICES ASSUME Inv, NEW a \in DOMAIN world.agents
               PROVE  /\ world.agents[a].units <= worker[a].spent
                      /\ pc = "done" /\ worker[a].state = "ended"
                           => world.agents[a].units >= worker[a].told
    BY DEF UsageChargedOnce
  <2>1. a \in Territory /\ world.agents[a].units = seen[a].units
    BY DEF Inv, AgentsOK
  <2>2. pc = "done" => Len(channel) = 0
    BY DEF Inv, DrainOK
  <2>3. pc = "done" => ~ \E i \in 1..Len(channel) : channel[i].agent = a
    BY <2>2
  <2> QED BY <2>1, <2>3 DEF Inv, AgentsOK
<1> QED BY <1>1, InvHolds, PTL

-----------------------------------------------------------------------------
(* The match implements Race.  Its phase, scored and champion are those of *)
(* the world; the invariant says they are the referee's.                   *)

Champion(o) == IF o = None THEN None ELSE o.winner

Viewed ==
  /\ world.match = matchState /\ world.winner = Champion(outcome)
  /\ \A t \in Territory : Scored(t) = competitors[t].passed

LEMMA ViewIs == Inv => Viewed
<1> SUFFICES ASSUME Inv PROVE Viewed
  OBVIOUS
<1>1. world.match = matchState /\ world.winner = Champion(outcome)
  BY DEF Inv, LedgersOK, Champion
<1>2. CASE pc = "boot"
  <2>1. DOMAIN world.territories = {} /\ \A t \in Territory : competitors[t].passed = {}
    BY <1>2 DEF Inv, LedgersOK, PhaseOK
  <2> QED BY <1>1, <2>1 DEF Scored, Viewed
<1>3. CASE pc # "boot"
  <2>1. DOMAIN world.territories = Territory
        /\ \A t \in Territory : {m \in DOMAIN world.territories[t].milestones :
                                    world.territories[t].milestones[m].passed}
                                  = competitors[t].passed
    BY <1>3 DEF Inv, LedgersOK, Agrees
  <2> QED BY <1>1, <2>1 DEF Scored, Milestones, Viewed
<1> QED BY <1>2, <1>3

(* Steps that nobody who watches the race sees.                            *)
LEMMA UnseenIs ==
  ASSUME Viewed, Viewed', UNCHANGED <<matchState, outcome>>,
         \A t \in Territory : competitors'[t].passed = competitors[t].passed
  PROVE  UNCHANGED Promise!vars
<1>1. world'.match = world.match /\ world'.winner = world.winner
  BY DEF Champion, Viewed
<1>2. \A t \in Territory : Scored(t)' = Scored(t)
  BY DEF Viewed
<1>3. [t \in Territory |-> Scored(t)]' = [t \in Territory |-> Scored(t)]
  BY <1>2
<1> QED BY <1>1, <1>3 DEF Promise!vars

LEMMA QuietIsUnseen ==
  ASSUME Viewed, Viewed', UNCHANGED <<matchState, competitors, outcome>>
  PROVE  UNCHANGED Promise!vars
BY UnseenIs

LEMMA RaceInit ==
  ASSUME Init
  PROVE  Promise!Init
<1>1. world = World!DefaultWorld
  BY DEF Init
<1>2. DOMAIN world.territories = {} /\ world.match = "preparing" /\ world.winner = None
  BY <1>1, DefaultsAre
<1>3. \A t \in Territory : Scored(t) = {}
  BY <1>2 DEF Scored
<1> QED BY <1>2, <1>3 DEF Promise!Init

(* The calls of the referee as steps of Race.                              *)
LEMMA BootRaces ==
  ASSUME Inv, Viewed, Viewed', Boot
  PROVE  Promise!Next
<1>1. matchState = "preparing" /\ Referee!Start
  BY DEF Boot, Call, Inv, PhaseOK
<1>2. /\ matchState' = "running" /\ outcome' = outcome
      /\ competitors' = [t \in Referee!Territory |-> [competitors[t] EXCEPT !.state = "building"]]
  BY <1>1 DEF Referee!Start
<1>3. \A t \in Territory : competitors'[t].passed = competitors[t].passed
  <2>1. \A t \in Territory : competitors[t] \in Referee!CompetitorRecord
    BY DEF Inv, TypeOK
  <2> QED BY <1>2, <2>1 DEF Referee!Territory, Territory, Referee!CompetitorRecord
<1>4. world.match = "preparing" /\ world'.match = "running" /\ world'.winner = world.winner
  BY <1>1, <1>2 DEF Viewed, Champion
<1>5. \A t \in Territory : Scored(t)' = Scored(t)
  BY <1>3 DEF Viewed
<1>6. [t \in Territory |-> Scored(t)]' = [t \in Territory |-> Scored(t)]
  BY <1>5
<1>7. Promise!Start
  BY <1>4, <1>6 DEF Promise!Start
<1> QED BY <1>7 DEF Promise!Next

LEMMA AbortRaces ==
  ASSUME Viewed, Viewed', NEW time, Referee!Abort(time)
  PROVE  [Promise!Next]_Promise!vars
<1>1. CASE Referee!Refused(time)
  BY <1>1, QuietIsUnseen DEF Referee!Refused
<1>2. CASE matchState = "running" /\ matchState' = "aborted" /\ UNCHANGED <<competitors, outcome>>
  <2>1. world.match = "running" /\ world'.match = "aborted" /\ world'.winner = world.winner
    BY <1>2 DEF Viewed, Champion
  <2>2. \A t \in Territory : Scored(t)' = Scored(t)
    BY <1>2 DEF Viewed
  <2>3. [t \in Territory |-> Scored(t)]' = [t \in Territory |-> Scored(t)]
    BY <2>2
  <2>4. Promise!Abort
    BY <2>1, <2>3 DEF Promise!Abort
  <2> QED BY <2>4 DEF Promise!Next
<1> QED BY <1>1, <1>2 DEF Referee!Abort, Referee!Accepts

LEMMA ExpireRaces ==
  ASSUME Viewed, Viewed', Expire
  PROVE  [Promise!Next]_Promise!vars
<1> DEFINE w == Referee!Winner(competitors)
<1>1. Referee!Finish(clock)
  BY DEF Expire, Call
<1>2. CASE Referee!Refused(clock)
  BY <1>2, QuietIsUnseen DEF Referee!Refused
<1>3. CASE /\ matchState = "running" /\ matchState' = "finished" /\ outcome' = [winner |-> w]
           /\ UNCHANGED competitors
  <2>1. w \in Territory \cup {None}
    BY WinnerIs
  <2> HIDE DEF w
  <2>2. outcome' # None /\ outcome'.winner = w
    BY <1>3, <2>1, NoneIsNothing
  <2>3. world.match = "running" /\ world'.match = "finished" /\ world'.winner = w
    BY <1>3, <2>2 DEF Viewed, Champion
  <2>4. \A t \in Territory : Scored(t)' = Scored(t)
    BY <1>3 DEF Viewed
  <2>5. [t \in Territory |-> Scored(t)]' = [t \in Territory |-> Scored(t)]
    BY <2>4
  <2>6. Promise!Expire
    BY <2>1, <2>3, <2>5 DEF Promise!Expire
  <2> QED BY <2>6 DEF Promise!Next
<1> QED BY <1>1, <1>2, <1>3 DEF Referee!Finish, Referee!Accepts

(* The only durable competitor sorts first, ties with nobody, and wins.    *)
LEMMA OnlyDurableWins ==
  ASSUME NEW c, NEW t \in Territory, c[t].durableAt # None,
         \A u \in Territory \ {t} : c[u].durableAt = None
  PROVE  Referee!Winner(c) = t
<1> DEFINE T == Referee!Territory
           clear == {x \in T :
                       /\ Referee!FirstOf(c, x, T)
                       /\ \A u \in T \ {x} :
                            Referee!FirstOf(c, u, T \ {x}) => ~Referee!Tied(c, x, u)}
<1>1. T = Territory
  BY DEF Territory, Referee!Territory
<1>2. Referee!Winner(c) = IF clear = {} THEN None ELSE CHOOSE x \in clear : TRUE
  BY DEF Referee!Winner
<1> HIDE DEF T
<1>3. Referee!FirstOf(c, t, T)
  BY <1>1 DEF Referee!FirstOf, Referee!SortsBefore
<1>4. \A u \in T \ {t} : ~Referee!Tied(c, t, u)
  BY <1>1 DEF Referee!Tied
<1>5. \A x \in T \ {t} : ~Referee!FirstOf(c, x, T)
  BY <1>1 DEF Referee!FirstOf, Referee!SortsBefore, Referee!Tied
<1>6. clear = {t}
  BY <1>1, <1>3, <1>4, <1>5
<1> HIDE DEF clear
<1> QED BY <1>2, <1>6

LEMMA BeginRaces ==
  ASSUME Inv, Viewed, Viewed', Begin
  PROVE  UNCHANGED Promise!vars
<1> DEFINE m == Contract[current]
           eligible == {t \in Territory : Eligible(t, m)}
           first == Min(eligible)
<1>1. CASE eligible = {}
  BY <1>1, QuietIsUnseen DEF Begin, NoCall, refereeVars
<1>2. CASE eligible # {}
  <2>1. Referee!BeginMilestone(first, m, clock)
    BY <1>2 DEF Begin, Call
  <2> HIDE DEF first, m
  <2>2. UNCHANGED <<matchState, outcome>>
        /\ (competitors' = competitors
            \/ (first \in Referee!Territory
                /\ competitors' = [competitors EXCEPT ![first].state = "verifying"]))
    BY <2>1 DEF Referee!BeginMilestone, Referee!Refused, Referee!UnknownTerritory
  <2>3. competitors \in [Territory -> Referee!CompetitorRecord]
    BY DEF Inv, TypeOK
  <2>4. \A t \in Territory : competitors'[t].passed = competitors[t].passed
    BY <2>2, <2>3 DEF Referee!CompetitorRecord
  <2> QED BY <2>2, <2>4, UnseenIs
<1> QED BY <1>1, <1>2

LEMMA PassRaces ==
  ASSUME Inv, Viewed, Viewed', NEW t \in Territory, t \in checks, pc = "verify",
         Referee!PassMilestone(t, Contract[current], Points[Contract[current]], clock)
  PROVE  [Promise!Next]_Promise!vars
<1> DEFINE m == Contract[current]
           ends == m = Completion /\ StopOnFirstDurable
           credit == Referee!Credit(competitors[t], m, Points[m], clock)
           after == [competitors EXCEPT ![t] = credit]
<1>1. /\ competitors \in [Territory -> Referee!CompetitorRecord] /\ clock \in Nat
      /\ m \in Milestone /\ m \notin competitors[t].passed
      /\ DependsOn[m] \subseteq competitors[t].passed
  BY ContractIs DEF Inv, TypeOK, ChecksOK, Checking
<1>2. \/ UNCHANGED <<matchState, competitors, outcome>>
      \/ /\ matchState = "running" /\ competitors' = after
         /\ matchState' = IF ends THEN "finished" ELSE matchState
         /\ outcome' = IF ends THEN [winner |-> Referee!Winner(after)] ELSE outcome
  BY <1>1 DEF Referee!PassMilestone, Referee!Refused, Referee!UnknownTerritory, Referee!Accepts
<1>3. CASE UNCHANGED <<matchState, competitors, outcome>>
  BY <1>3, QuietIsUnseen
<1>4. CASE /\ matchState = "running" /\ competitors' = after
           /\ matchState' = IF ends THEN "finished" ELSE matchState
           /\ outcome' = IF ends THEN [winner |-> Referee!Winner(after)] ELSE outcome
  <2>1. /\ credit.passed = competitors[t].passed \cup {m}
        /\ credit.durableAt = IF m = Completion THEN clock ELSE competitors[t].durableAt
    BY DEF Referee!Credit
  <2> HIDE DEF credit
  <2>2. after[t] = credit /\ \A u \in Territory \ {t} : after[u] = competitors[u]
    BY <1>1
  <2> HIDE DEF after
  <2>3. \A u \in Territory : Scored(u)' = IF u = t THEN Scored(u) \cup {m} ELSE Scored(u)
    BY <1>4, <2>1, <2>2 DEF Viewed
  <2>4. [u \in Territory |-> Scored(u)]' =
          [[u \in Territory |-> Scored(u)] EXCEPT ![t] = @ \cup {m}]
    BY <2>3
  <2>5. m \notin Scored(t) /\ DependsOn[m] \subseteq Scored(t) /\ world.match = "running"
    BY <1>1, <1>4 DEF Viewed
  <2>6. CASE ends
    <3>1. Referee!Winner(after) = t
      <4>1. \A u \in Territory : competitors[u].durableAt = None
        BY <1>4, <2>6 DEF Inv, DurableOK
      <4>2. after[t].durableAt # None
        BY <1>1, <2>1, <2>2, <2>6, NoneIsNothing
      <4> QED BY <2>2, <4>1, <4>2, OnlyDurableWins
    <3>2. outcome' # None /\ outcome'.winner = t
      BY <1>4, <2>6, <3>1, NoneIsNothing
    <3>3. world'.match = "finished" /\ world'.winner = t
      BY <1>4, <2>6, <3>2 DEF Viewed, Champion
    <3>4. Promise!Score(t, m)
      BY <2>4, <2>5, <2>6, <3>3 DEF Promise!Score
    <3> QED BY <1>1, <3>4 DEF Promise!Next
  <2>7. CASE ~ends
    <3>1. world'.match = world.match /\ world'.winner = world.winner
      BY <1>4, <2>7 DEF Viewed
    <3>2. Promise!Score(t, m)
      BY <2>4, <2>5, <2>7, <3>1 DEF Promise!Score
    <3> QED BY <1>1, <3>2 DEF Promise!Next
  <2> QED BY <2>6, <2>7
<1> QED BY <1>2, <1>3, <1>4

LEMMA VerdictRaces ==
  ASSUME Inv, Viewed, Viewed', NEW t \in Territory, Verdict(t)
  PROVE  [Promise!Next]_Promise!vars
<1>1. t \in checks /\ pc = "verify"
  BY DEF Verdict
<1>2. CASE Referee!PassMilestone(t, Contract[current], Points[Contract[current]], clock)
  BY <1>1, <1>2, PassRaces
<1>3. CASE Referee!FailMilestone(t, Contract[current], clock)
  BY <1>3, QuietIsUnseen DEF Referee!FailMilestone, Referee!Refused, Referee!UnknownTerritory
<1> QED BY <1>2, <1>3 DEF Verdict, Call

LEMMA ResultsUnseen ==
  ASSUME NEW rs, NEW time, NEW next, RecordResults(rs, time, next)
  PROVE  UNCHANGED <<matchState, competitors, outcome>>
BY DEF RecordResults, NoCall, refereeVars, Call, Referee!Record

LEMMA UsageUnseen ==
  ASSUME NEW reads, NEW time, NEW next, RecordUsage(reads, time, next)
  PROVE  UNCHANGED <<matchState, competitors, outcome>>
BY DEF RecordUsage, NoCall, refereeVars, Call, Referee!Record

LEMMA RaceNext ==
  ASSUME Inv, Viewed, Viewed', [Next]_vars
  PROVE  [Promise!Next]_Promise!vars
<1> DEFINE Quietly == UNCHANGED <<matchState, competitors, outcome>>
<1>1. CASE Boot
  BY <1>1, BootRaces
<1>2. CASE Interrupt \/ NoContest
  <2>1. Referee!Abort(clock)
    BY <1>2 DEF Interrupt, NoContest, Call
  <2> QED BY <2>1, AbortRaces
<1>3. CASE Begin
  BY <1>3, BeginRaces
<1>4. CASE Expire
  BY <1>4, ExpireRaces
<1>5. CASE \E t \in Territory : Verdict(t)
  BY <1>5, VerdictRaces
<1>6. CASE Tick \/ Contest \/ Sweep \/ ChecksDone \/ Finished \/ \E t \in Territory : RebootLost(t)
  <2>1. Quietly
    BY <1>6 DEF Tick, Contest, Sweep, ChecksDone, Finished, RebootLost, NoCall, refereeVars
  <2> QED BY <2>1, QuietIsUnseen
<1>7. CASE Register \/ Freeze \/ Close
  <2>1. Quietly
    BY <1>7 DEF Register, Freeze, Close, Call, Referee!Record
  <2> QED BY <2>1, QuietIsUnseen
<1>8. CASE Collect \/ Receive \/ DrainOver
  <2>1. Quietly
    BY <1>8, ResultsUnseen DEF Collect, Receive, DrainOver, AbortAgents
  <2> QED BY <2>1, QuietIsUnseen
<1>9. CASE Checkpoint \/ Tally
  <2>1. Quietly
    BY <1>9, UsageUnseen DEF Checkpoint, Tally
  <2> QED BY <2>1, QuietIsUnseen
<1>10. CASE Elapse \/ Agents
  <2>1. Quietly
    BY <1>10 DEF Elapse, Agents, Spend, End, refereeVars
  <2> QED BY <2>1, QuietIsUnseen
<1>11. CASE UNCHANGED vars
  <2>1. Quietly
    BY <1>11 DEF vars, refereeVars
  <2> QED BY <2>1, QuietIsUnseen
<1> QED
  BY <1>1, <1>2, <1>3, <1>4, <1>5, <1>6, <1>7, <1>8, <1>9, <1>10, <1>11 DEF Next, Runner, Stopped

(* Whoever reads phase, scored milestones and champion off the world sees  *)
(* a Race: milestones are scored in order and only while the match runs, a *)
(* match that stops at the first durable deployment ends in that very step *)
(* with that competitor, an aborted one has no champion, and the result is *)
(* final, whatever agents, verifiers, checkpoints and the drain do.        *)
THEOREM PromiseKept == Spec => KeepsPromise
<1>1. Init => Promise!Init
  BY RaceInit
<1>2. Inv /\ Viewed /\ Viewed' /\ [Next]_vars => [Promise!Next]_Promise!vars
  BY RaceNext
<1>3. Inv => Viewed
  BY ViewIs
<1> QED BY <1>1, <1>2, <1>3, InvHolds, PTL DEF Spec, KeepsPromise, Promise!Spec

-----------------------------------------------------------------------------
(* Who is durable has a durable time, so that before the end of a match    *)
(* that stops there nobody is (DurableOK).                                 *)
Crowned ==
  /\ FirstDurableWins
  /\ \A t \in Territory : competitors[t].state = "durable" => competitors[t].durableAt # None

LEMMA TerritoryIs == Referee!Territory = Territory
BY DEF Referee!Territory, Territory

(* A step that makes nobody durable, and nothing of a match that has ended.*)
LEMMA CrownKept ==
  ASSUME Inv, Crowned,
         \A t \in Territory :
           /\ competitors'[t].durableAt = competitors[t].durableAt
           /\ competitors'[t].state = "durable" => competitors[t].state = "durable",
         \/ matchState \in {"preparing", "running"}
         \/ UNCHANGED <<matchState, competitors, outcome>>
  PROVE  Crowned'
<1>1. \A t \in Territory : competitors'[t].state = "durable" => competitors'[t].durableAt # None
  BY DEF Crowned
<1>2. FirstDurableWins'
  <2>1. CASE matchState \in {"preparing", "running"} /\ StopOnFirstDurable
    <3>1. \A t \in Territory : competitors'[t].durableAt = None
      BY <2>1 DEF Inv, DurableOK
    <3> QED
      BY <1>1, <3>1, TerritoryIs DEF FirstDurableWins, Referee!FirstDurableWins
  <2>2. CASE UNCHANGED <<matchState, competitors, outcome>>
    BY <2>2 DEF Crowned, FirstDurableWins, Referee!FirstDurableWins
  <2>3. CASE ~StopOnFirstDurable
    BY <2>3 DEF FirstDurableWins, Referee!FirstDurableWins
  <2> QED BY <2>1, <2>2, <2>3
<1> QED BY <1>1, <1>2 DEF Crowned

LEMMA CrownUntouched ==
  ASSUME Inv, Crowned, UNCHANGED <<matchState, competitors, outcome>>
  PROVE  Crowned'
BY CrownKept

LEMMA CrownInit ==
  ASSUME Init
  PROVE  Crowned
<1>1. \A t \in Territory : competitors[t].state = "preparing"
  BY TerritoryIs DEF Init, Referee!Init
<1> QED
  BY <1>1, TerritoryIs DEF Crowned, FirstDurableWins, Referee!FirstDurableWins

LEMMA BootCrowns ==
  ASSUME Inv, Crowned, Boot
  PROVE  Crowned'
<1>1. matchState = "preparing" /\ Referee!Start
  BY DEF Boot, Call, Inv, PhaseOK
<1>2. competitors' = [t \in Territory |-> [competitors[t] EXCEPT !.state = "building"]]
  BY <1>1, TerritoryIs DEF Referee!Start
<1>3. \A t \in Territory : competitors[t] \in Referee!CompetitorRecord
  BY DEF Inv, TypeOK
<1>4. \A t \in Territory : /\ competitors'[t].durableAt = competitors[t].durableAt
                           /\ competitors'[t].state = "building"
  BY <1>2, <1>3 DEF Referee!CompetitorRecord
<1> QED BY <1>1, <1>4, CrownKept

LEMMA BeginCrowns ==
  ASSUME Inv, Crowned, Begin
  PROVE  Crowned'
<1> DEFINE m == Contract[current]
           eligible == {t \in Territory : Eligible(t, m)}
           first == Min(eligible)
<1>1. CASE eligible = {}
  BY <1>1, CrownUntouched DEF Begin, NoCall, refereeVars
<1>2. CASE eligible # {}
  <2>1. Referee!BeginMilestone(first, m, clock)
    BY <1>2 DEF Begin, Call
  <2> HIDE DEF first, m
  <2>2. \/ UNCHANGED <<matchState, competitors, outcome>>
        \/ /\ matchState = "running" /\ first \in Territory
           /\ competitors' = [competitors EXCEPT ![first].state = "verifying"]
    BY <2>1, TerritoryIs DEF Referee!BeginMilestone, Referee!Refused,
                             Referee!UnknownTerritory, Referee!Accepts
  <2>3. competitors \in [Territory -> Referee!CompetitorRecord]
    BY DEF Inv, TypeOK
  <2>4. CASE /\ matchState = "running" /\ first \in Territory
             /\ competitors' = [competitors EXCEPT ![first].state = "verifying"]
    <3>1. \A t \in Territory :
            /\ competitors'[t].durableAt = competitors[t].durableAt
            /\ competitors'[t].state \in {"verifying", competitors[t].state}
      BY <2>3, <2>4 DEF Referee!CompetitorRecord
    <3> QED BY <2>4, <3>1, CrownKept
  <2> QED BY <2>2, <2>4, CrownUntouched
<1> QED BY <1>1, <1>2

(* The timer and an interrupt leave the competitors as they are. *)
LEMMA EndCrowns ==
  ASSUME Inv, Crowned, NEW time, Referee!Finish(time) \/ Referee!Abort(time)
  PROVE  Crowned'
<1>1. \/ UNCHANGED <<matchState, competitors, outcome>>
      \/ matchState = "running" /\ UNCHANGED competitors
  BY DEF Referee!Finish, Referee!Abort, Referee!Refused, Referee!Accepts
<1> QED BY <1>1, CrownKept

LEMMA PassCrowns ==
  ASSUME Inv, Crowned, NEW t \in Territory, t \in checks, pc = "verify",
         Referee!PassMilestone(t, Contract[current], Points[Contract[current]], clock)
  PROVE  Crowned'
<1> DEFINE m == Contract[current]
           ends == m = Completion /\ StopOnFirstDurable
           credit == Referee!Credit(competitors[t], m, Points[m], clock)
           after == [competitors EXCEPT ![t] = credit]
<1>1. competitors \in [Territory -> Referee!CompetitorRecord] /\ clock \in Nat
  BY DEF Inv, TypeOK
<1>2. \/ UNCHANGED <<matchState, competitors, outcome>>
      \/ /\ matchState = "running" /\ competitors' = after
         /\ matchState' = IF ends THEN "finished" ELSE matchState
         /\ outcome' = IF ends THEN [winner |-> Referee!Winner(after)] ELSE outcome
  BY <1>1 DEF Referee!PassMilestone, Referee!Refused, Referee!UnknownTerritory, Referee!Accepts
<1>3. CASE /\ matchState = "running" /\ competitors' = after
           /\ matchState' = IF ends THEN "finished" ELSE matchState
           /\ outcome' = IF ends THEN [winner |-> Referee!Winner(after)] ELSE outcome
  <2>1. /\ credit.durableAt = IF m = Completion THEN clock ELSE competitors[t].durableAt
        /\ credit.state = IF m = Completion THEN "durable" ELSE competitors[t].state
    BY DEF Referee!Credit
  <2> HIDE DEF credit
  <2>2. after[t] = credit /\ \A u \in Territory \ {t} : after[u] = competitors[u]
    BY <1>1
  <2> HIDE DEF after
  <2>3. CASE m # Completion
    <3>1. \A u \in Territory : /\ competitors'[u].durableAt = competitors[u].durableAt
                               /\ competitors'[u].state = competitors[u].state
      BY <1>3, <2>1, <2>2, <2>3
    <3> QED BY <1>3, <3>1, CrownKept
  <2>4. CASE m = Completion
    <3>1. \A u \in Territory : competitors'[u].state = "durable" => competitors'[u].durableAt # None
      BY <1>1, <1>3, <2>1, <2>2, <2>4, NoneIsNothing DEF Crowned
    <3>2. CASE StopOnFirstDurable
      <4>1. \A u \in Territory : competitors[u].durableAt = None
        BY <1>3, <3>2 DEF Inv, DurableOK
      <4>2. after[t].durableAt # None /\ \A u \in Territory \ {t} : after[u].durableAt = None
        BY <1>1, <2>1, <2>2, <2>4, <4>1, NoneIsNothing
      <4>3. Referee!Winner(after) = t
        BY <4>2, OnlyDurableWins
      <4>4. matchState' = "finished" /\ outcome' = [winner |-> t]
        BY <1>3, <2>4, <3>2, <4>3
      <4>5. \A u \in Territory : competitors'[u].state = "durable" => u = t
        BY <1>3, <3>1, <4>2
      <4> QED
        BY <3>1, <4>4, <4>5, TerritoryIs DEF Crowned, FirstDurableWins, Referee!FirstDurableWins
    <3>3. CASE ~StopOnFirstDurable
      BY <3>1, <3>3 DEF Crowned, FirstDurableWins, Referee!FirstDurableWins
    <3> QED BY <3>2, <3>3
  <2> QED BY <2>3, <2>4
<1> QED BY <1>2, <1>3, CrownUntouched

LEMMA CrownNext ==
  ASSUME Inv, Crowned, [Next]_vars
  PROVE  Crowned'
<1> DEFINE Quietly == UNCHANGED <<matchState, competitors, outcome>>
<1>1. CASE Boot
  BY <1>1, BootCrowns
<1>2. CASE Interrupt \/ NoContest
  <2>1. Referee!Abort(clock)
    BY <1>2 DEF Interrupt, NoContest, Call
  <2> QED BY <2>1, EndCrowns
<1>3. CASE Begin
  BY <1>3, BeginCrowns
<1>4. CASE Expire
  <2>1. Referee!Finish(clock)
    BY <1>4 DEF Expire, Call
  <2> QED BY <2>1, EndCrowns
<1>5. ASSUME NEW t \in Territory, Verdict(t) PROVE Crowned'
  <2>1. t \in checks /\ pc = "verify"
    BY <1>5 DEF Verdict
  <2>2. CASE Referee!PassMilestone(t, Contract[current], Points[Contract[current]], clock)
    BY <2>1, <2>2, PassCrowns
  <2>3. CASE Referee!FailMilestone(t, Contract[current], clock)
    BY <2>3, CrownUntouched DEF Referee!FailMilestone, Referee!Refused, Referee!UnknownTerritory
  <2> QED BY <1>5, <2>2, <2>3 DEF Verdict, Call
<1>6. CASE Tick \/ Contest \/ Sweep \/ ChecksDone \/ Finished \/ \E t \in Territory : RebootLost(t)
  <2>1. Quietly
    BY <1>6 DEF Tick, Contest, Sweep, ChecksDone, Finished, RebootLost, NoCall, refereeVars
  <2> QED BY <2>1, CrownUntouched
<1>7. CASE Register \/ Freeze \/ Close
  <2>1. Quietly
    BY <1>7 DEF Register, Freeze, Close, Call, Referee!Record
  <2> QED BY <2>1, CrownUntouched
<1>8. CASE Collect \/ Receive \/ DrainOver
  <2>1. Quietly
    BY <1>8, ResultsUnseen DEF Collect, Receive, DrainOver, AbortAgents
  <2> QED BY <2>1, CrownUntouched
<1>9. CASE Checkpoint \/ Tally
  <2>1. Quietly
    BY <1>9, UsageUnseen DEF Checkpoint, Tally
  <2> QED BY <2>1, CrownUntouched
<1>10. CASE Elapse \/ Agents \/ UNCHANGED vars
  <2>1. Quietly
    BY <1>10 DEF Elapse, Agents, Spend, End, vars, refereeVars
  <2> QED BY <2>1, CrownUntouched
<1> QED
  BY <1>1, <1>2, <1>3, <1>4, <1>5, <1>6, <1>7, <1>8, <1>9, <1>10 DEF Next, Runner, Stopped

(* In a match that stops at the first durable deployment whoever becomes   *)
(* durable first has won, and stays the only one, whatever verdicts, the   *)
(* timer, interrupts and the drain bring (build.rs:157-174, runner.rs:527).*)
THEOREM FirstDurableCrowned == Spec => []FirstDurableWins
<1>1. Init => Crowned
  BY CrownInit
<1>2. Inv /\ Crowned /\ [Next]_vars => Crowned'
  BY CrownNext
<1>3. Crowned => FirstDurableWins
  BY DEF Crowned
<1> QED BY <1>1, <1>2, <1>3, InvHolds, PTL DEF Spec
=============================================================================
