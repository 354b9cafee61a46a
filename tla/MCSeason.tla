------------------------------ MODULE MCSeason ------------------------------
(* Weeks of two rounds, and the ways a match of two or three seats ends.   *)
EXTENDS Season

View(durable, points, source, terminal) ==
  [durable |-> durable, points |-> points, source |-> source, terminal |-> terminal]

Durable == View(1, 3, "none", "completed")
Later == View(2, 3, "none", "completed")
Leading == View(None, 1, "arena", "interrupted")
Idle == View(None, 0, "player", "completed")
Broken == View(None, 0, "player", "failed")
Lost == View(None, 2, "provider", "failed")

Turned(views, n) == {[t \in 1..n |-> views[1 + ((t + p) % n)]] : p \in 0..n - 1}

Endings(n) ==
  CASE n = 2 -> {<<Durable, Idle>>, <<Durable, Lost>>, <<Leading, Broken>>,
                 <<Idle, Idle>>, <<Lost, Leading>>}
    [] n = 3 -> {<<Durable, Lost, Leading>>, <<Later, Durable, Broken>>,
                 <<Leading, Idle, Idle>>, <<Idle, Idle, Idle>>, <<Lost, Leading, Idle>>,
                 <<Lost, Lost, Lost>>}
    [] OTHER -> {}

MCWorlds(n) ==
  {[views |-> views, aborted |-> FALSE] : views \in UNION {Turned(e, n) : e \in Endings(n)}}
    \cup {[views |-> [t \in 1..n |-> Idle], aborted |-> TRUE]}

Entry(id) == [id |-> id, model |-> "m", adapter |-> "claux"]

Cup4 ==
  [fleet |-> <<Entry(2), Entry(4), Entry(1), Entry(3)>>, pool |-> None, memory |-> 512,
   arenas |-> <<3, 3>>, entrants |-> None, unavailable |-> 1, draw |-> 1, ports |-> 20]

Route(model, status, listed) ==
  [model |-> model, status |-> status, listed |-> listed, definition |-> model]

(* Models of a registry, those of the given ids offered by vercel.         *)
Model(id, offered) ==
  [id |-> id, family |-> IF id = 7 THEN "meta" ELSE "f",
   routes |-> CASE id \in offered -> [vercel |-> Route(id, "eligible", TRUE)]
                [] id = 8 -> [vercel |-> Route(id, "eligible", FALSE)]
                [] id = 9 -> "opencode-go" :> Route(id, "eligible", TRUE)
                [] OTHER -> [vercel |-> Route(id, "disabled", TRUE)]]

Registry(offered) ==
  LET M(id) == Model(id, offered)
  IN [version |-> 1, models |-> <<M(9), M(8), M(7), M(6), M(5), M(4), M(3), M(2), M(1)>>]

Pooled(offered) ==
  [Cup4 EXCEPT !.fleet = None, !.pool = [provider |-> "vercel", registry |-> Registry(offered)]]

Cup5 == [Pooled(1..5) EXCEPT !.arenas = <<2>>, !.entrants = 4, !.unavailable = 0]

(* A season or a registry that is refused, each for a reason of its own.   *)
Refused ==
  <<[Cup4 EXCEPT !.fleet = None], [Cup5 EXCEPT !.fleet = Cup4.fleet],
   [Cup4 EXCEPT !.memory = 64], [Cup4 EXCEPT !.arenas = <<>>],
   [Cup4 EXCEPT !.arenas = <<3, 2>>], [Cup4 EXCEPT !.arenas = <<1>>],
   [Cup4 EXCEPT !.arenas = <<5>>], [Cup4 EXCEPT !.entrants = 5],
   [Cup4 EXCEPT !.fleet[2].id = 1], [Cup4 EXCEPT !.fleet[2].model = None],
   Pooled(1..2), Pooled(1..7),
   [Cup5 EXCEPT !.pool.registry.version = 2], [Cup5 EXCEPT !.pool.provider = "other"],
   [Cup5 EXCEPT !.pool.registry.models[4].id = 1],
   [Cup5 EXCEPT !.pool.registry.models[4].routes.vercel.model = 1],
   [Cup5 EXCEPT !.pool.registry.models[1].routes["opencode-go"].definition = 1]>>

AllPlans ==
  << Cup4, Cup5,
     [Pooled(1..6) EXCEPT !.unavailable = 0, !.draw = 0],
     [Cup4 EXCEPT !.unavailable = 0, !.draw = 0, !.ports = 6],
     [Cup5 EXCEPT !.draw = 0, !.ports = 3] >>
  \o Refused

(* What replaces a constant is evaluated at each use, AllPlans only once.  *)
MCPlans == AllPlans

SmallPlans == <<Cup4>>
=============================================================================
