------------------------------- MODULE MCHost -------------------------------
(* A build race of two territories, and manifests of up to three          *)
(* milestones, territories and agents that are only loaded.               *)
EXTENDS Host

Milestone(id, depends, required, reboot) ==
    [ id |-> id, depends_on |-> depends, required |-> required, timeout |-> 2,
      points |-> 1, reboot |-> reboot ]

Fogged == [ brief |-> "text", artifacts |-> <<"path">>,
            audit |-> [paths |-> <<"narrow">>, forbidden |-> <<"secret", "answer">>] ]

(* One of the arenas is audited, one is under fog only, one has neither.   *)
Fog(adapter) ==
    CASE adapter = "term_llm" -> Fogged
      [] adapter = "claux" -> [Fogged EXCEPT !.audit = None]
      [] OTHER -> None

Played(adapter) ==
    [ mode |-> "build_race", duration |-> 3, minimum |-> 2,
      build |-> [ milestones |-> << Milestone(1, {}, TRUE, FALSE),
                                    Milestone(2, {1}, TRUE, TRUE) >>,
                  completion |-> 2 ],
      classes |-> <<1>>,
      territories |-> [i \in 1..2 |-> [id |-> i, class |-> 1, window |-> 1]],
      agents |-> [i \in 1..2 |-> [id |-> i, territory |-> i, units |-> 1,
                               adapter |-> adapter]],
      nodes |-> <<[id |-> 1, milestone |-> 2], [id |-> 2, milestone |-> None]>>,
      links |-> {<<1, 2>>},
      fog |-> Fog(adapter),
      files |-> [brief |-> TRUE, contract |-> TRUE, instructions |-> {1, 2}] ]

MCPlayed == Played("opencode")

(* Every dependency graph over three milestones and one that is unknown.   *)
Graphs == [1..3 -> SUBSET (1..4)]

Contracts ==
    {[ milestones |-> [i \in 1..3 |-> Milestone(i, g[i], TRUE, FALSE)],
       completion |-> 3 ] : g \in Graphs}
    \union {[ milestones |-> [i \in 1..3 |-> Milestone(i, {}, i # n, FALSE)],
               completion |-> 3 ] : n \in 1..3}
    \union {[milestones |-> MCPlayed.build.milestones, completion |-> 4], None,
            [milestones |-> <<>>, completion |-> 1],
            [ milestones |-> <<Milestone(1, {}, TRUE, FALSE), Milestone(1, {1}, TRUE, FALSE)>>,
              completion |-> 1 ],
            [ milestones |-> <<[Milestone(1, {}, TRUE, FALSE) EXCEPT !.timeout = 4]>>,
              completion |-> 1 ],
            [ milestones |-> <<[Milestone(1, {}, TRUE, FALSE) EXCEPT !.points = 0]>>,
              completion |-> 1 ]}

Fogs ==
    {[Fogged EXCEPT !.brief = ""], [Fogged EXCEPT !.artifacts = <<"path", "">>],
     [Fogged EXCEPT !.audit.paths = <<>>], [Fogged EXCEPT !.audit.paths = <<"wide">>],
     [Fogged EXCEPT !.audit.forbidden = <<>>], [Fogged EXCEPT !.audit.forbidden = <<"">>]}

(* Two arenas with a file missing, which is noticed once guests run. *)
Incomplete ==
    {[Played("term_llm") EXCEPT !.files.brief = FALSE, !.fog.audit = None],
     [MCPlayed EXCEPT !.files.contract = FALSE]}

Agents ==
    UNION {[1..n -> [id : 1..2, territory : 1..3, units : {0, 1},
                    adapter : {"opencode"}]] : n \in 0..2}

Territories ==
    UNION {[1..n -> [id : 1..2, class : 1..2, window : {0, 2, 3}]] : n \in 0..2}

MCManifests ==
    {[MCPlayed EXCEPT !.build = c, !.nodes = <<>>, !.links = {}] : c \in Contracts}
    \union {[MCPlayed EXCEPT !.agents = a] : a \in Agents}
    \union {[MCPlayed EXCEPT !.territories = t] : t \in Territories}
    \union {[MCPlayed EXCEPT !.mode = "conquest"], [MCPlayed EXCEPT !.minimum = 1],
            [MCPlayed EXCEPT !.links = {<<1, 1>>}], [MCPlayed EXCEPT !.links = {<<1, 3>>}],
            [MCPlayed EXCEPT !.nodes[1].milestone = 3], [MCPlayed EXCEPT !.nodes[2].id = 1],
            [MCPlayed EXCEPT !.classes = <<1, 1>>], [MCPlayed EXCEPT !.duration = 0]}
    \union {[MCPlayed EXCEPT !.fog = f] : f \in Fogs}
    \union {[MCPlayed EXCEPT !.mode = "conquest", !.build = None, !.nodes = <<>>, !.links = {}]}
    \union Incomplete
    \union {Played(adapter) : adapter \in {"opencode", "term_llm", "claux", "other"}}

Followed == {Played(a) : a \in Adapters} \union Incomplete

(* Bound: only these manifests are followed beyond their loading. *)
OnlyPlayed == manifest \in Followed \/ phase \in {"load", "exited"}
=============================================================================
