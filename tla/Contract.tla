------------------------------ MODULE Contract ------------------------------
(***************************************************************************)
(* What an arena must say to be played: the semantic validation of a       *)
(* manifest (crates/domain/src/manifest.rs).  A manifest is the record     *)
(*   mode, duration, minimum                                               *)
(*   build        None or [milestones, completion]; a milestone is         *)
(*                [id, depends_on, required, timeout, points]              *)
(*   classes      a sequence of class ids                                  *)
(*   territories  a sequence of [id, class, window]                        *)
(*   agents       a sequence of [id, territory, units]                     *)
(*   fog          None or [brief, artifacts, audit]: texts, and None or    *)
(*                [paths, forbidden]; a text is "" or something, a path    *)
(*                "wide" (the root, or not absolute) or narrower           *)
(*   nodes, links the visualization: [id, milestone] and <<from, to>>      *)
(* The shape of names, paths, addresses and display texts is left out.     *)
(***************************************************************************)
EXTENDS Integers, Sequences, FiniteSets, SequencesExt, FiniteSetsExt

CONSTANT None

(* The types of the fields that are looked at here.                        *)
WellTyped(manifest) ==
    /\ {manifest.duration, manifest.minimum} \subseteq Nat
    /\ manifest.territories \in Seq(ToSet(manifest.territories))
    /\ manifest.agents \in Seq(ToSet(manifest.agents))
    /\ manifest.build # None =>
         /\ manifest.build.milestones \in Seq(ToSet(manifest.build.milestones))
         /\ \A m \in ToSet(manifest.build.milestones) :
              {m.timeout, m.points} \subseteq Nat /\ IsFiniteSet(m.depends_on)

Unique(ids) == \A i, j \in DOMAIN ids : ids[i] = ids[j] => i = j

IdsOf(records) == [i \in DOMAIN records |-> records[i].id]

(* The first milestone of that id: ids are unique in what is accepted. *)
DependsOf(milestones) ==
    [id \in ToSet(IdsOf(milestones)) |->
        UNION {milestones[i].depends_on :
                 i \in {k \in DOMAIN milestones : milestones[k].id = id}}]

(* Mutant: looks only at the dependencies' own dependencies. *)
HasShortCycle(depends) ==
    \E id \in DOMAIN depends : \E d \in depends[id] \intersect DOMAIN depends :
      id \in depends[d]

(* The depth-first search of milestone_has_cycle.  Unknown ids lead nowhere. *)
HasCycle(depends) ==
    LET known == DOMAIN depends
        named == known \union UNION {depends[id] : id \in known}
        cyclic[visiting \in SUBSET named] ==
            [id \in named |->
               \/ id \in visiting
               \/ id \in known /\ \E d \in depends[id] : cyclic[visiting \union {id}][d]]
    IN \E id \in known : cyclic[{}][id]

MilestoneErrors(milestone, ids, duration) ==
    UNION { IF milestone.timeout \notin 1..duration THEN {"timeout"} ELSE {},
            IF milestone.points = 0 THEN {"points"} ELSE {},
            IF milestone.id \in milestone.depends_on THEN {"self"} ELSE {},
            IF milestone.depends_on \subseteq ids THEN {} ELSE {"unknown"} }

ContractErrors(manifest) ==
    IF manifest.build = None
    THEN IF manifest.mode = "build_race" THEN {"required"} ELSE {}
    ELSE LET build == manifest.build
             ids == ToSet(IdsOf(build.milestones))
         IN UNION
              { IF manifest.mode = "build_race" THEN {} ELSE {"only_build_race"},
                IF Unique(IdsOf(build.milestones)) THEN {} ELSE {"unique"},
                IF build.milestones = <<>> THEN {"empty"} ELSE {},
                UNION {MilestoneErrors(build.milestones[i], ids, manifest.duration) :
                         i \in DOMAIN build.milestones},
                IF HasCycle(DependsOf(build.milestones)) THEN {"cycle"} ELSE {},
                IF build.completion \in ids THEN {} ELSE {"completion"},
                IF \E i \in DOMAIN build.milestones :
                     /\ build.milestones[i].id = build.completion
                     /\ ~build.milestones[i].required
                THEN {"optional_completion"} ELSE {} }

VisualizationErrors(manifest) ==
    LET ids == ToSet(IdsOf(manifest.nodes))
        milestones == IF manifest.build = None THEN {}
                      ELSE ToSet(IdsOf(manifest.build.milestones))
    IN UNION
         { IF Unique(IdsOf(manifest.nodes)) THEN {} ELSE {"node"},
           IF \E i \in DOMAIN manifest.nodes :
                manifest.nodes[i].milestone \notin milestones \union {None}
           THEN {"node_milestone"} ELSE {},
           IF \A link \in manifest.links :
                {link[1], link[2]} \subseteq ids /\ link[1] # link[2]
           THEN {} ELSE {"link"} }

FogErrors(fog) ==
    IF fog = None THEN {}
    ELSE UNION
      { IF fog.brief = "" THEN {"brief"} ELSE {},
        IF "" \in ToSet(fog.artifacts) THEN {"artifact"} ELSE {},
        IF fog.audit = None THEN {}
        ELSE UNION { IF fog.audit.paths = <<>> THEN {"paths"} ELSE {},
                     IF "wide" \in ToSet(fog.audit.paths) THEN {"path"} ELSE {},
                     IF fog.audit.forbidden = <<>> THEN {"forbidden"} ELSE {},
                     IF "" \in ToSet(fog.audit.forbidden) THEN {"forbidden_text"} ELSE {} } }

TerritoryErrors(manifest) ==
    LET territories == manifest.territories
    IN UNION
         { IF Unique(IdsOf(territories)) THEN {} ELSE {"territory"},
           IF Unique(manifest.classes) THEN {} ELSE {"class"},
           IF \E i \in DOMAIN territories :
                territories[i].class \notin ToSet(manifest.classes)
           THEN {"unknown_class"} ELSE {},
           IF \E i \in DOMAIN territories :
                territories[i].window \notin 1..(manifest.duration - 1)
           THEN {"window"} ELSE {} }

AgentErrors(manifest) ==
    LET agents == manifest.agents
        seats(t) == {i \in DOMAIN agents : agents[i].territory = t}
        territories == ToSet(IdsOf(manifest.territories))
    IN UNION
         { IF Unique(IdsOf(agents)) THEN {} ELSE {"agent"},
           IF \E i \in DOMAIN agents : agents[i].territory \notin territories
           THEN {"unknown_territory"} ELSE {},
           IF \E i \in DOMAIN agents : agents[i].units = 0 THEN {"units"} ELSE {},
           IF \E t \in territories : Cardinality(seats(t)) # 1 THEN {"seats"} ELSE {} }

(* validation_errors: every error, not the first. *)
Errors(manifest) ==
    UNION { IF manifest.duration = 0 THEN {"duration"} ELSE {},
            IF manifest.minimum < 2 THEN {"minimum"} ELSE {},
            IF Len(manifest.territories) < manifest.minimum THEN {"few"} ELSE {},
            ContractErrors(manifest), VisualizationErrors(manifest),
            FogErrors(manifest.fog),
            TerritoryErrors(manifest), AgentErrors(manifest) }

-----------------------------------------------------------------------------
(* What an arena needs, said without the validation: the milestones can be *)
(* passed one after the other until none is left, the completion is one of *)
(* them and counts, and every territory has its one agent.                 *)
AllPassable(depends) ==
    LET passed[n \in 0..Cardinality(DOMAIN depends)] ==
          IF n = 0 THEN {}
          ELSE passed[n - 1] \union
                 {id \in DOMAIN depends : depends[id] \subseteq passed[n - 1]}
    IN passed[Cardinality(DOMAIN depends)] = DOMAIN depends

ContractPlayable(manifest) ==
    IF manifest.build = None
    THEN manifest.mode # "build_race"
    ELSE LET milestones == manifest.build.milestones
         IN /\ manifest.mode = "build_race"
            /\ Unique(IdsOf(milestones))
            /\ AllPassable(DependsOf(milestones))
            /\ \E i \in DOMAIN milestones :
                 milestones[i].id = manifest.build.completion /\ milestones[i].required
            /\ \A i \in DOMAIN milestones :
                 milestones[i].timeout \in 1..manifest.duration /\ milestones[i].points > 0

(* The lookups the runner makes with expect() and without a check.         *)
SeatsPlayable(manifest) ==
    LET territories == manifest.territories
        agents == manifest.agents
    IN /\ Len(territories) >= 2
       /\ Len(territories) = Len(agents)
       /\ \E seat \in [DOMAIN territories -> DOMAIN agents] :
            \A i, j \in DOMAIN territories :
              /\ agents[seat[i]].territory = territories[i].id
              /\ i # j => /\ agents[seat[i]].id # agents[seat[j]].id
                          /\ territories[i].id # territories[j].id
=============================================================================
