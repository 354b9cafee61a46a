------------------------------ MODULE ModelPool ------------------------------
(***************************************************************************)
(* Who may be drawn: a season's own fleet, or the models a registry offers *)
(* by one provider (controller/src/season.rs, season/model_pool.rs).  A    *)
(* season file is the record                                               *)
(*   fleet     None or a sequence of [id, model, adapter]                  *)
(*   pool      None or [provider, registry]; a registry is [version,       *)
(*             models], a model [id, family, routes], and routes a function *)
(*             from providers to [model, status, listed, definition]       *)
(*   memory    None or MiB                                                 *)
(*   arenas    for each arena its number of territories                    *)
(* An empty model or adapter is None; the shape of names is left out.      *)
(***************************************************************************)
EXTENDS Integers, Sequences, FiniteSets, Option, Order

Providers == {"openrouter", "vercel", "opencode-go"}

(* binding: the adapter that plays a provider's models. *)
Binding(provider) == IF provider = "opencode-go" THEN "opencode" ELSE "claux"

Offered(route) == route.status = "eligible" /\ route.listed

RouteErrors(model, provider) ==
  LET route == model.routes[provider]
  IN UNION
       { IF provider \in Providers THEN {} ELSE {"provider"},
         IF Offered(route) /\ model.family \in {"meta", "xai"} THEN {"excluded"} ELSE {},
         IF Offered(route) /\ provider = "opencode-go" /\ route.definition # route.model
         THEN {"definition"} ELSE {} }

(* <<provider, model>> of every route, offered or not; i tells models apart. *)
Routes(models) ==
  UNION {{[at |-> i, route |-> <<p, models[i].routes[p].model>>]
            : p \in DOMAIN models[i].routes} : i \in DOMAIN models}

(* Every model of the registry is looked at, whoever offers it. *)
RegistryErrors(registry) ==
  LET models == registry.models
      routes == Routes(models)
  IN UNION
       { IF registry.version = 1 THEN {} ELSE {"version"},
         IF \E i, j \in DOMAIN models : i # j /\ models[i].id = models[j].id
         THEN {"duplicate"} ELSE {},
         IF \E x, y \in routes : x.at # y.at /\ x.route = y.route THEN {"route"} ELSE {},
         UNION {UNION {RouteErrors(models[i], p) : p \in DOMAIN models[i].routes}
                  : i \in DOMAIN models} }

OfferedBy(registry, provider) ==
  {i \in DOMAIN registry.models :
     /\ provider \in DOMAIN registry.models[i].routes
     /\ Offered(registry.models[i].routes[provider])}

(* resolve_registry: what one provider offers, in the order of ids, which  *)
(* differ in a registry that is not refused.                               *)
ResolveRegistry(registry, provider) ==
  LET entries == {[id |-> registry.models[i].id, adapter |-> Binding(provider),
                   model |-> registry.models[i].routes[provider].model]
                    : i \in OfferedBy(registry, provider)}
  IN InOrder(entries, {pair \in entries \X entries : pair[1].id < pair[2].id})

FleetOf(file) ==
  IF file.fleet # None THEN file.fleet
  ELSE IF file.pool = None THEN <<>>
  ELSE ResolveRegistry(file.pool.registry, file.pool.provider)

PoolErrors(pool) ==
  IF pool = None THEN {}
  ELSE (IF pool.provider \in Providers THEN {} ELSE {"provider"})
         \cup RegistryErrors(pool.registry)

(* SeasonManifest::load and validate: the first of these is its error. *)
SeasonErrors(file) ==
  LET fleet == FleetOf(file)
  IN UNION
       { IF (file.fleet = None) = (file.pool = None) THEN {"source"} ELSE {},
         IF file.fleet = None THEN PoolErrors(file.pool) ELSE {},
         IF file.memory = None THEN {} ELSE IF file.memory < 128 THEN {"memory"} ELSE {},
         IF Len(fleet) < 3 THEN {"few"} ELSE {},
         IF \E i, j \in DOMAIN fleet : i # j /\ fleet[i].id = fleet[j].id
         THEN {"twice"} ELSE {},
         IF \E i \in DOMAIN fleet : None \in {fleet[i].model, fleet[i].adapter}
         THEN {"model"} ELSE {},
         IF file.arenas = <<>> THEN {"arenas"} ELSE {} }
=============================================================================
