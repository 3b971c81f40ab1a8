------------------------------ MODULE GameWorld ------------------------------
(***************************************************************************)
(* The game world of a node (game-engine/src/world.rs, with ecs.rs,        *)
(* systems.rs and the spawn points of npc_ai.rs): a tick per block, the    *)
(* state saved after it, and the restart of the node from that state.      *)
(* Entities are never removed, so an entity's id is its place in the       *)
(* sequence of all entities.                                               *)
(***************************************************************************)
EXTENDS Naturals, Sequences, FiniteSetsExt, Retain

CONSTANTS
  Address,      \* players
  Points,       \* the spawn points in use, of the ten of the code
  RespawnUnit,  \* ticks per step of a respawn cooldown; 1 in the code
  Repeats,      \* bound: attacks on one entity that follow each other in a block
  MaxBlocks,    \* bound: blocks
  MaxRestarts   \* bound: restarts of the node

VARIABLES
  entities,      \* all entities, in the order of their ids
  spawn_points,  \* spawn point |-> [current_count, cooldown_remaining]
  current_tick,
  current_events, ground_items, next_drop_id, is_day, weather,
                 \* the event manager, see WorldEvents
  failed,        \* whether the last tick returned an error
  saved,         \* the entities in the database
  blocks,        \* ticks ever run
  restarts       \* restarts so far

events == <<current_events, ground_items, next_drop_id, is_day, weather>>
vars == <<entities, spawn_points, current_tick, events, failed, saved, blocks, restarts>>

-----------------------------------------------------------------------------
\* Archetypes: maximum health, what the behaviour pattern becomes, and the
\* ticks before a spawn point spawns again.
NpcArchetype(max_health, behavior, respawn_ticks) ==
  [max_health |-> max_health, behavior |-> behavior, respawn_ticks |-> respawn_ticks]

default_archetypes ==
  [merchant |-> NpcArchetype(100, "Idle", 600),
   guard    |-> NpcArchetype(150, "Aggressive", 300),
   wolf     |-> NpcArchetype(60, "Aggressive", 200),
   rabbit   |-> NpcArchetype(15, "Idle", 100),
   dragon   |-> NpcArchetype(1000, "Patrol", 3000),
   skeleton |-> NpcArchetype(80, "Patrol", 250)]

spawn_configs ==
  <<<<"merchant", 1>>, <<"guard", 2>>, <<"guard", 2>>, <<"wolf", 3>>, <<"wolf", 2>>,
    <<"rabbit", 4>>, <<"rabbit", 3>>, <<"skeleton", 3>>, <<"skeleton", 2>>,
    <<"dragon", 1>>>>

archetype(p) == spawn_configs[p][1]
max_count(p) == spawn_configs[p][2]
respawn_cooldown(p) == default_archetypes[archetype(p)].respawn_ticks \div RespawnUnit

Npc(p) ==
  LET health == default_archetypes[archetype(p)].max_health IN
  [kind |-> archetype(p), health |-> health, maximum |-> health, is_dead |-> FALSE,
   place |-> "ground"]

NewPlayer(address, place) ==
  [kind |-> address, health |-> 100, maximum |-> 100, is_dead |-> FALSE, place |-> place]

Kinds == DOMAIN default_archetypes

-----------------------------------------------------------------------------
\* Counts a spawn only when the point is one short of its maximum.
Miscounted(points, p) ==
  LET sp == points[p] IN
  IF sp.current_count >= max_count(p) THEN sp
  ELSE IF sp.cooldown_remaining > 0
  THEN [sp EXCEPT !.cooldown_remaining = @ - 1]
  ELSE [current_count |-> IF sp.current_count + 1 < max_count(p) THEN sp.current_count
                          ELSE sp.current_count + 1,
        cooldown_remaining |-> respawn_cooldown(p)]

Spawns(points, p) ==
  points[p].current_count < max_count(p) /\ points[p].cooldown_remaining = 0

\* A spawn point after a tick.
Counted(points, p) ==
  LET sp == points[p] IN
  IF sp.current_count >= max_count(p) THEN sp
  ELSE IF sp.cooldown_remaining > 0
  THEN [sp EXCEPT !.cooldown_remaining = @ - 1]
  ELSE [current_count |-> sp.current_count + 1, cooldown_remaining |-> respawn_cooldown(p)]

TickSpawns(points) == [p \in Points |-> Counted(points, p)]

\* The NPCs that spawn, in the order of the points.
NewSpawns(points) ==
  Kept([p \in DOMAIN spawn_configs |-> Npc(p)], {p \in Points : Spawns(points, p)})

FreshPoints == [p \in Points |-> [current_count |-> 0, cooldown_remaining |-> 0]]

\* With the intervals of the code.
E == INSTANCE WorldEvents WITH
       day_cycle_ticks <- 6000, weather_interval_ticks <- 3000, resource_ticks <- 1000,
       wave_ticks <- 5000, despawn_ticks <- 600,
       WeatherType <- {"Clear", "Rain", "Storm", "Fog", "Snow"},
       Spot <- {}, Reach <- {}, MaxTick <- MaxBlocks, MaxDrops <- 0, tick <- current_tick

Init ==
  /\ entities = NewSpawns(FreshPoints)
  /\ spawn_points = TickSpawns(FreshPoints)
  /\ E!Init
  /\ failed = FALSE
  /\ saved = <<>> /\ blocks = 0 /\ restarts = 0

-----------------------------------------------------------------------------
\* Whoever attacks, the damage is the same; chat and all other actions change
\* nothing.  Attacks in a row on the same entity are one action here.
Action ==
  [do: {"Move"}, by: Address, place: {"ground", "above", "below"}]
  \cup [do: {"Respawn"}, by: Address]
  \cup [do: {"Attack"}, target: 1..Len(entities) + 1, times: Repeats]

Players(es, address) == {id \in DOMAIN es : es[id].kind = address}

Healed(e) == [e EXCEPT !.health = e.maximum, !.is_dead = FALSE, !.place = "origin"]
Hit(e, times) ==
  IF e.health <= 10 * times THEN [e EXCEPT !.health = 0, !.is_dead = TRUE]
  ELSE [e EXCEPT !.health = @ - 10 * times]

\* process_action fails only for an attack on an entity that does not exist.
Fails(es, a) == a.do = "Attack" /\ a.target \notin DOMAIN es

ProcessAction(es, a) ==
  CASE a.do = "Move" ->
         IF Players(es, a.by) = {} THEN Append(es, NewPlayer(a.by, a.place))
         ELSE [id \in DOMAIN es |->
                 IF id \in Players(es, a.by) THEN [es[id] EXCEPT !.place = a.place] ELSE es[id]]
    [] a.do = "Respawn" ->
         [id \in DOMAIN es |-> IF id \in Players(es, a.by) THEN Healed(es[id]) ELSE es[id]]
    [] a.do = "Attack" -> [es EXCEPT ![a.target] = Hit(@, a.times)]

\* The systems, in their order.  Nothing sets a velocity, so physics only
\* lifts what is below the ground.
Physics(e) == IF e.place = "below" THEN [e EXCEPT !.place = "ground"] ELSE e
NpcAi(e) ==
  IF e.kind \in Kinds /\ default_archetypes[e.kind].behavior = "Patrol"
  THEN [e EXCEPT !.place = "patrol"] ELSE e
Combat(e) == IF e.health = 0 /\ ~e.is_dead THEN [e EXCEPT !.is_dead = TRUE] ELSE e

\* Brings a player back without its health.
RaisedOnly(e) ==
  IF e.kind \in Address /\ e.is_dead THEN [e EXCEPT !.is_dead = FALSE, !.place = "origin"] ELSE e
RespawnDead(e) == IF e.kind \in Address /\ e.is_dead THEN Healed(e) ELSE e

RunTick(es) == [id \in DOMAIN es |-> RespawnDead(Combat(NpcAi(Physics(es[id]))))]

\* The next action, unless one has failed.
ProcessNext(w, a) ==
  IF ~w.ok THEN w
  ELSE IF Fails(w.es, a) THEN [w EXCEPT !.ok = FALSE]
  ELSE [w EXCEPT !.es = ProcessAction(w.es, a)]

\* The actions up to the first that fails.
Processed(actions) ==
  LET w[n \in 0..Len(actions)] ==
        IF n = 0 THEN [es |-> entities, ok |-> TRUE] ELSE ProcessNext(w[n - 1], actions[n])
  IN  w[Len(actions)]

\* A failing action ends the tick where it is: the tick is counted and the
\* actions before it stay applied.  The node saves the world after a tick
\* that succeeds.
Tick(actions) ==
  LET w == Processed(actions) IN
  /\ blocks < MaxBlocks
  /\ blocks' = blocks + 1
  /\ current_tick' = current_tick + 1
  /\ failed' = ~w.ok
  /\ IF ~w.ok
     THEN /\ entities' = w.es
          /\ UNCHANGED <<spawn_points, events, saved>>
     ELSE /\ entities' = RunTick(w.es) \o NewSpawns(spawn_points)
          /\ spawn_points' = TickSpawns(spawn_points)
          /\ E!TickPeriodicEvents(current_tick')
          /\ saved' = entities'
  /\ UNCHANGED restarts

\* main.rs starts from the saved world, from_state: the tick count, the spawn
\* points and the event manager begin anew.
Restart ==
  /\ restarts < MaxRestarts
  /\ restarts' = restarts + 1
  /\ IF saved = <<>>
     THEN entities' = NewSpawns(FreshPoints) /\ spawn_points' = TickSpawns(FreshPoints)
     ELSE entities' = saved /\ spawn_points' = FreshPoints
  /\ current_events' = <<>> /\ ground_items' = <<>> /\ next_drop_id' = 1
  /\ is_day' = TRUE /\ weather' = "Clear"
  /\ current_tick' = 0 /\ failed' = FALSE
  /\ UNCHANGED <<saved, blocks>>

Next ==
  \/ \E a \in Action : Tick(<<a>>) \/ \E b \in Action : Tick(<<a, b>>)
  \/ Restart

Spec == Init /\ [][Next]_vars

-----------------------------------------------------------------------------
TypeOK ==
  /\ \A id \in DOMAIN entities :
       /\ entities[id].kind \in Kinds \cup Address
       /\ entities[id].health \in 0..entities[id].maximum
  /\ \A p \in Points : spawn_points[p].current_count \in 0..max_count(p)
  /\ current_tick \in 0..blocks /\ failed \in BOOLEAN

\* Whatever the players of a block do to each other, after a tick that
\* succeeds every player is alive with health left, each address has one
\* entity, an entity is dead exactly when its health is gone, and nobody is
\* below the ground.
WorldSettled ==
  /\ \A a \in Address : Cardinality(Players(entities, a)) <= 1
  /\ \A id \in DOMAIN entities : LET e == entities[id] IN
       /\ e.is_dead <=> e.health = 0
       /\ ~failed => /\ e.kind \in Address => ~e.is_dead
                     /\ e.place # "below"

\* The NPCs of a kind are those its spawn points count, and never more than
\* their maxima; only a restart, which loses the counts, repeats them.
NpcPopulation ==
  \A kind \in Kinds :
    LET of == {p \in Points : archetype(p) = kind}
        npcs == Cardinality({id \in DOMAIN entities : entities[id].kind = kind})
        counted == MapThenSumSet(LAMBDA p : spawn_points[p].current_count, of)
    IN  /\ restarts = 0 => npcs = counted
        /\ npcs <= (1 + restarts) * MapThenSumSet(max_count, of)
=============================================================================
