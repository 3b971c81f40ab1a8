----------------------------- MODULE WorldEvents -----------------------------
(***************************************************************************)
(* The event manager of the game world (game-engine/src/events.rs): the    *)
(* buffer of events, items on the ground, day, night and weather.  A       *)
(* ground item keeps its id, its place and the tick it was dropped at.     *)
(***************************************************************************)
EXTENDS Naturals, Sequences, FiniteSetsExt, Retain

CONSTANTS
  day_cycle_ticks,         \* 6000 in the code, as the next ones 3000,
  weather_interval_ticks,
  resource_ticks,          \* 1000,
  wave_ticks,              \* 5000
  despawn_ticks,           \* and 600
  WeatherType,             \* Clear, Rain, Storm, Fog, Snow
  Spot,                    \* places where items lie
  Reach,                   \* the pairs of places within pickup range
  MaxTick, MaxDrops        \* bounds: ticks, items ever dropped

VARIABLES
  tick,            \* the tick of the world
  current_events,  \* the events emitted and not drained yet
  ground_items,    \* the items on the ground, oldest first
  next_drop_id,
  is_day,
  weather

vars == <<tick, current_events, ground_items, next_drop_id, is_day, weather>>

TypeOK ==
  /\ \A i \in DOMAIN ground_items :
       ground_items[i] \in [drop_id: 1..next_drop_id, spot: Spot, dropped_at: Nat]
  /\ \A i \in DOMAIN current_events :
       current_events[i].kind \in {"ItemDropped", "ItemPickedUp", "DayNightTransition",
                                   "WeatherChange", "ResourceRespawn", "EnemyWave"}
  /\ next_drop_id \in Nat \ {0} /\ is_day \in BOOLEAN /\ weather \in WeatherType

Init ==
  /\ tick = 0 /\ current_events = <<>> /\ ground_items = <<>> /\ next_drop_id = 1
  /\ is_day = TRUE /\ weather = "Clear"

-----------------------------------------------------------------------------
DrainEvents ==
  /\ current_events # <<>>
  /\ current_events' = <<>>
  /\ UNCHANGED <<tick, ground_items, next_drop_id, is_day, weather>>

DropItem(spot) ==
  /\ next_drop_id <= MaxDrops
  /\ ground_items' = Append(ground_items,
       [drop_id |-> next_drop_id, spot |-> spot, dropped_at |-> tick])
  /\ current_events' = Append(current_events, [kind |-> "ItemDropped", what |-> next_drop_id])
  /\ next_drop_id' = next_drop_id + 1
  /\ UNCHANGED <<tick, is_day, weather>>

\* Takes the oldest item in reach.
TryPickup(spot) ==
  LET near == {i \in DOMAIN ground_items : <<ground_items[i].spot, spot>> \in Reach} IN
  /\ near # {}
  /\ ground_items' = Kept(ground_items, DOMAIN ground_items \ {Min(near)})
  /\ current_events' = Append(current_events,
       [kind |-> "ItemPickedUp", what |-> ground_items[Min(near)].drop_id])
  /\ UNCHANGED <<tick, next_drop_id, is_day, weather>>

Every(n, now) == n > 0 /\ now % n = 0

\* The events a tick emits, in order, when its hash selects this weather.
Emitted(now, chosen) ==
  (IF Every(day_cycle_ticks, now)
   THEN <<[kind |-> "DayNightTransition", what |-> ~is_day]>> ELSE <<>>)
  \o (IF chosen # weather
      THEN <<[kind |-> "WeatherChange", what |-> chosen]>> ELSE <<>>)
  \o (IF Every(resource_ticks, now) /\ now > 0
      THEN <<[kind |-> "ResourceRespawn", what |-> now]>> ELSE <<>>)
  \o (IF Every(wave_ticks, now) /\ now > 0
      THEN <<[kind |-> "EnemyWave", what |-> Min({now \div wave_ticks, 5})]>> ELSE <<>>)

Since(now, start) == IF now > start THEN now - start ELSE 0

\* Counts back to the tick before the one the item was dropped at.
LivesOn(item, now) == despawn_ticks = 0 \/ Since(now, item.dropped_at) < despawn_ticks + 1
Stays(item, now) == despawn_ticks = 0 \/ Since(now, item.dropped_at) < despawn_ticks

TickPeriodicEvents(now) ==
  \E chosen \in IF Every(weather_interval_ticks, now) THEN WeatherType ELSE {weather} :
    /\ is_day' = IF Every(day_cycle_ticks, now) THEN ~is_day ELSE is_day
    /\ weather' = chosen
    /\ current_events' = current_events \o Emitted(now, chosen)
    /\ ground_items' = Kept(ground_items,
         {i \in DOMAIN ground_items : Stays(ground_items[i], now)})
    /\ UNCHANGED next_drop_id

Tick ==
  /\ tick < MaxTick
  /\ tick' = tick + 1
  /\ TickPeriodicEvents(tick + 1)

Next ==
  \/ Tick \/ DrainEvents
  \/ \E spot \in Spot : DropItem(spot) \/ TryPickup(spot)

Spec == Init /\ [][Next]_vars

-----------------------------------------------------------------------------
\* The buffer tells the truth about the world: an item is picked up once, after
\* it was dropped and never from an expired or a taken drop; what lies on the
\* ground is younger than despawn_ticks; day and night follow the clock.
EventsTellTheWorld ==
  LET picked == {i \in DOMAIN current_events : current_events[i].kind = "ItemPickedUp"}
      lying == {ground_items[i].drop_id : i \in DOMAIN ground_items}
  IN
  /\ \A i \in picked : LET id == current_events[i].what IN
       /\ id < next_drop_id /\ id \notin lying
       /\ \A j \in DOMAIN current_events \ {i} :
            /\ current_events[j] # current_events[i]
            /\ current_events[j] = [kind |-> "ItemDropped", what |-> id] => j < i
  /\ Cardinality(lying) = Len(ground_items)
  /\ \A i \in DOMAIN ground_items : tick - ground_items[i].dropped_at < despawn_ticks
  /\ is_day <=> (tick \div day_cycle_ticks) % 2 = 0
=============================================================================
