------------------------------- MODULE MCGame -------------------------------
(***************************************************************************)
(* The rules of the game and the state machines of its client, which share *)
(* no state: one part runs in each behaviour and the others keep their     *)
(* initial state.  The event manager runs inside the world, with the clock *)
(* of the code, and on its own, with a short one.                          *)
(***************************************************************************)
EXTENDS Trading, TLC, FiniteSets

CONSTANTS
  Parts,                                                              \* those that run
  Creature, crafter_level, MaxLoot,                                   \* Crafting
  registered, Asked, quest_level, MaxUnits,                           \* Quests
  Chosen, MaxLevel,                                                   \* Skills
  day_cycle_ticks, weather_interval_ticks, resource_ticks, wave_ticks,
  despawn_ticks, WeatherType, Spot, Reach, MaxTick, MaxDrops,         \* WorldEvents
  Address, Points, RespawnUnit, Repeats, MaxBlocks, MaxRestarts,      \* GameWorld
  Finger, Point, Delta, MaxTime,                                      \* TouchInput
  max_visible, default_duration, Durations, PanelFrames, MaxNotices,  \* Panels
  BgmTrack, AmbientSound, SfxId, sfx_cooldown, FadeFrames, SoundFrames,  \* Sound
  max_particles, Batches, BurstFrames                                 \* Particles

VARIABLES
  part,                                                  \* the part that runs
  stock, restocked, buy_volume, sell_volume, window_ticks, deals,  \* Shops
  inventory, looted, crafted,                            \* Crafting
  active, completed, rewards, happened,                  \* Quests
  player_level, skills, available_points, total_points_earned,  \* Skills
  entities, spawn_points, failed, saved, blocks, restarts,  \* GameWorld
  current_tick, current_events, ground_items, next_drop_id, is_day, weather,
                                                         \* WorldEvents
  now, pressed, touches, last_tap, prev_pinch, joystick, told, cancelled,
  lost,                                                  \* TouchInput
  open, active_panel, display, events, notifications, frames, pushed, keyed,
  deadline,                                              \* Panels
  current_bgm, target_bgm, crossfading, crossfade_progress, current_ambient,
  recent_sfx, sfx_queue, heard, asked, overruled,        \* Sound
  sprites, numbers, unread, bursts, quiet                \* Particles

S == INSTANCE Shops WITH Goods <- {10}, TickUnit <- 100, MaxDeals <- 3

C == INSTANCE Crafting WITH player_level <- crafter_level

Q == INSTANCE Quests WITH player_level <- quest_level

K == INSTANCE Skills

W == INSTANCE GameWorld

V == INSTANCE WorldEvents WITH tick <- current_tick

T == INSTANCE TouchInput

P == INSTANCE Panels WITH MaxFrames <- PanelFrames

B == INSTANCE Sound WITH now <- heard, MaxFrames <- SoundFrames

F == INSTANCE Particles WITH frames <- bursts, MaxFrames <- BurstFrames

ASSUME CraftingAssumption == MaxLoot \in Nat

ASSUME QuestAssumption ==
  \A q \in DOMAIN registered : LET o == registered[q].objectives IN
    \A i \in DOMAIN o : o[i].count \in Nat /\ o[i].kind \in Q!Kinds

\* The cycle is a number of ticks, and so is the time an item lies.
ASSUME EventAssumption ==
  /\ day_cycle_ticks \in Nat \ {0} /\ despawn_ticks \in Nat \ {0}
  /\ weather_interval_ticks \in Nat /\ resource_ticks \in Nat /\ wave_ticks \in Nat

\* The spawn points in use are some of the code's, and no player is called like a
\* kind of NPC.
ASSUME WorldAssumption ==
  /\ Points \subseteq DOMAIN W!spawn_configs /\ Address \cap W!Kinds = {}
  /\ RespawnUnit \in Nat \ {0} /\ Repeats \subseteq Nat

\* There are finitely many touch ids in use, and no finger touches the place that
\* stands for none.
ASSUME TouchAssumption ==
  IsFiniteSet(Finger) /\ Delta \subseteq Nat /\ T!Up \notin Point

ASSUME PanelAssumption ==
  max_visible \in Nat /\ default_duration \in Nat /\ Durations \subseteq Nat

ASSUME SoundAssumption == IsFiniteSet(SfxId) /\ sfx_cooldown \in Nat

ASSUME ParticleAssumption ==
  max_particles \in Nat /\ Batches \subseteq Seq(STRING)

\* Values for model checking.  Besides the quests of the code, one that pays once
\* and builds on another.
MCRegistered ==
  40 :> [required_level |-> 1, prerequisites |-> {2}, repeatable |-> FALSE,
         objectives |-> <<[kind |-> "Kill", about |-> "wolf", count |-> 2]>>]
MCUnits == [Kill |-> 2, Gather |-> 10, Craft |-> 1]
MCParts == {"trading", "shops", "crafting", "quests", "skills", "world", "events", "touch",
            "panels", "sound", "particles"}
MCReach == {<<"here", "here">>, <<"there", "there">>, <<"here", "there">>}
MCPoint == {<<600, 0>>, <<660, 0>>}
MCBatches == {<<>>, <<"LevelUp", "LevelUp">>, <<"ItemPickup">>,
              <<"AttackSpark", "DamageNumber", "DeathPoof">>, <<"SpawnGlow", "HealNumber">>}

shopVars == <<stock, restocked, buy_volume, sell_volume, window_ticks, deals>>
craftVars == <<inventory, looted, crafted>>
questVars == <<active, completed, rewards, happened>>
skillVars == <<player_level, skills, available_points, total_points_earned>>
worldVars == <<entities, spawn_points, failed, saved, blocks, restarts>>
eventVars == <<current_tick, current_events, ground_items, next_drop_id, is_day, weather>>
touchVars == <<now, pressed, touches, last_tap, prev_pinch, joystick, told,
               cancelled, lost>>
panelVars == <<open, active_panel, display, events, notifications, frames,
               pushed, keyed, deadline>>
soundVars == <<current_bgm, target_bgm, crossfading, crossfade_progress,
               current_ambient, recent_sfx, sfx_queue, heard, asked, overruled>>
spriteVars == <<sprites, numbers, unread, bursts, quiet>>

\* The rules of the economy, those of the world, and the client.
economyVars == <<vars, shopVars, craftVars, questVars, skillVars>>
sceneVars == <<worldVars, eventVars>>
clientVars == <<touchVars, panelVars, soundVars, spriteVars>>

allvars == <<part, economyVars, sceneVars, clientVars>>

MCInit ==
  /\ part \in Parts
  /\ Init /\ S!Init /\ C!Init /\ Q!Init /\ K!Init
  /\ W!Init
  /\ T!Init /\ P!Init /\ B!Init /\ F!Init

Trade ==
  /\ part = "trading" /\ Next
  /\ UNCHANGED <<part, shopVars, craftVars, questVars, skillVars, sceneVars, clientVars>>

Shop ==
  /\ part = "shops" /\ S!Next
  /\ UNCHANGED <<part, vars, craftVars, questVars, skillVars, sceneVars, clientVars>>

TickShops == part = "shops" /\ S!TickShops

Craft ==
  /\ part = "crafting" /\ C!Next
  /\ UNCHANGED <<part, vars, shopVars, questVars, skillVars, sceneVars, clientVars>>

Quest ==
  /\ part = "quests" /\ Q!Next
  /\ UNCHANGED <<part, vars, shopVars, craftVars, skillVars, sceneVars, clientVars>>

Learn ==
  /\ part = "skills" /\ K!Next
  /\ UNCHANGED <<part, vars, shopVars, craftVars, questVars, sceneVars, clientVars>>

Live ==
  /\ part = "world" /\ W!Next
  /\ UNCHANGED <<part, economyVars, clientVars>>

Happen ==
  /\ part = "events" /\ V!Next
  /\ UNCHANGED <<part, economyVars, worldVars, clientVars>>

Touch ==
  /\ part = "touch" /\ T!Next
  /\ UNCHANGED <<part, economyVars, sceneVars, panelVars, soundVars, spriteVars>>

Show ==
  /\ part = "panels" /\ P!Next
  /\ UNCHANGED <<part, economyVars, sceneVars, touchVars, soundVars, spriteVars>>

Play ==
  /\ part = "sound" /\ B!Next
  /\ UNCHANGED <<part, economyVars, sceneVars, touchVars, panelVars, spriteVars>>

Sparkle ==
  /\ part = "particles" /\ F!Next
  /\ UNCHANGED <<part, economyVars, sceneVars, touchVars, panelVars, soundVars>>

MCNext ==
  \/ Trade \/ Shop \/ Craft \/ Quest \/ Learn \/ Live \/ Happen
  \/ Touch \/ Show \/ Play \/ Sparkle

\* Where the shops run, so does their clock.
MCSpec == MCInit /\ [][MCNext]_allvars /\ WF_shopVars(TickShops)

-----------------------------------------------------------------------------
\* Each property is about one part and holds trivially while another runs.
\*
\* When players stop trading, tick_shops brings every shop back to full stock
\* and base prices.
ShopsSettle == S!ShopsSettle

\* execute_craft uses up raw material that no recipe gives back.
CraftingConsumes == part = "crafting" => C!CraftingConsumes

\* DropTable::roll gives nothing, and every entry, exactly as often as its share of
\* all weights of the table (a matter of the tables alone, looked at once).
DropOdds == part = "crafting" /\ looted = 0 => C!DropOdds

\* The documented chance of no drop, a percentage.
NothingIsAPercentage == part = "crafting" /\ looted = 0 => C!NothingIsAPercentage

\* check_completions pays a quest only for its own full count of events.
RewardsEarned == part = "quests" => Q!RewardsEarned

\* Every skill level is paid for with points from level-ups.
SkillsPaidFor == part = "skills" => K!SkillsPaidFor

\* After a tick the players are alive and above the ground, and the NPCs are
\* those that the spawn points count.
WorldSettled == part = "world" => W!WorldSettled /\ W!NpcPopulation

\* The event buffer and the clock of the event manager tell the truth.
EventsTellTheWorld == part = "events" => V!EventsTellTheWorld

\* A touch is at most one gesture, whatever the order of the two systems.
OneGesturePerTouch == part = "touch" => T!OneGesturePerTouch

\* The touch of every finger that is down is tracked.
ActiveTouchesTracked == part = "touch" => T!ActiveTouchesTracked

\* The panels shown, the flags and the keys pressed agree.
PanelsInStep == part = "panels" => P!PanelsInStep

\* "Each net buy adds 2%, each net sell subtracts 1%" (shops.rs:102).
PricesAsDocumented == part = "shops" => S!PricesAsDocumented

\* The music ends at the track asked for last.
SoundSettles == part = "sound" => B!SoundSettles

\* "Change background music track." (sound.rs:136): the last request is honoured.
MusicIsAsked == part = "sound" => B!MusicIsAsked

\* Particles exceed their limit by less than one burst and all go away.
ParticlesBounded == part = "particles" => F!ParticlesBounded
=============================================================================
