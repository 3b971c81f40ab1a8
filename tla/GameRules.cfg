SPECIFICATION MCSpec
CONSTANTS
  Parts <- MCParts
  Player = {"ann", "bob", "cid"}
  Item = {"sword"}
  default_timeout = 0
  MaxTrades = 2
  MaxQuantity = 1
  Creature = {"guard", "merchant", "dragon"}
  crafter_level = 10
  MaxLoot = 5
  registered <- MCRegistered
  Asked = {1, 2, 10, 11, 12, 40}
  quest_level = 3
  MaxUnits <- MCUnits
  Chosen = {1, 3, 4, 20, 99}
  MaxLevel = 9
  day_cycle_ticks = 6
  weather_interval_ticks = 3
  resource_ticks = 4
  wave_ticks = 5
  despawn_ticks = 2
  WeatherType = {"Clear", "Rain"}
  Spot = {"here", "there"}
  Reach <- MCReach
  MaxTick = 7
  MaxDrops = 2
  Address = {"ann", "bob"}
  Points = {9}
  RespawnUnit = 250
  Repeats = {1, 10}
  MaxBlocks = 3
  MaxRestarts = 1
  Finger = {1, 2}
  Point <- MCPoint
  Delta = {4, 10}
  MaxTime = 18
  BgmTrack = {"Town", "Boss"}
  AmbientSound = {"Rain"}
  SfxId = {"Heal"}
  sfx_cooldown = 2
  FadeFrames = 2
  SoundFrames = 5
  max_visible = 1
  default_duration = 2
  Durations = {1}
  PanelFrames = 3
  MaxNotices = 3
  max_particles = 22
  Batches <- MCBatches
  BurstFrames = 3
INVARIANTS
  CraftingConsumes
  DropOdds
  RewardsEarned
  SkillsPaidFor
  WorldSettled
  
  OneGesturePerTouch
  PanelsInStep
  SoundSettles
  ParticlesBounded
PROPERTIES
  TradeIsExchange
  ShopsSettle
\* Quests, skills, crafting and the bounded client parts come to an end.
CHECK_DEADLOCK FALSE
