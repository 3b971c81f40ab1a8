------------------------------- MODULE Skills -------------------------------
(***************************************************************************)
(* Skill points and skill trees (game-engine/src/skills.rs), for one       *)
(* player.  The caller raises player_level and awards the points of the    *)
(* level that is reached.                                                  *)
(***************************************************************************)
EXTENDS Naturals, FiniteSetsExt

CONSTANTS
  Chosen,      \* the skill ids the player asks for, registered or not
  MaxLevel     \* bound: levels the player reaches

VARIABLES
  player_level,
  skills,              \* skill id |-> level; no entry is level 0
  available_points,
  total_points_earned

vars == <<player_level, skills, available_points, total_points_earned>>

-----------------------------------------------------------------------------
SkillDef(max_level, cost_per_level, required_level, prerequisites) ==
  [max_level |-> max_level, cost_per_level |-> cost_per_level,
   required_level |-> required_level, prerequisites |-> prerequisites]

\* Strength, Toughness, Precision and Devastation.
CombatTree ==
  [i \in 1..4 |->
     CASE i = 1 -> SkillDef(10, 1, 1, {})
       [] i = 2 -> SkillDef(10, 1, 1, {})
       [] i = 3 -> SkillDef(5, 2, 3, {<<1, 3>>})
       [] i = 4 -> SkillDef(5, 2, 5, {<<3, 2>>})]

\* Prospector, Lucky Find; Efficient Crafting; Vitality, Regeneration, Swiftness.
OtherTrees ==
  [i \in {10, 11, 20, 30, 31, 32} |->
     CASE i = 10 -> SkillDef(10, 1, 1, {})
       [] i = 11 -> SkillDef(5, 2, 5, {<<10, 3>>})
       [] i = 20 -> SkillDef(5, 2, 2, {})
       [] i = 30 -> SkillDef(10, 1, 1, {})
       [] i = 31 -> SkillDef(5, 2, 3, {<<30, 3>>})
       [] i = 32 -> SkillDef(5, 1, 2, {})]

Registered == DOMAIN CombatTree \cup DOMAIN OtherTrees
Skill(i) == IF i \in DOMAIN CombatTree THEN CombatTree[i] ELSE OtherTrees[i]

TypeOK ==
  /\ player_level \in 1..MaxLevel
  /\ DOMAIN skills \subseteq Registered
  /\ \A i \in DOMAIN skills : skills[i] \in 1..Skill(i).max_level
  /\ available_points \in Nat /\ total_points_earned \in Nat

Init ==
  /\ player_level = 1
  /\ skills = [i \in {} |-> 0]
  /\ available_points = 0 /\ total_points_earned = 0

SkillLevel(i) == IF i \in DOMAIN skills THEN skills[i] ELSE 0

SkillPointsPerLevel(level) ==
  CASE level \in 1..5 -> 1 [] level \in 6..10 -> 2 [] level \in 11..20 -> 3
    [] OTHER -> 4

-----------------------------------------------------------------------------
AwardLevelUpPoints ==
  LET points == SkillPointsPerLevel(player_level + 1) IN
  /\ player_level < MaxLevel
  /\ player_level' = player_level + 1
  /\ available_points' = available_points + points
  /\ total_points_earned' = total_points_earned + points
  /\ UNCHANGED skills

\* Compares the points with 1 instead of the cost of the skill, and saturates.
AllocateAny(i) ==
  /\ i \in Registered /\ SkillLevel(i) < Skill(i).max_level
  /\ player_level >= Skill(i).required_level
  /\ \A pre \in Skill(i).prerequisites : SkillLevel(pre[1]) >= pre[2]
  /\ available_points >= 1
  /\ available_points' = Max({available_points, Skill(i).cost_per_level}) - Skill(i).cost_per_level
  /\ skills' = [j \in DOMAIN skills \cup {i} |->
                  IF j = i THEN SkillLevel(i) + 1 ELSE skills[j]]
  /\ UNCHANGED <<player_level, total_points_earned>>

AllocatePoint(i) ==
  /\ i \in Registered
  /\ SkillLevel(i) < Skill(i).max_level
  /\ player_level >= Skill(i).required_level
  /\ \A pre \in Skill(i).prerequisites : SkillLevel(pre[1]) >= pre[2]
  /\ available_points >= Skill(i).cost_per_level
  /\ available_points' = available_points - Skill(i).cost_per_level
  /\ skills' = [j \in DOMAIN skills \cup {i} |->
                  IF j = i THEN SkillLevel(i) + 1 ELSE skills[j]]
  /\ UNCHANGED <<player_level, total_points_earned>>

Next == AwardLevelUpPoints \/ \E i \in Chosen : AllocatePoint(i)

Spec == Init /\ [][Next]_vars

-----------------------------------------------------------------------------
\* Whatever the order of awards and allocations, every level of every skill
\* has been paid for with points earned by levelling up, and what allocate_point
\* asked for when a skill was raised (player level, prerequisites) still holds.
SkillsPaidFor ==
  /\ total_points_earned = MapThenSumSet(SkillPointsPerLevel, 2..player_level)
  /\ available_points + MapThenSumSet(LAMBDA i : skills[i] * Skill(i).cost_per_level,
                                      DOMAIN skills) = total_points_earned
  /\ \A i \in DOMAIN skills :
       /\ player_level >= Skill(i).required_level
       /\ \A pre \in Skill(i).prerequisites : SkillLevel(pre[1]) >= pre[2]
=============================================================================
