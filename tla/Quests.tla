------------------------------- MODULE Quests -------------------------------
(***************************************************************************)
(* Quests (game-engine/src/quests.rs), for one player.  An objective is a  *)
(* kind of event, what it is about, and how often it has to happen; its    *)
(* progress is complete when it has.  No function of the registry reports  *)
(* Explore, Deliver or TalkTo events.                                      *)
(***************************************************************************)
EXTENDS Naturals, Sequences, FiniteSets, Functions

CONSTANTS
  registered,    \* quests added with register: id |-> QuestDef
  Asked,         \* the quest ids the player asks for
  player_level,  \* the level of the player
  MaxUnits       \* bound: kind of event |-> units reported about one thing

VARIABLES
  active,      \* quest id |-> progress of each objective
  completed,   \* ids of the completed quests
  rewards,     \* quest id |-> rewards handed out so far
  happened     \* what an event is about |-> units reported so far

vars == <<active, completed, rewards, happened>>

-----------------------------------------------------------------------------
Kinds == {"Kill", "Gather", "Craft", "Explore", "Deliver", "TalkTo"}
Objective(kind, about, count) == [kind |-> kind, about |-> about, count |-> count]

QuestDef(required_level, prerequisites, repeatable, objectives) ==
  [required_level |-> required_level, prerequisites |-> prerequisites,
   repeatable |-> repeatable, objectives |-> objectives]

TutorialQuests ==
  [q \in {1, 2, 3} |->
     CASE q = 1 -> QuestDef(1, {}, FALSE, <<Objective("Explore", "place", 1)>>)
       [] q = 2 -> QuestDef(1, {}, TRUE, <<Objective("Gather", "wood", 5)>>)
       [] q = 3 -> QuestDef(2, {1}, FALSE, <<Objective("Kill", "wolf", 3)>>)]
MidLevelQuests ==
  [q \in {10, 11, 12} |->
     CASE q = 10 -> QuestDef(3, {}, TRUE, <<Objective("Gather", "ore", 10)>>)
       [] q = 11 -> QuestDef(2, {}, FALSE, <<Objective("TalkTo", "merchant", 1),
                                             Objective("Deliver", "wood", 5)>>)
       [] q = 12 -> QuestDef(3, {10}, FALSE, <<Objective("Craft", "sword", 1)>>)]
HighLevelQuests ==
  [q \in {20, 21, 22} |->
     CASE q = 20 -> QuestDef(10, {3}, FALSE, <<Objective("Kill", "dragon", 1)>>)
       [] q = 21 -> QuestDef(5, {3}, TRUE, <<Objective("Kill", "skeleton", 10)>>)
       [] q = 22 -> QuestDef(15, {12, 20}, FALSE, <<Objective("Craft", "slayer", 1)>>)]

\* register replaces a quest of the same id.
quests ==
  [q \in DOMAIN registered \cup DOMAIN TutorialQuests \cup DOMAIN MidLevelQuests
         \cup DOMAIN HighLevelQuests |->
     CASE q \in DOMAIN registered -> registered[q]
       [] q \in DOMAIN TutorialQuests \ DOMAIN registered -> TutorialQuests[q]
       [] q \in DOMAIN MidLevelQuests \ DOMAIN registered -> MidLevelQuests[q]
       [] q \in DOMAIN HighLevelQuests \ DOMAIN registered -> HighLevelQuests[q]]
max_active == 5

Objectives(q) == quests[q].objectives
\* What the events of a kind can be about.
Things(kind) ==
  UNION {{o.about : o \in {o \in Range(Objectives(q)) : o.kind = kind}} :
           q \in Asked \cap DOMAIN quests}
About == UNION {Things(kind) : kind \in Kinds}

TypeOK ==
  /\ \A q \in DOMAIN active : DOMAIN active[q] = DOMAIN Objectives(q)
  /\ DOMAIN active \cup completed \subseteq DOMAIN quests
  /\ rewards \in [DOMAIN quests -> Nat]
  /\ happened \in [About -> Nat]

Init ==
  /\ active = [q \in {} |-> <<>>]
  /\ completed = {}
  /\ rewards = [q \in DOMAIN quests |-> 0]
  /\ happened = [a \in About |-> 0]

Done(q, i) == active[q][i] >= Objectives(q)[i].count
IsComplete(q) == \A i \in DOMAIN active[q] : Done(q, i)

-----------------------------------------------------------------------------
AcceptQuest(q) ==
  /\ q \in DOMAIN quests
  /\ player_level >= quests[q].required_level
  /\ quests[q].prerequisites \subseteq completed
  /\ q \notin DOMAIN active
  /\ quests[q].repeatable \/ q \notin completed
  /\ Cardinality(DOMAIN active) < max_active
  /\ active' = [r \in DOMAIN active \cup {q} |->
                  IF r = q THEN [i \in DOMAIN Objectives(q) |-> 0] ELSE active[r]]
  /\ UNCHANGED <<completed, rewards, happened>>

\* The progress of the open objectives of this kind about this thing, where
\* what a gather or a craft reports beyond the count is cut off.
Progress(kind, about, quantity) ==
  [q \in DOMAIN active |-> [i \in DOMAIN active[q] |->
     LET o == Objectives(q)[i] IN
     IF o.kind # kind \/ o.about # about \/ Done(q, i) THEN active[q][i]
     ELSE IF active[q][i] + quantity >= o.count THEN o.count
     ELSE active[q][i] + quantity]]

Report(kind, about, quantity) ==
  /\ happened[about] + quantity <= MaxUnits[kind]
  /\ happened' = [happened EXCEPT ![about] = @ + quantity]
  /\ active' = Progress(kind, about, quantity)
  /\ UNCHANGED <<completed, rewards>>

OnKill(npc_type) == Report("Kill", npc_type, 1)
OnGather(item_id, quantity) == Report("Gather", item_id, quantity)
OnCraft(item_id, quantity) == Report("Craft", item_id, quantity)

\* Leaves the completed quests among the active ones.
CheckWithoutRemoval ==
  LET done == {q \in DOMAIN active : IsComplete(q)} IN
  /\ done # {}
  /\ rewards' = [q \in DOMAIN quests |-> rewards[q] + IF q \in done THEN 1 ELSE 0]
  /\ completed' = completed \cup done
  /\ UNCHANGED <<active, happened>>

CheckCompletions ==
  LET done == {q \in DOMAIN active : IsComplete(q)} IN
  /\ done # {}
  /\ rewards' = [q \in DOMAIN quests |-> rewards[q] + IF q \in done THEN 1 ELSE 0]
  /\ active' = [q \in DOMAIN active \ done |-> active[q]]
  /\ completed' = completed \cup done
  /\ UNCHANGED happened

Next ==
  \/ \E q \in Asked : AcceptQuest(q)
  \/ \E npc_type \in Things("Kill") : OnKill(npc_type)
  \/ \E item_id \in Things("Gather"), quantity \in {4, 10} : OnGather(item_id, quantity)
  \/ \E item_id \in Things("Craft") : OnCraft(item_id, 1)
  \/ CheckCompletions

Spec == Init /\ [][Next]_vars

-----------------------------------------------------------------------------
\* Every reward is earned: each reward of a quest took its own full count of
\* the events of each objective, one event never counts for two rewards of
\* the same quest, a quest that cannot be repeated pays once, and nothing pays
\* before the quests it builds on.
RewardsEarned ==
  \A q \in DOMAIN quests : rewards[q] > 0 =>
    /\ quests[q].repeatable \/ rewards[q] = 1
    /\ \A p \in quests[q].prerequisites : rewards[p] > 0
    /\ \A i \in DOMAIN Objectives(q) :
         rewards[q] * Objectives(q)[i].count <= happened[Objectives(q)[i].about]
=============================================================================
