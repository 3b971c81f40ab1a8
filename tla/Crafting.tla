------------------------------ MODULE Crafting ------------------------------
(***************************************************************************)
(* Crafting (game-engine/src/crafting.rs) from the loot of NPCs: a roll of *)
(* a drop table adds to the player's inventory, execute_craft turns        *)
(* materials into items.                                                   *)
(***************************************************************************)
EXTENDS Items

CONSTANTS
  Creature,      \* the kinds of NPC that are looted
  player_level,  \* the level of the player
  MaxLoot        \* bound: units of loot

VARIABLES
  inventory,  \* item id |-> quantity; no entry is none
  looted,     \* units looted so far
  crafted     \* successful calls of execute_craft so far

vars == <<inventory, looted, crafted>>

-----------------------------------------------------------------------------
\* A recipe: what it takes, the item and the quantity it makes, and its level.
CraftingRecipe(materials, item_id, quantity, required_level) ==
  [materials |-> materials, item_id |-> item_id, quantity |-> quantity,
   required_level |-> required_level]

One(i, n) == [m \in {i} |-> n]
Two(i, n, j, k) == [m \in {i, j} |-> IF m = i THEN n ELSE k]

WeaponRecipes ==
  [id \in 1..4 |->
     CASE id = 1 -> CraftingRecipe(One(31, 5), 1, 1, 1)
       [] id = 2 -> CraftingRecipe(Two(30, 5, 31, 2), 2, 1, 3)
       [] id = 3 -> CraftingRecipe(Two(30, 15, 31, 5), 3, 1, 8)
       [] id = 4 -> CraftingRecipe([m \in 30..32 |-> <<30, 10, 5>>[m - 29]], 4, 1, 15)]
ArmorRecipes ==
  [id \in 10..12 |->
     CASE id = 10 -> CraftingRecipe(One(31, 3), 10, 1, 1)
       [] id = 11 -> CraftingRecipe(Two(30, 10, 31, 3), 11, 1, 5)
       [] id = 12 -> CraftingRecipe(Two(30, 8, 31, 2), 12, 1, 4)]
ConsumableRecipes ==
  [id \in 20..22 |->
     CASE id = 20 -> CraftingRecipe(One(31, 2), 20, 2, 1)
       [] id = 21 -> CraftingRecipe(Two(20, 3, 32, 1), 21, 1, 10)
       [] id = 22 -> CraftingRecipe(One(31, 1), 22, 2, 1)]

\* Returns the ore it smelts as well.
GenerousRecipes == [id \in {30} |-> CraftingRecipe(Two(30, 3, 31, 1), 30, 4, 2)]
MaterialRecipes == [id \in {30} |-> CraftingRecipe(Two(30, 3, 31, 1), 30, 2, 2)]

recipes ==
  [id \in 1..4 \cup 10..12 \cup 20..22 \cup {30} |->
     CASE id \in 1..4 -> WeaponRecipes[id]
       [] id \in 10..12 -> ArmorRecipes[id]
       [] id \in 20..22 -> ConsumableRecipes[id]
       [] id = 30 -> MaterialRecipes[id]]

Init == inventory = [i \in {} |-> 0] /\ looted = 0 /\ crafted = 0

Held(i) == IF i \in DOMAIN inventory THEN inventory[i] ELSE 0

\* The inventory of the quantities q, without the entries that are 0.
Inventory(q) == [i \in {j \in DOMAIN Registry : q[j] > 0} |-> q[i]]

Loot(npc) ==
  /\ looted < MaxLoot
  /\ \E drop \in Drops(drop_tables[npc]) :
       /\ drop.quantity \in 1..(MaxLoot - looted)
       /\ inventory' = Inventory([i \in DOMAIN Registry |->
                         Held(i) + IF i = drop.item_id THEN drop.quantity ELSE 0])
       /\ looted' = looted + drop.quantity
  /\ UNCHANGED crafted

CanCraft(id) ==
  LET r == recipes[id] IN
  /\ player_level >= r.required_level
  /\ \A mat \in DOMAIN r.materials : Held(mat) >= r.materials[mat]

\* The materials are consumed first: a recipe may make what it takes.
ExecuteCraft(id) ==
  LET r == recipes[id]
      After(i) == Held(i) - (IF i \in DOMAIN r.materials THEN r.materials[i] ELSE 0)
                          + (IF i = r.item_id THEN r.quantity ELSE 0)
  IN
  /\ CanCraft(id)
  /\ inventory' = Inventory([i \in DOMAIN Registry |-> After(i)])
  /\ crafted' = crafted + 1
  /\ UNCHANGED looted

Next ==
  \/ \E npc \in Creature : Loot(npc)
  \/ \E id \in DOMAIN recipes : ExecuteCraft(id)

Spec == Init /\ [][Next]_vars

-----------------------------------------------------------------------------
TypeOK ==
  /\ DOMAIN inventory \subseteq DOMAIN Registry
  /\ \A i \in DOMAIN inventory : inventory[i] \in Nat \ {0}
  /\ looted \in 0..MaxLoot /\ crafted \in Nat

\* Every call of execute_craft uses up raw material (ore, wood or scales) that
\* no recipe gives back: no chain of recipes, the one that smelts ore into ore
\* included, runs for ever or makes more items than its loot allows.
CraftingConsumes ==
  MapThenSumSet(Held, 30..32) + crafted <= looted

\* DropTable::roll reads every weight, nothing_weight too, as a share of their sum:
\* of the total_weight residues exactly nothing_weight give no drop and weight give
\* the entry, in every table; and the quantities are those between the minimum and
\* the maximum.  It is no percentage, see NothingIsAPercentage.
DropOdds ==
  \A npc \in DOMAIN drop_tables : LET table == drop_tables[npc]
                                     all == 0..TotalWeight(table) - 1 IN
    /\ Quantify(all, LAMBDA r : Roll(table, r) = {}) = table.nothing_weight
    /\ \A e \in Range(table.entries) :
         Quantify(all, LAMBDA r : Roll(table, r) =
           {[item_id |-> e.item_id, quantity |-> q] : q \in e.min_quantity..e.max_quantity})
         = e.weight

\* "Chance of dropping nothing (0-100)." (items.rs:126): nothing_weight in a hundred
\* rolls give no drop.
NothingIsAPercentage ==
  \A npc \in DOMAIN drop_tables :
    LET table == drop_tables[npc]
        none == {r \in 0..TotalWeight(table) - 1 : Roll(table, r) = {}}
    IN 100 * Cardinality(none) = table.nothing_weight * TotalWeight(table)
=============================================================================
