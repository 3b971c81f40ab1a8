-------------------------------- MODULE Items --------------------------------
(***************************************************************************)
(* The item registry and the drop tables (game-engine/src/items.rs, and    *)
(* the items crafting.rs adds).  The keccak hash behind a roll is external *)
(* and can give any residue.                                               *)
(***************************************************************************)
EXTENDS Naturals, Sequences, FiniteSetsExt

ItemDef(category, max_stack, value) ==
  [category |-> category, max_stack |-> max_stack, value |-> value]

Weapons ==
  [i \in 1..4 |-> ItemDef("Weapon", 1, <<10, 50, 200, 5000>>[i])]
Armor ==
  [i \in 10..12 |-> ItemDef("Armor", 1, <<15, 80, 60>>[i - 9])]
Consumables ==
  [i \in 20..22 |-> ItemDef("Consumable", IF i = 22 THEN 20 ELSE 10, <<25, 75, 5>>[i - 19])]
Materials ==
  [i \in 30..32 |-> ItemDef("Material", IF i = 32 THEN 10 ELSE 50, <<3, 1, 500>>[i - 29])]
CraftingItems ==
  [i \in 33..35 |-> ItemDef("Material", 50, <<8, 5, 3>>[i - 32])]

default_registry ==
  [i \in DOMAIN Weapons \cup DOMAIN Armor \cup DOMAIN Consumables \cup DOMAIN Materials |->
     CASE i \in DOMAIN Weapons -> Weapons[i] [] i \in DOMAIN Armor -> Armor[i]
       [] i \in DOMAIN Consumables -> Consumables[i] [] i \in DOMAIN Materials -> Materials[i]]

\* The registry after register_crafting_items.
Registry ==
  [i \in DOMAIN default_registry \cup DOMAIN CraftingItems |->
     IF i \in DOMAIN default_registry THEN default_registry[i] ELSE CraftingItems[i]]

Value(i) == Registry[i].value

-----------------------------------------------------------------------------
DropEntry(item_id, weight, min_quantity, max_quantity) ==
  [item_id |-> item_id, weight |-> weight, min_quantity |-> min_quantity,
   max_quantity |-> max_quantity]

DropTable(nothing_weight, entries) ==
  [nothing_weight |-> nothing_weight, entries |-> entries]

MerchantDrops == DropTable(50, <<DropEntry(20, 30, 1, 2), DropEntry(31, 40, 1, 3)>>)
GuardDrops ==
  DropTable(30, <<DropEntry(1, 20, 1, 1), DropEntry(2, 5, 1, 1),
                  DropEntry(10, 15, 1, 1), DropEntry(30, 30, 1, 5)>>)
WolfDrops == DropTable(40, <<DropEntry(22, 40, 1, 2), DropEntry(31, 20, 1, 1)>>)
DragonDrops ==
  DropTable(5, <<DropEntry(4, 2, 1, 1), DropEntry(3, 10, 1, 1),
                 DropEntry(32, 30, 1, 3), DropEntry(21, 20, 1, 2)>>)

drop_tables == [merchant |-> MerchantDrops, guard |-> GuardDrops,
                wolf |-> WolfDrops, dragon |-> DragonDrops]

\* The sum of nothing_weight and the weights of the first k entries.
Cumulative(table, k) ==
  table.nothing_weight + MapThenSumSet(LAMBDA j : table.entries[j].weight, 1..k)

TotalWeight(table) == Cumulative(table, Len(table.entries))

Taken(e, extra) ==
  [item_id |-> e.item_id,
   quantity |-> e.min_quantity + (extra % (e.max_quantity - e.min_quantity + 1))]

\* Lets the boundary of an entry fall to the entry before it.
HitInclusive(table, roll) ==
  {k \in DOMAIN table.entries : Cumulative(table, k - 1) < roll /\ roll <= Cumulative(table, k)}

\* The entry that the residue roll of the first hash falls on, if any: the first
\* whose cumulative weight is above the roll.
Hit(table, roll) ==
  {k \in DOMAIN table.entries : Cumulative(table, k - 1) <= roll /\ roll < Cumulative(table, k)}

\* The drops for the residue roll of the first hash; the second hash decides
\* the quantity, which has at most 5 values.
Roll(table, roll) ==
  {Taken(table.entries[k], extra) : k \in Hit(table, roll), extra \in 0..4}

\* The drops a table can give.
Drops(table) ==
  {Taken(table.entries[k], extra) :
     k \in UNION {Hit(table, roll) : roll \in 0..TotalWeight(table) - 1}, extra \in 0..4}
=============================================================================
