-------------------------------- MODULE Shops --------------------------------
(***************************************************************************)
(* NPC shops (game-engine/src/shops.rs): stock, restocking and prices that *)
(* follow demand.  Time is counted in units of TickUnit ticks, a divisor   *)
(* of every interval of the default shops; TickUnit = 1 is the code.  A    *)
(* listing keeps the ticks since its last restock, as far as they count.   *)
(***************************************************************************)
EXTENDS Integers, Items

CONSTANTS
  Goods,       \* the item ids that are traded, of those some shop lists
  TickUnit,    \* ticks per step of the clock
  MaxDeals     \* bound: successful calls of buy_item and sell_item

VARIABLES
  stock,         \* shop |-> item |-> units in stock
  restocked,     \* shop |-> item |-> ticks since last_restock_tick
  buy_volume,    \* shop |-> item |-> recent purchases
  sell_volume,   \* shop |-> item |-> recent sales
  window_ticks,  \* shop |-> ticks of the demand window
  deals          \* successful deals so far

vars == <<stock, restocked, buy_volume, sell_volume, window_ticks, deals>>

-----------------------------------------------------------------------------
ShopListing(base_price, max_stock, restock_rate, restock_interval) ==
  [base_price |-> base_price, max_stock |-> max_stock,
   restock_rate |-> restock_rate, restock_interval |-> restock_interval]

\* The default shops: 1 is the General Store, 2 the Armory.
GeneralStore ==
  [i \in {20, 21, 22, 1, 10} |->
     CASE i = 20 -> ShopListing(30, 20, 2, 100)
       [] i = 21 -> ShopListing(100, 5, 1, 200)
       [] i = 22 -> ShopListing(8, 50, 5, 50)
       [] i = 1  -> ShopListing(15, 5, 1, 300)
       [] i = 10 -> ShopListing(20, 3, 1, 300)]
Armory ==
  [i \in {2, 11, 12, 30} |->
     CASE i = 2  -> ShopListing(75, 3, 1, 500)
       [] i = 11 -> ShopListing(120, 2, 1, 500)
       [] i = 12 -> ShopListing(90, 2, 1, 500)
       [] i = 30 -> ShopListing(5, 30, 3, 100)]
default_shops == <<GeneralStore, Armory>>

Shop == DOMAIN default_shops
buyback_rate == <<40, 50>>           \* percent
window_size == 600 \div TickUnit

Listed(s) == DOMAIN default_shops[s] \cap Goods
Listing(s, i) == default_shops[s][i]
Interval(s, i) == Listing(s, i).restock_interval \div TickUnit

TypeOK ==
  /\ \A s \in Shop :
       /\ DOMAIN stock[s] = Listed(s)
       /\ \A i \in Listed(s) : /\ stock[s][i] \in 0..Listing(s, i).max_stock
                               /\ restocked[s][i] \in 0..Interval(s, i)
       /\ \A i \in Goods : buy_volume[s][i] \in Nat /\ sell_volume[s][i] \in Nat
       /\ window_ticks[s] \in 0..window_size - 1
  /\ deals \in 0..MaxDeals

Init ==
  /\ stock = [s \in Shop |-> [i \in Listed(s) |-> Listing(s, i).max_stock]]
  /\ restocked = [s \in Shop |-> [i \in Listed(s) |-> 0]]
  /\ buy_volume = [s \in Shop |-> [i \in Goods |-> 0]]
  /\ sell_volume = buy_volume
  /\ window_ticks = [s \in Shop |-> 0]
  /\ deals = 0

-----------------------------------------------------------------------------
\* price_multiplier, in percent, and the prices in whole numbers.  The code computes
\* in f32: while purchases and sales are out of balance a price may come out 1 apart,
\* and in balance, where the multiplier is 1, it does not.
PriceMultiplier(s, i) ==
  LET m == 100 + 2 * (buy_volume[s][i] - sell_volume[s][i])
  IN  IF m < 50 THEN 50 ELSE IF m > 200 THEN 200 ELSE m

BuyPrice(s, i) == (Listing(s, i).base_price * PriceMultiplier(s, i) + 99) \div 100
SellPrice(s, i) ==
  LET price == (Value(i) * buyback_rate[s]) \div PriceMultiplier(s, i)
  IN  IF price < 1 THEN 1 ELSE price

\* The caller hands over the player's gold, and takes the price from it.
BuyItem(s, i, quantity, player_gold) ==
  /\ deals < MaxDeals
  /\ i \in Listed(s)
  /\ stock[s][i] >= quantity
  /\ player_gold >= BuyPrice(s, i) * quantity
  /\ stock' = [stock EXCEPT ![s][i] = @ - quantity]
  /\ buy_volume' = [buy_volume EXCEPT ![s][i] = @ + quantity]
  /\ deals' = deals + 1
  /\ UNCHANGED <<restocked, sell_volume, window_ticks>>

\* A shop buys every item of the registry, also those it does not list, and
\* its stock does not grow.
SellItem(s, i, quantity, player_item_count) ==
  /\ deals < MaxDeals
  /\ i \in DOMAIN Registry
  /\ player_item_count >= quantity
  /\ sell_volume' = [sell_volume EXCEPT ![s][i] = @ + quantity]
  /\ deals' = deals + 1
  /\ UNCHANGED <<stock, restocked, buy_volume, window_ticks>>

WindowEnds(s) == window_ticks[s] + 1 >= window_size
\* Halves with the fraction rounded up.
DecayedUp(volume) ==
  [s \in Shop |-> [i \in Goods |->
     IF WindowEnds(s) THEN (volume[s][i] + 1) \div 2 ELSE volume[s][i]]]

\* The end of a demand window halves the volumes.
Decayed(volume) ==
  [s \in Shop |-> [i \in Goods |->
     IF WindowEnds(s) THEN volume[s][i] \div 2 ELSE volume[s][i]]]

Due(s, i) ==
  /\ stock[s][i] < Listing(s, i).max_stock
  /\ Listing(s, i).restock_interval > 0
  /\ restocked[s][i] + 1 >= Interval(s, i)

Restock(s, i) ==
  LET full == Listing(s, i).max_stock
      more == stock[s][i] + Listing(s, i).restock_rate
  IN  IF more < full THEN more ELSE full

TickShops ==
  /\ window_ticks' = [s \in Shop |-> IF WindowEnds(s) THEN 0 ELSE window_ticks[s] + 1]
  /\ buy_volume' = Decayed(buy_volume)
  /\ sell_volume' = Decayed(sell_volume)
  /\ stock' = [s \in Shop |-> [i \in Listed(s) |->
                 IF Due(s, i) THEN Restock(s, i) ELSE stock[s][i]]]
  /\ restocked' = [s \in Shop |-> [i \in Listed(s) |->
                     IF Due(s, i) THEN 0
                     ELSE IF restocked[s][i] < Interval(s, i) THEN restocked[s][i] + 1
                     ELSE restocked[s][i]]]
  /\ UNCHANGED deals

Deal ==
  \E s \in Shop, i \in Goods, quantity \in 1..3 :
    \/ \E gold \in {40, 200} : BuyItem(s, i, quantity, gold)
    \/ \E held \in {1, 3} : SellItem(s, i, quantity, held)

Next == Deal \/ TickShops

\* The owner of the shops calls tick_shops for every game tick.
Spec == Init /\ [][Next]_vars /\ WF_vars(TickShops)

-----------------------------------------------------------------------------
\* Once the players stop trading the shops come to rest: tick_shops restocks
\* every listing, integer halving brings all volumes to 0 and prices back to
\* base_price, and then a shop pays less for an item than it asks for it.
ShopsSettle ==
  <>[]\A s \in Shop, i \in Goods : i \in Listed(s) =>
        /\ stock[s][i] = Listing(s, i).max_stock
        /\ BuyPrice(s, i) = Listing(s, i).base_price
        /\ SellPrice(s, i) < BuyPrice(s, i)
\* "Each net buy adds 2%, each net sell subtracts 1%" (shops.rs:102) from a base of
\* 100%, clamped to the range from 50% to 200%.
PricesAsDocumented ==
  \A s \in Shop, i \in Goods :
    LET net == buy_volume[s][i] - sell_volume[s][i]
    IN  net < 0 => PriceMultiplier(s, i) = IF net < -50 THEN 50 ELSE 100 + net
=============================================================================
