------------------------------- MODULE Trading -------------------------------
(***************************************************************************)
(* Trades between players (game-engine/src/trading.rs).  A trade's id is   *)
(* its place in the sequence of all trades, and its ticks are kept as its  *)
(* age.  The swaps that confirm_trade reports as Executed are recorded, in *)
(* the order of the calls.                                                 *)
(***************************************************************************)
EXTENDS Naturals, Sequences

CONSTANTS
  Player,           \* addresses
  Item,             \* item definitions
  default_timeout,  \* ticks before an open trade expires
  MaxTrades,        \* bound: trades ever proposed
  MaxQuantity       \* bound: units of an item in an offer

ASSUME TradingConstants ==
  default_timeout \in Nat /\ MaxTrades \in Nat /\ MaxQuantity \in Nat

VARIABLES
  trades,         \* the sessions, in the order of their ids
  active_trades,  \* player |-> the id of its active trade
  executed        \* the results of the trades that were executed

vars == <<trades, active_trades, executed>>

TradeState == {"Proposed", "Negotiating", "InitiatorConfirmed",
               "AcceptorConfirmed", "Completed", "Cancelled", "Expired"}

Modifiable == {"Negotiating", "InitiatorConfirmed", "AcceptorConfirmed"}
Finished == {"Completed", "Cancelled", "Expired"}

Items == [Item -> 0..MaxQuantity]
NoItems == [i \in Item |-> 0]

TradeOffer == [items: Items, confirmed: BOOLEAN]

TradeSession ==
  [initiator: Player, acceptor: Player, state: TradeState,
   initiator_offer: TradeOffer, acceptor_offer: TradeOffer, age: Nat]

TypeOK ==
  /\ trades \in Seq(TradeSession)
  /\ DOMAIN active_trades \subseteq Player
  /\ \A p \in DOMAIN active_trades : active_trades[p] \in DOMAIN trades
  /\ executed \in Seq([of: Nat, to: Items \X Items])

Init == trades = <<>> /\ active_trades = [p \in {} |-> 0] /\ executed = <<>>

-----------------------------------------------------------------------------
\* active_trades after insert, and after remove for a set of players.
Activate(p, id) ==
  [q \in DOMAIN active_trades \cup {p} |-> IF q = p THEN id ELSE active_trades[q]]
Deactivate(players) ==
  [q \in DOMAIN active_trades \ players |-> active_trades[q]]

Parties(t) == {t.initiator, t.acceptor}

NewTrade(initiator, acceptor) ==
  [initiator |-> initiator, acceptor |-> acceptor, state |-> "Proposed",
   initiator_offer |-> [items |-> NoItems, confirmed |-> FALSE],
   acceptor_offer |-> [items |-> NoItems, confirmed |-> FALSE], age |-> 0]

ProposeTrade(initiator, acceptor) ==
  /\ Len(trades) < MaxTrades
  /\ initiator \notin DOMAIN active_trades
  /\ acceptor \notin DOMAIN active_trades
  /\ trades' = Append(trades, NewTrade(initiator, acceptor))
  /\ active_trades' = Activate(initiator, Len(trades) + 1)
  /\ UNCHANGED executed

\* The acceptor may have joined another trade since: its entry is overwritten.
AcceptTrade(id, player) ==
  /\ trades[id].acceptor = player /\ trades[id].state = "Proposed"
  /\ trades' = [trades EXCEPT ![id].state = "Negotiating"]
  /\ active_trades' = Activate(player, id)
  /\ UNCHANGED executed

\* Leaves the confirmations as they are.
StillConfirmed(t) == [t EXCEPT !.state = "Negotiating"]

\* The trade with both confirmations withdrawn.
Reopened(t) ==
  [t EXCEPT !.state = "Negotiating", !.initiator_offer.confirmed = FALSE,
            !.acceptor_offer.confirmed = FALSE]

\* A player who is on both sides acts as the initiator.
AddItem(id, player, item, quantity) ==
  LET t == Reopened(trades[id])
      More(items) == [items EXCEPT ![item] = @ + quantity]
  IN
  /\ trades[id].state \in Modifiable
  /\ IF t.initiator = player
     THEN /\ t.initiator_offer.items[item] + quantity <= MaxQuantity
          /\ trades' = [trades EXCEPT ![id] =
                          [t EXCEPT !.initiator_offer.items = More(@)]]
     ELSE /\ t.acceptor = player
          /\ t.acceptor_offer.items[item] + quantity <= MaxQuantity
          /\ trades' = [trades EXCEPT ![id] =
                          [t EXCEPT !.acceptor_offer.items = More(@)]]
  /\ UNCHANGED <<active_trades, executed>>

\* The trade after the confirmation of one of its parties.
Confirmed(t, player) ==
  IF t.initiator = player
  THEN [t EXCEPT !.initiator_offer.confirmed = TRUE,
          !.state = IF t.acceptor_offer.confirmed THEN "Completed"
                    ELSE "InitiatorConfirmed"]
  ELSE [t EXCEPT !.acceptor_offer.confirmed = TRUE,
          !.state = IF t.initiator_offer.confirmed THEN "Completed"
                    ELSE "AcceptorConfirmed"]

ConfirmTrade(id, player) ==
  LET t == Confirmed(trades[id], player) IN
  /\ trades[id].state \in Modifiable
  /\ player \in Parties(trades[id])
  /\ trades' = [trades EXCEPT ![id] = t]
  /\ IF t.state = "Completed"
     THEN /\ active_trades' = Deactivate(Parties(t))
          /\ executed' = Append(executed, [of |-> id,
               to |-> <<t.acceptor_offer.items, t.initiator_offer.items>>])
     ELSE UNCHANGED <<active_trades, executed>>

\* Whatever the state of the trade, a finished one included.
CancelTrade(id, player) ==
  /\ player \in Parties(trades[id])
  /\ trades' = [trades EXCEPT ![id].state = "Cancelled"]
  /\ active_trades' = Deactivate(Parties(trades[id]))
  /\ UNCHANGED executed

TickExpirations ==
  LET live(t) == t.state \notin Finished
      expired(t) == live(t) /\ t.age + 1 > default_timeout
  IN
  /\ trades' = [id \in DOMAIN trades |->
                  IF expired(trades[id])
                  THEN [trades[id] EXCEPT !.state = "Expired"]
                  ELSE IF live(trades[id])
                       THEN [trades[id] EXCEPT !.age = @ + 1] ELSE trades[id]]
  /\ active_trades' =
       Deactivate(UNION {Parties(trades[id]) :
                           id \in {i \in DOMAIN trades : expired(trades[i])}})
  /\ UNCHANGED executed

Next ==
  \/ \E p, q \in Player : ProposeTrade(p, q)
  \/ \E id \in DOMAIN trades, p \in Player :
       \/ AcceptTrade(id, p) \/ ConfirmTrade(id, p) \/ CancelTrade(id, p)
       \/ \E item \in Item, quantity \in 1..MaxQuantity :
            AddItem(id, p, item, quantity)
  \/ TickExpirations

Spec == Init /\ [][Next]_vars

-----------------------------------------------------------------------------
\* The refinement mapping: the sides that have confirmed a trade agree to its
\* offers, and a trade is open until its state is final.
Sides(t) == {s \in {1, 2} : IF s = 1 THEN t.initiator_offer.confirmed
                            ELSE t.acceptor_offer.confirmed}

X == INSTANCE Exchange WITH
       Offer <- Items,
       offers <- [id \in DOMAIN trades |->
                    <<trades[id].initiator_offer.items, trades[id].acceptor_offer.items>>],
       agreed <- [id \in DOMAIN trades |-> Sides(trades[id])],
       open <- [id \in DOMAIN trades |-> trades[id].state \notin Finished],
       swaps <- executed

\* "Trades are two-phase: both players must confirm before items swap": the
\* trade manager implements Exchange through proposals, acceptances, changed
\* offers, cancellations and expiries of several trades at once.
TradeIsExchange == X!Spec
=============================================================================
