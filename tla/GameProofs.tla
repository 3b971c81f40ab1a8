------------------------------ MODULE GameProofs ------------------------------
(* The rules of the game, each for any constants its assumptions allow: the *)
(* trade manager implements Exchange; sound, quests, touch input, the event  *)
(* manager, skills and crafting keep the invariants their runs check.        *)
EXTENDS MCGame, SequenceTheorems, FunctionTheorems, FiniteSetTheorems, NaturalsInduction,
        WellFoundedInduction, TLAPS

\* A trade as Exchange sees it.
OffersOf(t) == <<t.initiator_offer.items, t.acceptor_offer.items>>
OpenOf(t) == t.state \notin Finished

-----------------------------------------------------------------------------
\* Mapping a sequence element by element commutes with Append.
LEMMA MapAppend ==
  ASSUME NEW Dom, NEW Ran, NEW map \in [Dom -> Ran], NEW s \in Seq(Dom), NEW e \in Dom
  PROVE  [i \in DOMAIN Append(s, e) |-> map[Append(s, e)[i]]]
           = Append([i \in DOMAIN s |-> map[s[i]]], map[e])
<1> DEFINE m == [i \in DOMAIN s |-> map[s[i]]]
           l == [i \in DOMAIN Append(s, e) |-> map[Append(s, e)[i]]]
<1>1. /\ Len(s) \in Nat /\ DOMAIN s = 1..Len(s)
      /\ \A i \in 1..Len(s) : s[i] \in Dom
  BY LenProperties, ElementOfSeq
<1>2. /\ Append(s, e) \in Seq(Dom)
      /\ Len(Append(s, e)) = Len(s) + 1
      /\ \A i \in 1..Len(s) : Append(s, e)[i] = s[i]
      /\ Append(s, e)[Len(s) + 1] = e
  BY AppendProperties
<1>3. DOMAIN Append(s, e) = 1..Len(s) + 1
  BY <1>2, LenProperties
<1>4. m \in Seq(Ran) /\ Len(m) = Len(s)
  <2>1. m \in [1..Len(s) -> Ran]
    BY <1>1
  <2>2. m \in Seq(Ran)
    BY <2>1, <1>1, SeqDef
  <2>3. DOMAIN m = 1..Len(m) /\ Len(m) \in Nat
    BY <2>2, LenProperties
  <2>4. QED
    BY <2>1, <2>2, <2>3, <1>1
<1>5. l \in Seq(Ran) /\ Len(l) = Len(s) + 1
  <2>1. \A i \in 1..Len(s) + 1 : Append(s, e)[i] \in Dom
    BY <1>1, <1>2, ElementOfSeq
  <2>2. l \in [1..Len(s) + 1 -> Ran]
    BY <2>1, <1>3
  <2>3. l \in Seq(Ran)
    BY <2>2, <1>1, SeqDef
  <2>4. DOMAIN l = 1..Len(l) /\ Len(l) \in Nat
    BY <2>3, LenProperties
  <2>5. QED
    BY <2>2, <2>3, <2>4, <1>1
<1>6. /\ Append(m, map[e]) \in Seq(Ran)
      /\ Len(Append(m, map[e])) = Len(s) + 1
      /\ \A i \in 1..Len(s) : Append(m, map[e])[i] = m[i]
      /\ Append(m, map[e])[Len(s) + 1] = map[e]
  BY <1>4, AppendProperties
<1>7. \A i \in 1..Len(s) + 1 : l[i] = Append(m, map[e])[i]
  <2> SUFFICES ASSUME NEW i \in 1..Len(s) + 1 PROVE l[i] = Append(m, map[e])[i]
    OBVIOUS
  <2>1. l[i] = map[Append(s, e)[i]]
    BY <1>3
  <2>2. CASE i = Len(s) + 1
    BY <2>1, <2>2, <1>2, <1>6
  <2>3. CASE i \in 1..Len(s)
    BY <2>1, <2>3, <1>1, <1>2, <1>6
  <2>4. QED
    BY <2>2, <2>3, <1>1
<1> HIDE DEF m, l
<1>8. l = Append(m, map[e])
  BY <1>5, <1>6, <1>7, SeqEqual
<1>9. QED
  BY <1>8 DEF l, m

-----------------------------------------------------------------------------
\* Changing one trade of the sequence to another trade keeps its type and length.
LEMMA ExceptTyped ==
  ASSUME NEW Dom, NEW s \in Seq(Dom), NEW i \in DOMAIN s, NEW e \in Dom
  PROVE  /\ [s EXCEPT ![i] = e] \in Seq(Dom)
         /\ DOMAIN [s EXCEPT ![i] = e] = DOMAIN s
<1>1. DOMAIN s = 1..Len(s)
  BY LenProperties
<1>2. QED
  BY <1>1, ExceptSeq

\* Changing a field of a trade, or of one of its offers, keeps their types.
LEMMA FieldTyped ==
  ASSUME NEW t \in TradeSession
  PROVE  /\ \A st \in TradeState : [t EXCEPT !.state = st] \in TradeSession
         /\ \A n \in Nat : [t EXCEPT !.age = n] \in TradeSession
         /\ \A o \in TradeOffer : [t EXCEPT !.initiator_offer = o] \in TradeSession
         /\ \A o \in TradeOffer : [t EXCEPT !.acceptor_offer = o] \in TradeSession
  BY DEF TradeSession

\* Confirming an offer, or listing other items, keeps its type.
LEMMA OfferTyped ==
  ASSUME NEW o \in TradeOffer
  PROVE  /\ \A b \in BOOLEAN : [o EXCEPT !.confirmed = b] \in TradeOffer
         /\ \A items \in Items : [o EXCEPT !.items = items] \in TradeOffer
  BY DEF TradeOffer

\* What a confirmation makes of a trade, field by field.
LEMMA ConfirmedIs ==
  ASSUME NEW t \in TradeSession, NEW p
  PROVE  LET c == Confirmed(t, p) IN
         /\ c \in TradeSession
         /\ c.initiator_offer.items = t.initiator_offer.items
         /\ c.acceptor_offer.items = t.acceptor_offer.items
         /\ t.initiator = p =>
              /\ c.initiator_offer.confirmed /\ c.acceptor_offer = t.acceptor_offer
              /\ c.state = IF t.acceptor_offer.confirmed THEN "Completed"
                           ELSE "InitiatorConfirmed"
         /\ t.initiator # p =>
              /\ c.acceptor_offer.confirmed /\ c.initiator_offer = t.initiator_offer
              /\ c.state = IF t.initiator_offer.confirmed THEN "Completed"
                           ELSE "AcceptorConfirmed"
<1> DEFINE first == [t.initiator_offer EXCEPT !.confirmed = TRUE]
           second == [t.acceptor_offer EXCEPT !.confirmed = TRUE]
           st1 == IF t.acceptor_offer.confirmed THEN "Completed" ELSE "InitiatorConfirmed"
           st2 == IF t.initiator_offer.confirmed THEN "Completed" ELSE "AcceptorConfirmed"
<1>1. t.initiator_offer \in TradeOffer /\ t.acceptor_offer \in TradeOffer
  BY DEF TradeSession
<1>2. /\ first \in TradeOffer /\ first.confirmed /\ first.items = t.initiator_offer.items
      /\ second \in TradeOffer /\ second.confirmed /\ second.items = t.acceptor_offer.items
  BY <1>1 DEF TradeOffer
<1>3. st1 \in TradeState /\ st2 \in TradeState
  BY DEF TradeState
<1>4. Confirmed(t, p) = IF t.initiator = p
                        THEN [[t EXCEPT !.initiator_offer = first] EXCEPT !.state = st1]
                        ELSE [[t EXCEPT !.acceptor_offer = second] EXCEPT !.state = st2]
  BY DEF Confirmed, TradeSession
<1> HIDE DEF first, second, st1, st2
<1>5. CASE t.initiator = p
  <2>1. [t EXCEPT !.initiator_offer = first] \in TradeSession
    BY <1>2, FieldTyped
  <2>2. Confirmed(t, p) \in TradeSession
    BY <1>3, <1>4, <1>5, <2>1, FieldTyped
  <2>3. /\ Confirmed(t, p).initiator_offer = first /\ Confirmed(t, p).state = st1
        /\ Confirmed(t, p).acceptor_offer = t.acceptor_offer
    BY <1>4, <1>5 DEF TradeSession
  <2>4. QED
    BY <1>2, <1>5, <2>2, <2>3 DEF st1
<1>6. CASE t.initiator # p
  <2>1. [t EXCEPT !.acceptor_offer = second] \in TradeSession
    BY <1>2, FieldTyped
  <2>2. Confirmed(t, p) \in TradeSession
    BY <1>3, <1>4, <1>6, <2>1, FieldTyped
  <2>3. /\ Confirmed(t, p).acceptor_offer = second /\ Confirmed(t, p).state = st2
        /\ Confirmed(t, p).initiator_offer = t.initiator_offer
    BY <1>4, <1>6 DEF TradeSession
  <2>4. QED
    BY <1>2, <1>6, <2>2, <2>3 DEF st2
<1>7. QED
  BY <1>5, <1>6

\* What add_item starts from: the offers as they were, and no confirmation.
LEMMA ReopenedIs ==
  ASSUME NEW t \in TradeSession
  PROVE  LET r == Reopened(t) IN
         /\ r \in TradeSession
         /\ r.initiator = t.initiator /\ r.acceptor = t.acceptor /\ r.state = "Negotiating"
         /\ r.initiator_offer.items = t.initiator_offer.items
         /\ r.acceptor_offer.items = t.acceptor_offer.items
         /\ ~r.initiator_offer.confirmed /\ ~r.acceptor_offer.confirmed
<1> DEFINE first == [t.initiator_offer EXCEPT !.confirmed = FALSE]
           second == [t.acceptor_offer EXCEPT !.confirmed = FALSE]
<1>1. t.initiator_offer \in TradeOffer /\ t.acceptor_offer \in TradeOffer
  BY DEF TradeSession
<1>2. /\ first \in TradeOffer /\ ~first.confirmed /\ first.items = t.initiator_offer.items
      /\ second \in TradeOffer /\ ~second.confirmed /\ second.items = t.acceptor_offer.items
  BY <1>1 DEF TradeOffer
<1>3. Reopened(t) = [t EXCEPT !.state = "Negotiating", !.initiator_offer = first,
                              !.acceptor_offer = second]
  BY DEF Reopened, TradeSession
<1> HIDE DEF first, second
<1>4. QED
  BY <1>2, <1>3 DEF TradeSession, TradeState

\* The type invariant holds initially.
LEMMA InitTyped == Init => TypeOK
  BY EmptySeq DEF Init, TypeOK

\* Every step keeps the types: offers stay within their bounds and an active
\* trade is one that was proposed.
LEMMA NextTyped == TypeOK /\ [Next]_vars => TypeOK'
<1> SUFFICES ASSUME TypeOK, [Next]_vars PROVE TypeOK'
  OBVIOUS
<1> USE DEF TypeOK
<1>1. DOMAIN trades = 1..Len(trades) /\ Len(trades) \in Nat
  BY LenProperties
<1>2. \A id \in DOMAIN trades : trades[id] \in TradeSession
  BY <1>1, ElementOfSeq
<1>3. ASSUME NEW p \in Player, NEW q \in Player, ProposeTrade(p, q) PROVE TypeOK'
  <2>1. NewTrade(p, q) \in TradeSession
    BY TradingConstants
       DEF NewTrade, TradeSession, TradeState, TradeOffer, NoItems, Items
  <2>2. /\ trades' \in Seq(TradeSession) /\ Len(trades') = Len(trades) + 1
        /\ DOMAIN trades' = 1..Len(trades) + 1
    BY <1>3, <2>1, AppendProperties, LenProperties DEF ProposeTrade
  <2>3. QED
    BY <1>1, <1>3, <2>2 DEF ProposeTrade, Activate
<1>4. ASSUME NEW id \in DOMAIN trades, NEW p \in Player, AcceptTrade(id, p) PROVE TypeOK'
  <2>1. [trades[id] EXCEPT !.state = "Negotiating"] \in TradeSession
    BY <1>2 DEF TradeSession, TradeState
  <2>2. trades' = [trades EXCEPT ![id] = [trades[id] EXCEPT !.state = "Negotiating"]]
    BY <1>4 DEF AcceptTrade
  <2>3. trades' \in Seq(TradeSession) /\ DOMAIN trades' = DOMAIN trades
    BY <2>1, <2>2, ExceptTyped
  <2>4. QED
    BY <1>4, <2>3 DEF AcceptTrade, Activate
<1>5. ASSUME NEW id \in DOMAIN trades, NEW p \in Player, ConfirmTrade(id, p) PROVE TypeOK'
  <2>1. Confirmed(trades[id], p) \in TradeSession
    BY <1>2, ConfirmedIs
  <2>2. trades' = [trades EXCEPT ![id] = Confirmed(trades[id], p)]
    BY <1>5 DEF ConfirmTrade
  <2>3. trades' \in Seq(TradeSession) /\ DOMAIN trades' = DOMAIN trades
    BY <2>1, <2>2, ExceptTyped
  <2>4. executed' \in Seq([of: Nat, to: Items \X Items])
    <3> DEFINE Results == [of: Nat, to: Items \X Items]
               t == Confirmed(trades[id], p)
               result == [of |-> id, to |-> <<t.acceptor_offer.items, t.initiator_offer.items>>]
    <3>1. result \in Results /\ executed \in Seq(Results)
      BY <1>1, <2>1 DEF TradeSession, TradeOffer
    <3>2. executed' = executed \/ executed' = Append(executed, result)
      BY <1>5 DEF ConfirmTrade
    <3> HIDE DEF result, Results
    <3>3. Append(executed, result) \in Seq(Results)
      BY <3>1, AppendProperties, Zenon
    <3>4. executed' \in Seq(Results)
      BY <3>1, <3>2, <3>3, Zenon
    <3>5. QED
      BY <3>4 DEF Results
  <2>5. /\ DOMAIN active_trades' \subseteq Player
        /\ \A q \in DOMAIN active_trades' : active_trades'[q] \in DOMAIN trades'
    BY <1>5, <2>3 DEF ConfirmTrade, Deactivate
  <2>6. QED
    BY <2>3, <2>4, <2>5
<1>6. ASSUME NEW id \in DOMAIN trades, NEW p \in Player, CancelTrade(id, p) PROVE TypeOK'
  <2>1. [trades[id] EXCEPT !.state = "Cancelled"] \in TradeSession
    BY <1>2 DEF TradeSession, TradeState
  <2>2. trades' = [trades EXCEPT ![id] = [trades[id] EXCEPT !.state = "Cancelled"]]
    BY <1>6 DEF CancelTrade
  <2>3. trades' \in Seq(TradeSession) /\ DOMAIN trades' = DOMAIN trades
    BY <2>1, <2>2, ExceptTyped
  <2>4. QED
    BY <1>6, <2>3 DEF CancelTrade, Deactivate
<1>7. ASSUME NEW id \in DOMAIN trades, NEW p \in Player, NEW item \in Item,
             NEW quantity \in 1..MaxQuantity, AddItem(id, p, item, quantity)
      PROVE  TypeOK'
  <2> DEFINE t == Reopened(trades[id])
             More(items) == [items EXCEPT ![item] = @ + quantity]
  <2>1. t \in TradeSession
    BY <1>2, ReopenedIs
  <2>2. \A items \in Items : items[item] + quantity <= MaxQuantity => More(items) \in Items
    BY TradingConstants DEF Items
  <2>3. PICK u \in TradeSession : trades' = [trades EXCEPT ![id] = u]
    <3>1. CASE t.initiator = p
      <4>1. [t EXCEPT !.initiator_offer.items = More(@)] \in TradeSession
        BY <1>7, <2>1, <2>2, <3>1 DEF AddItem, TradeSession, TradeOffer
      <4>2. trades' = [trades EXCEPT ![id] = [t EXCEPT !.initiator_offer.items = More(@)]]
        BY <1>7, <3>1 DEF AddItem
      <4>3. QED
        BY <4>1, <4>2
    <3>2. CASE t.initiator # p
      <4>1. [t EXCEPT !.acceptor_offer.items = More(@)] \in TradeSession
        BY <1>7, <2>1, <2>2, <3>2 DEF AddItem, TradeSession, TradeOffer
      <4>2. trades' = [trades EXCEPT ![id] = [t EXCEPT !.acceptor_offer.items = More(@)]]
        BY <1>7, <3>2 DEF AddItem
      <4>3. QED
        BY <4>1, <4>2
    <3>3. QED
      BY <3>1, <3>2
  <2>4. trades' \in Seq(TradeSession) /\ DOMAIN trades' = DOMAIN trades
    BY <2>3, ExceptTyped
  <2>5. QED
    BY <1>7, <2>4 DEF AddItem
<1>8. ASSUME TickExpirations PROVE TypeOK'
  <2>1. DOMAIN trades' = 1..Len(trades)
    BY <1>1, <1>8 DEF TickExpirations
  <2>2. \A id \in DOMAIN trades : trades'[id] \in TradeSession
    <3>1. \A id \in DOMAIN trades :
            \/ trades'[id] = trades[id]
            \/ trades'[id] = [trades[id] EXCEPT !.state = "Expired"]
            \/ trades'[id] = [trades[id] EXCEPT !.age = trades[id].age + 1]
      BY <1>8 DEF TickExpirations
    <3>2. "Expired" \in TradeState /\ \A id \in DOMAIN trades : trades[id].age + 1 \in Nat
      BY <1>2 DEF TradeState, TradeSession
    <3> SUFFICES ASSUME NEW id \in DOMAIN trades PROVE trades'[id] \in TradeSession
      OBVIOUS
    <3>3. /\ trades[id] \in TradeSession
          /\ [trades[id] EXCEPT !.state = "Expired"] \in TradeSession
          /\ [trades[id] EXCEPT !.age = trades[id].age + 1] \in TradeSession
      BY <1>2, <3>2, FieldTyped
    <3>4. QED
      BY <3>1, <3>3, Zenon
  <2>3. trades' \in [1..Len(trades) -> TradeSession]
    BY <1>1, <1>8, <2>1, <2>2 DEF TickExpirations
  <2>4. trades' \in Seq(TradeSession)
    BY <1>1, <2>3, SeqDef
  <2>5. QED
    BY <1>1, <1>8, <2>1, <2>4 DEF TickExpirations, Deactivate
<1>9. CASE UNCHANGED vars
  BY <1>9 DEF vars
<1>10. QED
  BY <1>3, <1>4, <1>5, <1>6, <1>7, <1>8, <1>9 DEF Next

\* The sessions, the index of active trades and the results keep their types.
THEOREM TypeCorrect == Spec => []TypeOK
  BY InitTyped, NextTyped, PTL DEF Spec

-----------------------------------------------------------------------------
\* The variables of Exchange, as functions of the sequence of trades.
AllOffers(ts) == [id \in DOMAIN ts |-> OffersOf(ts[id])]
AllAgreed(ts) == [id \in DOMAIN ts |-> Sides(ts[id])]
AllOpen(ts) == [id \in DOMAIN ts |-> OpenOf(ts[id])]

\* A new trade adds an entry to each of them.
LEMMA MapsAppend ==
  ASSUME NEW ts \in Seq(TradeSession), NEW t \in TradeSession
  PROVE  /\ AllOffers(Append(ts, t)) = Append(AllOffers(ts), OffersOf(t))
         /\ AllAgreed(Append(ts, t)) = Append(AllAgreed(ts), Sides(t))
         /\ AllOpen(Append(ts, t)) = Append(AllOpen(ts), OpenOf(t))
<1>1. \A id \in DOMAIN ts : ts[id] \in TradeSession
  BY LenProperties, ElementOfSeq
<1>2. /\ Append(ts, t) \in Seq(TradeSession)
      /\ \A id \in DOMAIN Append(ts, t) : Append(ts, t)[id] \in TradeSession
  BY AppendProperties, LenProperties, ElementOfSeq
<1>3. AllOffers(Append(ts, t)) = Append(AllOffers(ts), OffersOf(t))
  <2> DEFINE Ran == {OffersOf(u) : u \in TradeSession}
             map == [u \in TradeSession |-> OffersOf(u)]
  <2>1. map \in [TradeSession -> Ran]
    OBVIOUS
  <2>2. /\ AllOffers(ts) = [id \in DOMAIN ts |-> map[ts[id]]]
        /\ AllOffers(Append(ts, t)) =
             [id \in DOMAIN Append(ts, t) |-> map[Append(ts, t)[id]]]
        /\ map[t] = OffersOf(t)
    BY <1>1, <1>2 DEF AllOffers
  <2> HIDE DEF map, Ran
  <2>3. QED
    BY <2>1, <2>2, MapAppend
<1>4. AllAgreed(Append(ts, t)) = Append(AllAgreed(ts), Sides(t))
  <2> DEFINE Ran == {Sides(u) : u \in TradeSession}
             map == [u \in TradeSession |-> Sides(u)]
  <2>1. map \in [TradeSession -> Ran]
    OBVIOUS
  <2>2. /\ AllAgreed(ts) = [id \in DOMAIN ts |-> map[ts[id]]]
        /\ AllAgreed(Append(ts, t)) =
             [id \in DOMAIN Append(ts, t) |-> map[Append(ts, t)[id]]]
        /\ map[t] = Sides(t)
    BY <1>1, <1>2, SMTT(30) DEF AllAgreed
  <2> HIDE DEF map, Ran
  <2>3. QED
    BY <2>1, <2>2, MapAppend
<1>5. AllOpen(Append(ts, t)) = Append(AllOpen(ts), OpenOf(t))
  <2> DEFINE Ran == {OpenOf(u) : u \in TradeSession}
             map == [u \in TradeSession |-> OpenOf(u)]
  <2>1. map \in [TradeSession -> Ran]
    OBVIOUS
  <2>2. /\ AllOpen(ts) = [id \in DOMAIN ts |-> map[ts[id]]]
        /\ AllOpen(Append(ts, t)) =
             [id \in DOMAIN Append(ts, t) |-> map[Append(ts, t)[id]]]
        /\ map[t] = OpenOf(t)
    BY <1>1, <1>2 DEF AllOpen
  <2> HIDE DEF map, Ran
  <2>3. QED
    BY <2>1, <2>2, MapAppend
<1>6. QED
  BY <1>3, <1>4, <1>5

-----------------------------------------------------------------------------
\* propose_trade begins an exchange of nothing for nothing.
LEMMA ProposeRefines ==
  ASSUME TypeOK, NEW p \in Player, NEW q \in Player, ProposeTrade(p, q)
  PROVE  X!Begin(NoItems) /\ NoItems \in Items
<1>1. NewTrade(p, q) \in TradeSession /\ NoItems \in Items
  BY TradingConstants DEF NewTrade, TradeSession, TradeState, TradeOffer, NoItems, Items
<1>2. /\ OffersOf(NewTrade(p, q)) = <<NoItems, NoItems>>
      /\ Sides(NewTrade(p, q)) = {}
      /\ OpenOf(NewTrade(p, q)) = TRUE
  BY DEF NewTrade, OffersOf, Sides, OpenOf, Finished
<1>3. trades \in Seq(TradeSession) /\ trades' = Append(trades, NewTrade(p, q))
      /\ executed' = executed
  BY DEF TypeOK, ProposeTrade
<1>4. /\ AllOffers(trades') = Append(AllOffers(trades), <<NoItems, NoItems>>)
      /\ AllAgreed(trades') = Append(AllAgreed(trades), {})
      /\ AllOpen(trades') = Append(AllOpen(trades), TRUE)
  BY <1>1, <1>2, <1>3, MapsAppend
<1>5. QED
  BY <1>1, <1>3, <1>4, Zenon DEF X!Begin, AllOffers, AllAgreed, AllOpen, OffersOf, OpenOf

\* accept_trade changes nothing that Exchange speaks of.
LEMMA AcceptRefines ==
  ASSUME TypeOK, NEW id \in DOMAIN trades, NEW p \in Player, AcceptTrade(id, p)
  PROVE  UNCHANGED X!vars
<1>1. trades[id] \in TradeSession
  BY LenProperties, ElementOfSeq DEF TypeOK
<1>2. PICK t : t = [trades[id] EXCEPT !.state = "Negotiating"]
  OBVIOUS
<1>3. /\ OffersOf(t) = OffersOf(trades[id]) /\ Sides(t) = Sides(trades[id])
      /\ OpenOf(t) = OpenOf(trades[id])
  BY <1>1, <1>2 DEF AcceptTrade, TradeSession, OffersOf, Sides, OpenOf, Finished
<1>4. trades' = [trades EXCEPT ![id] = t] /\ executed' = executed
  BY <1>2 DEF AcceptTrade
<1>5. /\ DOMAIN trades' = DOMAIN trades
      /\ \A i \in DOMAIN trades : trades'[i] = IF i = id THEN t ELSE trades[i]
  BY <1>4
<1>6. /\ AllOffers(trades') = AllOffers(trades)
      /\ AllAgreed(trades') = AllAgreed(trades)
      /\ AllOpen(trades') = AllOpen(trades)
  BY <1>3, <1>5 DEF AllOffers, AllAgreed, AllOpen
<1>7. QED
  BY <1>4, <1>6 DEF X!vars, AllOffers, AllAgreed, AllOpen, OffersOf, OpenOf

\* add_item changes the offer of one side and voids the agreement.
LEMMA AddItemRefines ==
  ASSUME TypeOK, NEW id \in DOMAIN trades, NEW p \in Player, NEW item \in Item,
         NEW quantity \in 1..MaxQuantity, AddItem(id, p, item, quantity)
  PROVE  \E side \in {1, 2} : \E offer \in Items : X!Change(id, side, offer)
<1>1. trades[id] \in TradeSession
  BY LenProperties, ElementOfSeq DEF TypeOK
<1>2. PICK r : r = Reopened(trades[id])
  OBVIOUS
<1>3. /\ r \in TradeSession /\ r.state = "Negotiating"
      /\ r.initiator_offer.items = trades[id].initiator_offer.items
      /\ r.acceptor_offer.items = trades[id].acceptor_offer.items
      /\ ~r.initiator_offer.confirmed /\ ~r.acceptor_offer.confirmed
  BY <1>1, <1>2, ReopenedIs
<1>4. PICK side, offer, u :
        /\ side \in {1, 2} /\ offer \in Items
        /\ trades' = [trades EXCEPT ![id] = u]
        /\ OffersOf(u) = [OffersOf(trades[id]) EXCEPT ![side] = offer]
        /\ Sides(u) = {} /\ OpenOf(u) = TRUE
  <2> DEFINE More(items) == [items EXCEPT ![item] = @ + quantity]
  <2>1. \A items \in Items : items[item] + quantity <= MaxQuantity => More(items) \in Items
    BY TradingConstants DEF Items
  <2>2. r.initiator_offer \in TradeOffer /\ r.acceptor_offer \in TradeOffer
    BY <1>3 DEF TradeSession
  <2>3. CASE r.initiator = p
    <3> DEFINE o == More(r.initiator_offer.items)
    <3>1. trades' = [trades EXCEPT ![id] = [r EXCEPT !.initiator_offer.items = More(@)]]
          /\ r.initiator_offer.items[item] + quantity <= MaxQuantity
      BY <1>2, <2>3 DEF AddItem
    <3>2. o \in Items
      BY <2>1, <2>2, <3>1 DEF TradeOffer
    <3>3. [r EXCEPT !.initiator_offer.items = More(@)]
            = [r EXCEPT !.initiator_offer = [r.initiator_offer EXCEPT !.items = o]]
      BY <1>3, <2>2 DEF TradeSession, TradeOffer
    <3> HIDE DEF o
    <3>4. PICK u : u = [r EXCEPT !.initiator_offer = [r.initiator_offer EXCEPT !.items = o]]
      OBVIOUS
    <3>5. /\ u.initiator_offer.items = o /\ ~u.initiator_offer.confirmed
          /\ u.acceptor_offer = r.acceptor_offer /\ u.state = "Negotiating"
      BY <1>3, <2>2, <3>4 DEF TradeSession, TradeOffer
    <3>6. /\ OffersOf(u) = [OffersOf(trades[id]) EXCEPT ![1] = o]
          /\ Sides(u) = {} /\ OpenOf(u) = TRUE
      BY <1>3, <3>5 DEF OffersOf, Sides, OpenOf, Finished
    <3>7. QED
      BY <3>1, <3>2, <3>3, <3>4, <3>6
  <2>4. CASE r.initiator # p
    <3> DEFINE o == More(r.acceptor_offer.items)
    <3>1. trades' = [trades EXCEPT ![id] = [r EXCEPT !.acceptor_offer.items = More(@)]]
          /\ r.acceptor_offer.items[item] + quantity <= MaxQuantity
      BY <1>2, <2>4 DEF AddItem
    <3>2. o \in Items
      BY <2>1, <2>2, <3>1 DEF TradeOffer
    <3>3. [r EXCEPT !.acceptor_offer.items = More(@)]
            = [r EXCEPT !.acceptor_offer = [r.acceptor_offer EXCEPT !.items = o]]
      BY <1>3, <2>2 DEF TradeSession, TradeOffer
    <3> HIDE DEF o
    <3>4. PICK u : u = [r EXCEPT !.acceptor_offer = [r.acceptor_offer EXCEPT !.items = o]]
      OBVIOUS
    <3>5. /\ u.acceptor_offer.items = o /\ ~u.acceptor_offer.confirmed
          /\ u.initiator_offer = r.initiator_offer /\ u.state = "Negotiating"
      BY <1>3, <2>2, <3>4 DEF TradeSession, TradeOffer
    <3>6. /\ OffersOf(u) = [OffersOf(trades[id]) EXCEPT ![2] = o]
          /\ Sides(u) = {} /\ OpenOf(u) = TRUE
      BY <1>3, <3>5 DEF OffersOf, Sides, OpenOf, Finished
    <3>7. QED
      BY <3>1, <3>2, <3>3, <3>4, <3>6
  <2>5. QED
    BY <2>3, <2>4
<1>5. OpenOf(trades[id]) = TRUE /\ executed' = executed
  BY DEF AddItem, OpenOf, Modifiable, Finished
<1>6. /\ DOMAIN trades' = DOMAIN trades
      /\ \A i \in DOMAIN trades : trades'[i] = IF i = id THEN u ELSE trades[i]
  BY <1>4
<1>7. /\ AllOpen(trades)[id]
      /\ AllOffers(trades') = [AllOffers(trades) EXCEPT ![id] = [@ EXCEPT ![side] = offer]]
      /\ AllAgreed(trades') = [AllAgreed(trades) EXCEPT ![id] = {}]
      /\ AllOpen(trades') = AllOpen(trades)
  BY <1>4, <1>5, <1>6 DEF AllOffers, AllAgreed, AllOpen
<1>8. X!Change(id, side, offer)
  BY <1>5, <1>7 DEF X!Change, AllOffers, AllAgreed, AllOpen, OffersOf, OpenOf
<1>9. QED
  BY <1>4, <1>8

\* cancel_trade closes an exchange.
LEMMA CancelRefines ==
  ASSUME TypeOK, NEW id \in DOMAIN trades, NEW p \in Player, CancelTrade(id, p)
  PROVE  X!Close({id})
<1>1. trades[id] \in TradeSession
  BY LenProperties, ElementOfSeq DEF TypeOK
<1>2. PICK t : t = [trades[id] EXCEPT !.state = "Cancelled"]
  OBVIOUS
<1>3. /\ OffersOf(t) = OffersOf(trades[id]) /\ Sides(t) = Sides(trades[id])
      /\ OpenOf(t) = FALSE
  BY <1>1, <1>2 DEF TradeSession, OffersOf, Sides, OpenOf, Finished
<1>4. trades' = [trades EXCEPT ![id] = t] /\ executed' = executed
  BY <1>2 DEF CancelTrade
<1>5. /\ DOMAIN trades' = DOMAIN trades
      /\ \A i \in DOMAIN trades : trades'[i] = IF i = id THEN t ELSE trades[i]
  BY <1>4
<1>6. /\ AllOffers(trades') = AllOffers(trades)
      /\ AllAgreed(trades') = AllAgreed(trades)
      /\ AllOpen(trades') = [i \in DOMAIN AllOpen(trades) |-> AllOpen(trades)[i] /\ i \notin {id}]
  BY <1>3, <1>5 DEF AllOffers, AllAgreed, AllOpen, OpenOf
<1>7. QED
  BY <1>4, <1>6 DEF X!Close, AllOffers, AllAgreed, AllOpen, OffersOf, OpenOf

\* tick_expirations closes the exchanges that expire, all at once.
LEMMA TickRefines ==
  ASSUME TypeOK, TickExpirations
  PROVE  \E es \in SUBSET DOMAIN trades : X!Close(es)
<1>0. PICK es \in SUBSET DOMAIN trades :
        es = {id \in DOMAIN trades :
                trades[id].state \notin Finished /\ trades[id].age + 1 > default_timeout}
  OBVIOUS
<1>1. \A id \in DOMAIN trades : trades[id] \in TradeSession
  BY LenProperties, ElementOfSeq DEF TypeOK
<1>2. /\ DOMAIN trades' = DOMAIN trades /\ executed' = executed
      /\ \A id \in DOMAIN trades :
           \/ id \in es /\ trades'[id] = [trades[id] EXCEPT !.state = "Expired"]
           \/ id \notin es /\ trades'[id] = [trades[id] EXCEPT !.age = @ + 1]
           \/ id \notin es /\ trades'[id] = trades[id]
  <2>1. DOMAIN trades' = DOMAIN trades /\ executed' = executed
    BY DEF TickExpirations
  <2>2. \A id \in DOMAIN trades :
          trades'[id] = IF id \in es THEN [trades[id] EXCEPT !.state = "Expired"]
                        ELSE IF trades[id].state \notin Finished
                             THEN [trades[id] EXCEPT !.age = @ + 1] ELSE trades[id]
    BY <1>0 DEF TickExpirations
  <2>3. QED
    BY <2>1, <2>2
<1>3. \A id \in DOMAIN trades :
        /\ OffersOf(trades'[id]) = OffersOf(trades[id])
        /\ Sides(trades'[id]) = Sides(trades[id])
        /\ OpenOf(trades'[id]) = (OpenOf(trades[id]) /\ id \notin es)
  <2> SUFFICES ASSUME NEW id \in DOMAIN trades
               PROVE  /\ OffersOf(trades'[id]) = OffersOf(trades[id])
                      /\ Sides(trades'[id]) = Sides(trades[id])
                      /\ OpenOf(trades'[id]) = (OpenOf(trades[id]) /\ id \notin es)
    OBVIOUS
  <2>0. trades[id] \in TradeSession
    BY <1>1
  <2>1. CASE id \in es /\ trades'[id] = [trades[id] EXCEPT !.state = "Expired"]
    BY <2>0, <2>1 DEF TradeSession, OffersOf, Sides, OpenOf, Finished
  <2>2. CASE id \notin es /\ trades'[id] = [trades[id] EXCEPT !.age = @ + 1]
    BY <2>0, <2>2 DEF TradeSession, OffersOf, Sides, OpenOf, Finished
  <2>3. CASE id \notin es /\ trades'[id] = trades[id]
    BY <2>3 DEF OpenOf
  <2>4. QED
    BY <1>2, <2>1, <2>2, <2>3
<1>4. /\ AllOffers(trades') = AllOffers(trades)
      /\ AllAgreed(trades') = AllAgreed(trades)
      /\ AllOpen(trades') = [i \in DOMAIN AllOpen(trades) |-> AllOpen(trades)[i] /\ i \notin es]
  BY <1>2, <1>3 DEF AllOffers, AllAgreed, AllOpen
<1>5. X!Close(es)
  BY <1>2, <1>4 DEF X!Close, AllOffers, AllAgreed, AllOpen, OffersOf, OpenOf
<1>6. QED
  BY <1>5

\* confirm_trade agrees for one side, and swaps when the other has agreed.
LEMMA ConfirmRefines ==
  ASSUME TypeOK, NEW id \in DOMAIN trades, NEW p \in Player, ConfirmTrade(id, p)
  PROVE  \E side \in {1, 2} : X!Agree(id, side)
<1>1. trades[id] \in TradeSession
  BY LenProperties, ElementOfSeq DEF TypeOK
<1>2. PICK t : t = Confirmed(trades[id], p)
  OBVIOUS
<1>3. /\ t \in TradeSession
      /\ t.initiator_offer.items = trades[id].initiator_offer.items
      /\ t.acceptor_offer.items = trades[id].acceptor_offer.items
      /\ trades[id].initiator = p =>
           /\ t.initiator_offer.confirmed /\ t.acceptor_offer = trades[id].acceptor_offer
           /\ t.state = IF trades[id].acceptor_offer.confirmed THEN "Completed"
                        ELSE "InitiatorConfirmed"
      /\ trades[id].initiator # p =>
           /\ t.acceptor_offer.confirmed /\ t.initiator_offer = trades[id].initiator_offer
           /\ t.state = IF trades[id].initiator_offer.confirmed THEN "Completed"
                        ELSE "AcceptorConfirmed"
  BY <1>1, <1>2, ConfirmedIs
<1>4. PICK side \in {1, 2} :
        /\ Sides(t) = Sides(trades[id]) \cup {side}
        /\ Sides(t) = {1, 2} <=> t.state = "Completed"
        /\ t.state # "Completed" => OpenOf(t)
  <2>1. CASE trades[id].initiator = p
    <3>1. /\ Sides(t) = Sides(trades[id]) \cup {1}
          /\ Sides(t) = {1, 2} <=> t.state = "Completed"
          /\ t.state # "Completed" => OpenOf(t)
      BY <1>3, <2>1 DEF Sides, OpenOf, Finished
    <3>2. QED
      BY <3>1
  <2>2. CASE trades[id].initiator # p
    <3>1. /\ Sides(t) = Sides(trades[id]) \cup {2}
          /\ Sides(t) = {1, 2} <=> t.state = "Completed"
          /\ t.state # "Completed" => OpenOf(t)
      BY <1>3, <2>2 DEF Sides, OpenOf, Finished
    <3>2. QED
      BY <3>1
  <2>3. QED
    BY <2>1, <2>2
<1>5. /\ OffersOf(t) = OffersOf(trades[id])
      /\ OpenOf(trades[id]) = TRUE
      /\ t.state = "Completed" => OpenOf(t) = FALSE
      /\ t.state # "Completed" => OpenOf(t) = TRUE
  BY <1>3, <1>4 DEF OffersOf, OpenOf, ConfirmTrade, Modifiable, Finished
<1>6. /\ trades' = [trades EXCEPT ![id] = t]
      /\ IF t.state = "Completed"
         THEN executed' = Append(executed, [of |-> id,
                to |-> <<t.acceptor_offer.items, t.initiator_offer.items>>])
         ELSE executed' = executed
  BY <1>2 DEF ConfirmTrade
<1>7. /\ DOMAIN trades' = DOMAIN trades
      /\ \A i \in DOMAIN trades : trades'[i] = IF i = id THEN t ELSE trades[i]
  BY <1>6
<1>8. /\ AllOpen(trades)[id]
      /\ AllOffers(trades') = AllOffers(trades)
      /\ AllAgreed(trades') = [AllAgreed(trades) EXCEPT ![id] = @ \cup {side}]
      /\ AllAgreed(trades')[id] = Sides(t)
      /\ AllOffers(trades)[id] = <<t.initiator_offer.items, t.acceptor_offer.items>>
  BY <1>4, <1>5, <1>7 DEF AllOffers, AllAgreed, AllOpen, OffersOf
<1>9. AllOpen(trades') = IF t.state = "Completed"
                         THEN [AllOpen(trades) EXCEPT ![id] = FALSE] ELSE AllOpen(trades)
  BY <1>5, <1>7 DEF AllOpen
<1>10. IF AllAgreed(trades')[id] = {1, 2}
       THEN /\ executed' = Append(executed, [of |-> id,
                             to |-> <<AllOffers(trades)[id][2], AllOffers(trades)[id][1]>>])
            /\ AllOpen(trades') = [AllOpen(trades) EXCEPT ![id] = FALSE]
       ELSE executed' = executed /\ AllOpen(trades') = AllOpen(trades)
  <2>1. AllAgreed(trades')[id] = {1, 2} <=> t.state = "Completed"
    BY <1>4, <1>8
  <2>2. /\ AllOffers(trades)[id][2] = t.acceptor_offer.items
        /\ AllOffers(trades)[id][1] = t.initiator_offer.items
    BY <1>8
  <2>3. CASE t.state = "Completed"
    BY <1>6, <1>9, <2>1, <2>2, <2>3
  <2>4. CASE t.state # "Completed"
    BY <1>6, <1>9, <2>1, <2>4
  <2>5. QED
    BY <2>3, <2>4
<1>11. X!Agree(id, side)
  BY <1>8, <1>10 DEF X!Agree, AllOffers, AllAgreed, AllOpen, OffersOf, OpenOf
<1>12. QED
  BY <1>11

\* Every step of the trade manager is a step of Exchange or leaves it alone.
LEMMA StepRefines == TypeOK /\ [Next]_vars => [X!Next]_(X!vars)
<1> SUFFICES ASSUME TypeOK, [Next]_vars PROVE X!Next \/ UNCHANGED X!vars
  OBVIOUS
<1>1. DOMAIN AllOpen(trades) = DOMAIN trades
  BY DEF AllOpen
<1>2. ASSUME NEW p \in Player, NEW q \in Player, ProposeTrade(p, q)
      PROVE  X!Next
  BY <1>2, ProposeRefines DEF X!Next
<1>3. ASSUME NEW id \in DOMAIN trades, NEW p \in Player, AcceptTrade(id, p)
      PROVE  UNCHANGED X!vars
  BY <1>3, AcceptRefines
<1>4. ASSUME NEW id \in DOMAIN trades, NEW p \in Player, ConfirmTrade(id, p)
      PROVE  X!Next
  BY <1>1, <1>4, ConfirmRefines DEF X!Next, AllOpen, OpenOf
<1>5. ASSUME NEW id \in DOMAIN trades, NEW p \in Player, CancelTrade(id, p)
      PROVE  X!Next
  BY <1>1, <1>5, CancelRefines DEF X!Next, AllOpen, OpenOf
<1>6. ASSUME NEW id \in DOMAIN trades, NEW p \in Player, NEW item \in Item,
             NEW quantity \in 1..MaxQuantity, AddItem(id, p, item, quantity)
      PROVE  X!Next
  BY <1>1, <1>6, AddItemRefines DEF X!Next, AllOpen, OpenOf
<1>7. ASSUME TickExpirations PROVE X!Next
  BY <1>1, <1>7, TickRefines DEF X!Next, AllOpen, OpenOf
<1>8. CASE UNCHANGED vars
  BY <1>8 DEF vars, X!vars
<1>9. QED
  BY <1>2, <1>3, <1>4, <1>5, <1>6, <1>7, <1>8 DEF Next

\* "Trades are two-phase: both players must confirm before items swap": whatever
\* proposals, changed offers, cancellations and expiries of however many trades
\* interleave, items change hands only as the two sides have agreed.
THEOREM TradesAreExchanges == Spec => TradeIsExchange
<1>1. Init => X!Init
  BY DEF Init, X!Init
<1>2. QED
  BY <1>1, StepRefines, TypeCorrect, PTL DEF Spec, TradeIsExchange, X!Spec
-----------------------------------------------------------------------------
(* Vec::retain                                                             *)

\* A set of naturals that is not empty has a least element.
LEMMA LeastElement ==
  ASSUME NEW set \in SUBSET Nat, set # {}
  PROVE  \E x \in set : \A y \in set : x <= y
<1>1. IsWellFoundedOn(OpToRel(<, Nat), Nat)
  BY NatLessThanWellFounded
<1>2. \E x \in set : \A y \in set : ~(<<y, x>> \in OpToRel(<, Nat))
  BY <1>1, WFMin
<1>3. \A x, y \in Nat : y < x => <<y, x>> \in OpToRel(<, Nat)
  BY Zenon DEF OpToRel
<1>4. \E x \in set : \A y \in set : ~(y < x)
  BY <1>2, <1>3, Zenon
<1> QED
  BY <1>4

\* The positions of a list of length n.
LEMMA IntervalCard ==
  ASSUME NEW n \in Nat
  PROVE  IsFiniteSet(1..n) /\ Cardinality(1..n) = n
<1>1. 1 \in Int /\ n \in Int
  OBVIOUS
<1>2. IsFiniteSet(1..n) /\ Cardinality(1..n) = IF 1 > n THEN 0 ELSE n - 1 + 1
  BY <1>1, FS_Interval
<1> QED
  BY <1>2

\* The positions that retain keeps can be counted off, from the first to the last.
LEMMA NthExists ==
  ASSUME NEW n \in Nat, NEW kept \in SUBSET (1..n), NEW k \in 1..Cardinality(kept)
  PROVE  \E i \in kept : Cardinality(kept \cap (1..i)) = k
<1>1. IsFiniteSet(kept) /\ Cardinality(kept) \in Nat
  <2>1. IsFiniteSet(1..n)
    BY FS_Interval
  <2>2. IsFiniteSet(kept)
    BY <2>1, FS_Subset
  <2> QED
    BY <2>2, FS_CardinalityType
<1>2. PICK count : count = [i \in Nat |-> Cardinality(kept \cap (1..i))]
  OBVIOUS
<1>3. \A i \in Nat : IsFiniteSet(kept \cap (1..i))
  <2>1. \A i \in Nat : (kept \cap (1..i)) \in SUBSET kept
    OBVIOUS
  <2> QED
    BY <1>1, <2>1, FS_Subset
<1>4. count \in [Nat -> Nat]
  BY <1>2, <1>3, FS_CardinalityType
<1>5. count[0] = 0
  <2>1. kept \cap (1..0) = {}
    OBVIOUS
  <2> QED
    BY <1>2, <2>1, FS_EmptySet
<1>6. count[n] = Cardinality(kept)
  <2>1. kept \cap (1..n) = kept
    OBVIOUS
  <2> QED
    BY <1>2, <2>1
<1>7. ASSUME NEW i \in Nat \ {0} PROVE count[i] = count[i - 1] + (IF i \in kept THEN 1 ELSE 0)
  <2>1. i - 1 \in Nat /\ IsFiniteSet(kept \cap (1..(i - 1))) /\ i \notin kept \cap (1..(i - 1))
    BY <1>3
  <2>2. CASE i \in kept
    <3>1. kept \cap (1..i) = (kept \cap (1..(i - 1))) \cup {i}
      BY <2>2
    <3>2. Cardinality((kept \cap (1..(i - 1))) \cup {i}) = Cardinality(kept \cap (1..(i - 1))) + 1
      BY <2>1, FS_AddElement
    <3> QED
      BY <1>2, <2>1, <2>2, <3>1, <3>2
  <2>3. CASE i \notin kept
    <3>1. kept \cap (1..i) = kept \cap (1..(i - 1))
      BY <2>3
    <3> QED
      BY <1>2, <1>4, <2>1, <2>3, <3>1
  <2> QED
    BY <2>2, <2>3
<1>8. PICK i \in {j \in Nat : count[j] >= k} : \A j \in {j \in Nat : count[j] >= k} : i <= j
  <2>1. n \in {j \in Nat : count[j] >= k}
    BY <1>1, <1>6
  <2>2. {j \in Nat : count[j] >= k} \in SUBSET Nat
    OBVIOUS
  <2> QED
    BY <2>1, <2>2, LeastElement
<1>9. i \in Nat \ {0} /\ count[i] >= k
  BY <1>1, <1>5, <1>8
<1>10. i - 1 \in Nat /\ count[i - 1] < k
  BY <1>1, <1>4, <1>8, <1>9
<1>11. count[i] = count[i - 1] + (IF i \in kept THEN 1 ELSE 0)
  BY <1>7, <1>9
<1>12. i \in kept /\ count[i] = k
  BY <1>1, <1>4, <1>9, <1>10, <1>11
<1> QED
  BY <1>2, <1>9, <1>12

\* Vec::retain as the modules of the game write it.
Retained(list, kept) ==
  [k \in 1..Cardinality(kept) |-> list[CHOOSE i \in kept : Cardinality(kept \cap (1..i)) = k]]

\* A function on 1..n is a sequence of length n.
LEMMA SeqIntro ==
  ASSUME NEW Dom, NEW n \in Nat, NEW s \in [1..n -> Dom]
  PROVE  s \in Seq(Dom) /\ Len(s) = n
OBVIOUS

\* What is retained are the entries at the kept positions, all of them, in order:
\* entry k is the one at position nth[k].
KeptAs(out, nth, Dom, list, kept) ==
  /\ out = Retained(list, kept) /\ out \in Seq(Dom)
  /\ nth \in [1..Len(out) -> kept]
  /\ \A k \in 1..Len(out) : out[k] = list[nth[k]]
  /\ \A k, l \in 1..Len(out) : k < l => nth[k] < nth[l]
  /\ \A i \in kept : \E k \in 1..Len(out) : nth[k] = i

KeepsInOrder(Dom, list, kept) == \E out, nth : KeptAs(out, nth, Dom, list, kept)

\* Retaining keeps the entries at the kept positions, all of them, in order.
LEMMA KeptFacts ==
  ASSUME NEW Dom, NEW list \in Seq(Dom), NEW kept \in SUBSET (1..Len(list))
  PROVE  KeepsInOrder(Dom, list, kept)
<1>1. Len(list) \in Nat /\ \A i \in 1..Len(list) : list[i] \in Dom
  OBVIOUS
<1>2. IsFiniteSet(kept)
  <2>1. IsFiniteSet(1..Len(list))
    BY <1>1, IntervalCard
  <2> QED
    BY <2>1, FS_Subset
<1>3. PICK n \in Nat : n = Cardinality(kept)
  BY <1>2, FS_CardinalityType
<1>4. PICK nth : nth = [k \in 1..n |-> CHOOSE i \in kept : Cardinality(kept \cap (1..i)) = k]
  OBVIOUS
<1>5. \A k \in 1..n : nth[k] \in kept /\ Cardinality(kept \cap (1..nth[k])) = k
  <2> SUFFICES ASSUME NEW k \in 1..n
               PROVE  nth[k] \in kept /\ Cardinality(kept \cap (1..nth[k])) = k
    OBVIOUS
  <2>1. \E i \in kept : Cardinality(kept \cap (1..i)) = k
    BY <1>1, <1>3, NthExists
  <2>2. nth[k] = CHOOSE i \in kept : Cardinality(kept \cap (1..i)) = k
    BY <1>4
  <2> QED
    BY <2>1, <2>2
<1>12. PICK out : out = Retained(list, kept)
  OBVIOUS
<1>6. out \in Seq(Dom) /\ Len(out) = n /\ \A k \in 1..n : out[k] = list[nth[k]]
  <2>1. out = [k \in 1..n |-> list[nth[k]]]
    BY <1>3, <1>4, <1>12 DEF Retained
  <2>2. \A k \in 1..n : list[nth[k]] \in Dom
    BY <1>1, <1>5
  <2>3. out \in [1..n -> Dom]
    BY <2>1, <2>2
  <2>4. out \in Seq(Dom) /\ Len(out) = n
    BY <2>3, SeqIntro
  <2> QED
    BY <2>1, <2>4
<1>7. nth \in [1..n -> kept]
  <2>1. \A k \in 1..n : nth[k] \in kept
    BY <1>5
  <2> QED
    BY <1>4, <2>1
<1>8. \A i \in kept : i \in 1..Len(list) /\ i \in Nat
  BY <1>1
<1>9. ASSUME NEW i \in kept, NEW j \in kept, i < j
      PROVE  /\ Cardinality(kept \cap (1..i)) \in Nat /\ Cardinality(kept \cap (1..j)) \in Nat
             /\ Cardinality(kept \cap (1..i)) < Cardinality(kept \cap (1..j))
  <2>1. IsFiniteSet(kept \cap (1..j)) /\ IsFiniteSet(kept \cap (1..i))
    <3>1. kept \cap (1..j) \in SUBSET kept /\ kept \cap (1..i) \in SUBSET kept
      OBVIOUS
    <3> QED
      BY <1>2, <3>1, FS_Subset
  <2>2. kept \cap (1..i) \in SUBSET (kept \cap (1..j))
    BY <1>8, <1>9
  <2>3. j \in kept \cap (1..j) /\ j \notin kept \cap (1..i)
    BY <1>8, <1>9
  <2>4. /\ Cardinality(kept \cap (1..i)) <= Cardinality(kept \cap (1..j))
        /\ Cardinality(kept \cap (1..j)) # Cardinality(kept \cap (1..i))
    BY <2>1, <2>2, <2>3, FS_Subset
  <2>5. Cardinality(kept \cap (1..i)) \in Nat /\ Cardinality(kept \cap (1..j)) \in Nat
    BY <2>1, FS_CardinalityType
  <2> QED
    BY <2>4, <2>5
<1>10. ASSUME NEW k \in 1..n, NEW l \in 1..n, k < l PROVE nth[k] < nth[l]
  <2>1. nth[k] \in kept /\ nth[l] \in kept
    BY <1>5
  <2>2. Cardinality(kept \cap (1..nth[k])) = k /\ Cardinality(kept \cap (1..nth[l])) = l
    BY <1>5
  <2>3. nth[l] < nth[k] => l < k
    BY <1>9, <2>1, <2>2
  <2>4. nth[k] = nth[l] => k = l
    BY <2>2, Zenon
  <2>5. nth[k] \in Nat /\ nth[l] \in Nat
    BY <1>8, <2>1
  <2>6. nth[k] = nth[l] \/ nth[l] < nth[k] \/ nth[k] < nth[l]
    BY <2>5
  <2>7. k # l /\ ~(l < k)
    BY <1>10
  <2> QED
    BY <2>3, <2>4, <2>6, <2>7
<1>11. ASSUME NEW i \in kept PROVE \E k \in 1..n : nth[k] = i
  <2>1. PICK k : k = Cardinality(kept \cap (1..i))
    OBVIOUS
  <2>2. k \in 1..n
    <3>1. i \in kept \cap (1..i) /\ kept \cap (1..i) \in SUBSET kept
      BY <1>8
    <3>2. IsFiniteSet(kept \cap (1..i)) /\ k <= n
      BY <1>2, <1>3, <2>1, <3>1, FS_Subset
    <3>3. k \in Nat
      BY <2>1, <3>2, FS_CardinalityType
    <3>4. k # 0
      BY <2>1, <3>1, <3>2, FS_EmptySet
    <3> QED
      BY <3>2, <3>3, <3>4
  <2>3. nth[k] \in kept /\ Cardinality(kept \cap (1..nth[k])) = k
    BY <1>5, <2>2
  <2>4. ~(nth[k] < i) /\ ~(i < nth[k])
    <3>1. nth[k] < i => k < k
      BY <1>9, <2>1, <2>3
    <3>2. i < nth[k] => k < k
      BY <1>9, <2>1, <2>3
    <3> QED
      BY <2>2, <3>1, <3>2
  <2>5. nth[k] = i
    <3>1. nth[k] \in Nat /\ i \in Nat
      BY <1>8, <2>3
    <3> QED
      BY <2>4, <3>1
  <2> QED
    BY <2>2, <2>5
<1> QED
  <2>1. \A k, l \in 1..Len(out) : k < l => nth[k] < nth[l]
    BY <1>6, <1>10
  <2>2. \A i \in kept : \E k \in 1..Len(out) : nth[k] = i
    BY <1>6, <1>11
  <2>3. nth \in [1..Len(out) -> kept] /\ \A k \in 1..Len(out) : out[k] = list[nth[k]]
    BY <1>6, <1>7
  <2>4. out \in Seq(Dom)
    BY <1>6
  <2>5. KeptAs(out, nth, Dom, list, kept)
    BY <1>12, <2>1, <2>2, <2>3, <2>4 DEF KeptAs
  <2> QED
    BY <2>5, Zenon DEF KeepsInOrder
-----------------------------------------------------------------------------
(* Sound                                                                   *)

\* The instance of Sound counts as this module does.
LEMMA SoundCounts == \A set : B!Cardinality(set) = Cardinality(set)
BY Zenon DEF B!Cardinality, Cardinality

\* SetToSeq lists a finite set, each element once.
LEMMA SetToSeqFacts ==
  ASSUME NEW set, IsFiniteSet(set)
  PROVE  /\ B!SetToSeq(set) \in Seq(set)
         /\ Len(B!SetToSeq(set)) = Cardinality(set)
         /\ \A i, j \in 1..Cardinality(set) : B!SetToSeq(set)[i] = B!SetToSeq(set)[j] => i = j
<1>1. PICK n \in Nat : n = Cardinality(set)
  BY FS_CardinalityType
<1>2. PICK g : g \in Bijection(1..n, set)
  BY <1>1, FS_CardinalityType DEF ExistsBijection
<1>3. g \in [1..n -> set] /\ \A i, j \in 1..n : g[i] = g[j] => i = j
  BY <1>2, Fun_BijectionProperties
<1>4. g \in [1..n -> set] /\ B!IsInjective(g)
  BY <1>3 DEF B!IsInjective
<1>5. B!SetToSeq(set) = CHOOSE f \in [1..n -> set] : B!IsInjective(f)
  BY <1>1, SoundCounts DEF B!SetToSeq
<1>6. B!SetToSeq(set) \in [1..n -> set] /\ B!IsInjective(B!SetToSeq(set))
  BY <1>4, <1>5
<1> QED
  BY <1>1, <1>6 DEF B!IsInjective

\* The queue: every entry was pushed before now, those within the cooldown are
\* among the recent ones, and two of one effect are a cooldown apart.
Spaced(queue, recent, time) ==
  /\ queue \in Seq(SfxId \X Nat)
  /\ \A i \in 1..Len(queue) :
       queue[i][2] < time /\ (time - queue[i][2] < sfx_cooldown => queue[i] \in recent)
  /\ \A i, j \in 1..Len(queue) :
       i < j /\ queue[i][1] = queue[j][1] => queue[j][2] - queue[i][2] >= sfx_cooldown

SoundInv ==
  /\ overruled \/ asked = IF crossfading THEN target_bgm ELSE current_bgm
  /\ heard \in Nat
  /\ Spaced(sfx_queue, recent_sfx, heard)

\* A request keeps the music on its way to the track asked for.
LEMMA AskKept ==
  ASSUME SoundInv, NEW request, B!Ask(request)
  PROVE  SoundInv'
<1>1. PICK music : music = B!Music
  OBVIOUS
<1>2. /\ music \in [current : {current_bgm}, target : {target_bgm},
                    fading : {crossfading}, progress : {crossfade_progress}]
      /\ music.current = current_bgm /\ music.fading = crossfading
      /\ music.target = target_bgm
  BY <1>1 DEF B!Music
<1>3. PICK after : after = IF request = B!Silence THEN B!StopBgm(music) ELSE B!ChangeBgm(music, request)
  OBVIOUS
<1>4. /\ current_bgm' = after.current /\ target_bgm' = after.target /\ crossfading' = after.fading
      /\ asked' = request
      /\ overruled' = (request # B!Silence /\ current_bgm = request /\ crossfading)
  BY <1>1, <1>3 DEF B!Ask
<1>5. overruled' \/ asked' = IF crossfading' THEN target_bgm' ELSE current_bgm'
  <2>1. CASE request = B!Silence
    BY <1>2, <1>3, <1>4, <2>1 DEF B!StopBgm
  <2>2. CASE request # B!Silence /\ current_bgm = request
    <3>1. after = music
      BY <1>2, <1>3, <2>2 DEF B!ChangeBgm
    <3> QED
      BY <1>2, <1>4, <2>2, <3>1
  <2>3. CASE request # B!Silence /\ current_bgm # request
    BY <1>2, <1>3, <1>4, <2>3 DEF B!ChangeBgm
  <2> QED
    BY <2>1, <2>2, <2>3
<1>6. sfx_queue' = sfx_queue /\ recent_sfx' = recent_sfx /\ heard' = heard
  BY DEF B!Ask, B!sfx
<1> QED
  BY <1>5, <1>6 DEF SoundInv, Spaced

\* So does the fade.
LEMMA FadeKept ==
  ASSUME overruled \/ asked = IF crossfading THEN target_bgm ELSE current_bgm,
         NEW ids, B!Frame(ids)
  PROVE  overruled' \/ asked' = IF crossfading' THEN target_bgm' ELSE current_bgm'
<1>1. PICK music : music = B!Music
  OBVIOUS
<1>2. /\ music \in [current : {current_bgm}, target : {target_bgm},
                    fading : {crossfading}, progress : {crossfade_progress}]
      /\ music.current = current_bgm /\ music.fading = crossfading
      /\ music.target = target_bgm
  BY <1>1 DEF B!Music
<1>3. PICK after : after = B!Faded(music)
  OBVIOUS
<1>4. /\ current_bgm' = after.current /\ target_bgm' = after.target /\ crossfading' = after.fading
      /\ asked' = asked /\ overruled' = overruled
  BY <1>1, <1>3 DEF B!Frame
<1> QED
  BY <1>2, <1>3, <1>4 DEF B!Faded

\* A frame queues each effect not heard within the cooldown once.
LEMMA QueueSpaced ==
  ASSUME heard \in Nat, Spaced(sfx_queue, recent_sfx, heard),
         NEW ids \in SUBSET SfxId, B!Frame(ids)
  PROVE  Spaced(sfx_queue', recent_sfx', heard + 1)
<1>1. PICK e : e = B!Effects(ids) \X {heard}
  OBVIOUS
<1>2. /\ e \subseteq SfxId \X {heard}
      /\ \A x \in e : ~\E r \in B!Fresh : r[1] = x[1]
  BY <1>1 DEF B!Effects, B!Heard
<1>3. IsFiniteSet(e)
  <2>1. IsFiniteSet(SfxId \X {heard})
    BY SoundAssumption, FS_Singleton, FS_Product
  <2> QED
    BY <1>2, <2>1, FS_Subset
<1>4. PICK new : new = B!SetToSeq(e)
  OBVIOUS
<1>5. PICK n \in Nat : n = Cardinality(e)
  BY <1>3, FS_CardinalityType
<1>6. /\ new \in Seq(e) /\ Len(new) = n
      /\ \A i, j \in 1..n : new[i] = new[j] => i = j
  BY <1>3, <1>4, <1>5, SetToSeqFacts
<1>7. /\ sfx_queue' = sfx_queue \o new
      /\ recent_sfx' = B!Fresh \cup e
  BY <1>1, <1>4 DEF B!Frame
<1>8. sfx_cooldown \in Nat
  BY SoundAssumption
<1>9. PICK q : q = sfx_queue
  OBVIOUS
<1>10. /\ q \in Seq(SfxId \X Nat) /\ Len(q) \in Nat
       /\ \A i \in 1..Len(q) : q[i] \in SfxId \X Nat
  BY <1>9 DEF Spaced
<1>11. /\ \A i \in 1..Len(q) :
            q[i][2] < heard /\ (heard - q[i][2] < sfx_cooldown => q[i] \in recent_sfx)
       /\ \A i, j \in 1..Len(q) :
            i < j /\ q[i][1] = q[j][1] => q[j][2] - q[i][2] >= sfx_cooldown
  BY <1>9 DEF Spaced
<1>12. \A i \in 1..n : new[i] \in e /\ new[i] \in SfxId \X Nat /\ new[i][2] = heard
  <2>1. \A i \in 1..n : new[i] \in e
    BY <1>6
  <2> QED
    BY <1>2, <2>1
<1>13. PICK all : all = q \o new
  OBVIOUS
<1>14. /\ all \in Seq(SfxId \X Nat) /\ Len(all) = Len(q) + n
       /\ \A i \in 1..Len(q) : all[i] = q[i]
       /\ \A i \in 1..Len(all) : i > Len(q) => i - Len(q) \in 1..n /\ all[i] = new[i - Len(q)]
  <2>1. new \in Seq(SfxId \X Nat)
    BY <1>6, <1>12
  <2>2. /\ all \in Seq(SfxId \X Nat) /\ Len(all) = Len(q) + n
        /\ \A i \in 1..Len(q) + n : all[i] = IF i <= Len(q) THEN q[i] ELSE new[i - Len(q)]
    <3>1. /\ q \o new \in Seq(SfxId \X Nat) /\ Len(q \o new) = Len(q) + Len(new)
          /\ \A i \in 1..Len(q) + Len(new) :
               (q \o new)[i] = IF i <= Len(q) THEN q[i] ELSE new[i - Len(q)]
      BY <1>10, <2>1, ConcatProperties
    <3> QED
      BY <1>6, <1>13, <3>1
  <2> QED
    BY <1>10, <2>2, SMTT(30)
<1>15. ASSUME NEW i \in 1..Len(all)
       PROVE  all[i][2] < heard + 1 /\ (heard + 1 - all[i][2] < sfx_cooldown => all[i] \in recent_sfx')
  <2>1. CASE i > Len(q)
    <3>1. i - Len(q) \in 1..n /\ all[i] = new[i - Len(q)]
      BY <1>14, <2>1
    <3>2. all[i] \in e /\ all[i][2] = heard
      BY <1>12, <3>1
    <3> QED
      BY <1>7, <1>8, <3>2
  <2>2. CASE i \in 1..Len(q)
    <3>1. all[i] = q[i] /\ q[i][2] \in Nat
      BY <1>10, <1>14, <2>2
    <3>2. q[i][2] < heard /\ (heard - q[i][2] < sfx_cooldown => q[i] \in recent_sfx)
      BY <1>11, <2>2
    <3>3. heard + 1 - q[i][2] < sfx_cooldown => q[i] \in B!Fresh
      BY <1>8, <3>1, <3>2 DEF B!Fresh
    <3> QED
      BY <1>7, <3>1, <3>2, <3>3
  <2> QED
    BY <1>10, <1>14, <2>1, <2>2
<1>16. ASSUME NEW i \in 1..Len(all), NEW j \in 1..Len(all), i < j, all[i][1] = all[j][1]
       PROVE  all[j][2] - all[i][2] >= sfx_cooldown
  <2>1. CASE j \in 1..Len(q)
    <3>1. i \in 1..Len(q)
      BY <1>10, <1>16, <2>1
    <3> QED
      BY <1>11, <1>14, <1>16, <2>1, <3>1
  <2>2. CASE i > Len(q)
    <3>1. j > Len(q)
      BY <1>10, <1>14, <1>16, <2>2
    <3>2. /\ i - Len(q) \in 1..n /\ all[i] = new[i - Len(q)]
          /\ j - Len(q) \in 1..n /\ all[j] = new[j - Len(q)]
      BY <1>14, <2>2, <3>1
    <3>3. new[i - Len(q)][2] = new[j - Len(q)][2] /\ new[i - Len(q)][1] = new[j - Len(q)][1]
      BY <1>12, <1>16, <3>2
    <3>4. new[i - Len(q)] = new[j - Len(q)]
      <4>1. new[i - Len(q)] \in SfxId \X Nat /\ new[j - Len(q)] \in SfxId \X Nat
        BY <1>12, <3>2
      <4> QED
        BY <3>3, <4>1
    <3>5. i - Len(q) = j - Len(q)
      BY <1>6, <3>2, <3>4
    <3> QED
      BY <1>10, <1>14, <1>16, <3>5
  <2>3. CASE i \in 1..Len(q) /\ j > Len(q)
    <3>6. j - Len(q) \in 1..n /\ all[j] = new[j - Len(q)]
      BY <1>14, <2>3
    <3>1. all[j] \in e /\ all[j][2] = heard
      BY <1>12, <3>6
    <3>2. all[i] = q[i] /\ q[i][2] \in Nat
      BY <1>10, <1>14, <2>3
    <3>3. q[i] \notin B!Fresh
      BY <1>2, <1>16, <3>1, <3>2
    <3>4. q[i][2] < heard /\ (heard - q[i][2] < sfx_cooldown => q[i] \in recent_sfx)
      BY <1>11, <2>3
    <3>5. ~(heard - q[i][2] < sfx_cooldown)
      BY <3>3, <3>4 DEF B!Fresh
    <3> QED
      BY <1>8, <3>1, <3>2, <3>5
  <2> QED
    BY <1>10, <1>14, <2>1, <2>2, <2>3, SMTT(30)
<1>17. all = sfx_queue'
  BY <1>7, <1>9, <1>13
<1> QED
  BY <1>14, <1>15, <1>16, <1>17, SMTT(30) DEF Spaced

\* Requests, ambient sounds and frames keep all of it.
LEMMA SoundInvKept == SoundInv /\ B!Next => SoundInv'
<1> SUFFICES ASSUME SoundInv, B!Next PROVE SoundInv'
  OBVIOUS
<1>1. ASSUME NEW request, B!Ask(request) PROVE SoundInv'
  BY <1>1, AskKept
<1>2. ASSUME NEW ambient, B!ChangeAmbient(ambient) PROVE SoundInv'
  BY <1>2 DEF B!ChangeAmbient, B!bgm, B!sfx, SoundInv, Spaced
<1>3. ASSUME NEW ids \in SUBSET SfxId, B!Frame(ids) PROVE SoundInv'
  <2>1. heard' = heard + 1 /\ heard \in Nat
    BY <1>3 DEF SoundInv, B!Frame
  <2>2. Spaced(sfx_queue', recent_sfx', heard')
    BY <1>3, <2>1, QueueSpaced DEF SoundInv
  <2>3. overruled' \/ asked' = IF crossfading' THEN target_bgm' ELSE current_bgm'
    BY <1>3, FadeKept DEF SoundInv
  <2> QED
    BY <2>1, <2>2, <2>3 DEF SoundInv, Spaced
<1> QED
  BY <1>1, <1>2, <1>3 DEF B!Next

\* However requests, frames and the fade interleave, the music is or becomes the track
\* asked for last, unless that was the track being faded out, whose request is
\* ignored; and no effect is queued twice within its cooldown.
THEOREM SoundsAreSettled == MCSpec => []SoundSettles
<1>1. MCInit => SoundInv
  <2> SUFFICES ASSUME MCInit PROVE SoundInv
    OBVIOUS
  <2>1. asked = current_bgm /\ crossfading = FALSE /\ heard = 0 /\ sfx_queue = <<>>
    BY DEF MCInit, B!Init
  <2> QED
    BY <2>1 DEF SoundInv, Spaced
<1>2. SoundInv /\ [MCNext]_allvars => SoundInv'
  <2> SUFFICES ASSUME SoundInv, [MCNext]_allvars PROVE SoundInv'
    OBVIOUS
  <2>1. CASE Play
    BY <2>1, SoundInvKept DEF Play
  <2>2. CASE UNCHANGED soundVars
    BY <2>2 DEF soundVars, SoundInv, Spaced
  <2> QED
    BY <2>1, <2>2 DEF MCNext, Trade, Shop, Craft, Quest, Learn, Live, Happen, Touch, Show,
                      Sparkle, allvars, clientVars
<1>3. SoundInv => SoundSettles
  <2> SUFFICES ASSUME SoundInv PROVE B!SoundSettles
    BY DEF SoundSettles
  <2>1. DOMAIN sfx_queue = 1..Len(sfx_queue)
    BY DEF SoundInv, Spaced
  <2> QED
    BY <2>1 DEF SoundInv, Spaced, B!SoundSettles
<1> QED
  BY <1>1, <1>2, <1>3, PTL DEF MCSpec
-----------------------------------------------------------------------------
(* Quests                                                                  *)

\* Whatever is registered, every objective has a natural count and one of the
\* kinds of events.
LEMMA ObjectivesTyped ==
  ASSUME NEW q \in DOMAIN Q!quests, NEW i \in DOMAIN Q!Objectives(q)
  PROVE  Q!Objectives(q)[i].count \in Nat /\ Q!Objectives(q)[i].kind \in Q!Kinds
<1>1. CASE q \in DOMAIN registered
  <2>1. Q!quests[q] = registered[q]
    BY <1>1 DEF Q!quests
  <2>2. Q!Objectives(q) = registered[q].objectives
    BY <2>1 DEF Q!Objectives
  <2> QED
    BY <1>1, <2>2, QuestAssumption
<1>2. CASE q \notin DOMAIN registered
  <2>1. PICK objectives : objectives = Q!Objectives(q)
    OBVIOUS
  <2>2. \/ objectives = <<Q!Objective("Explore", "place", 1)>>
        \/ objectives = <<Q!Objective("Gather", "wood", 5)>>
        \/ objectives = <<Q!Objective("Kill", "wolf", 3)>>
        \/ objectives = <<Q!Objective("Gather", "ore", 10)>>
        \/ objectives = <<Q!Objective("TalkTo", "merchant", 1), Q!Objective("Deliver", "wood", 5)>>
        \/ objectives = <<Q!Objective("Craft", "sword", 1)>>
        \/ objectives = <<Q!Objective("Kill", "dragon", 1)>>
        \/ objectives = <<Q!Objective("Kill", "skeleton", 10)>>
        \/ objectives = <<Q!Objective("Craft", "slayer", 1)>>
    <3>1. /\ DOMAIN Q!TutorialQuests = {1, 2, 3} /\ DOMAIN Q!MidLevelQuests = {10, 11, 12}
          /\ DOMAIN Q!HighLevelQuests = {20, 21, 22}
      BY DEF Q!TutorialQuests, Q!MidLevelQuests, Q!HighLevelQuests
    <3>2. CASE q \in {1, 2, 3}
      <4>1. Q!quests[q] = Q!TutorialQuests[q]
        BY <1>2, <3>1, <3>2 DEF Q!quests
      <4> QED
        BY <2>1, <3>2, <4>1 DEF Q!Objectives, Q!TutorialQuests, Q!QuestDef
    <3>3. CASE q \in {10, 11, 12}
      <4>1. Q!quests[q] = Q!MidLevelQuests[q]
        BY <1>2, <3>1, <3>3 DEF Q!quests
      <4> QED
        BY <2>1, <3>3, <4>1 DEF Q!Objectives, Q!MidLevelQuests, Q!QuestDef
    <3>4. CASE q \in {20, 21, 22}
      <4>1. Q!quests[q] = Q!HighLevelQuests[q]
        BY <1>2, <3>1, <3>4 DEF Q!quests
      <4> QED
        BY <2>1, <3>4, <4>1 DEF Q!Objectives, Q!HighLevelQuests, Q!QuestDef
    <3>5. q \in {1, 2, 3} \cup {10, 11, 12} \cup {20, 21, 22}
      BY <1>2, <3>1 DEF Q!quests
    <3> QED
      BY <3>2, <3>3, <3>4, <3>5
  <2>3. \A kind, about : \A n \in Nat :
          Q!Objective(kind, about, n).kind = kind /\ Q!Objective(kind, about, n).count = n
    BY DEF Q!Objective
  <2>4. \A j \in DOMAIN objectives :
          objectives[j].count \in Nat /\ objectives[j].kind \in Q!Kinds
    <3>1. \A o : \A j \in DOMAIN <<o>> : <<o>>[j] = o
      OBVIOUS
    <3>2. \A o, p : \A j \in DOMAIN <<o, p>> : <<o, p>>[j] = o \/ <<o, p>>[j] = p
      OBVIOUS
    <3> QED
      BY <2>2, <2>3, <3>1, <3>2 DEF Q!Kinds
  <2> QED
    BY <2>1, <2>4
<1> QED
  BY <1>1, <1>2

\* What the objectives of the quests asked for are about is counted.
LEMMA AboutCounted ==
  ASSUME NEW q \in Asked \cap DOMAIN Q!quests, NEW i \in DOMAIN Q!Objectives(q)
  PROVE  Q!Objectives(q)[i].about \in Q!About
<1>1. PICK o : o = Q!Objectives(q)[i]
  OBVIOUS
<1>2. o.kind \in Q!Kinds
  BY <1>1, ObjectivesTyped
<1>3. o \in Q!Range(Q!Objectives(q))
  BY <1>1 DEF Q!Range
<1>4. o.about \in Q!Things(o.kind)
  BY <1>3 DEF Q!Things
<1> QED
  BY <1>1, <1>2, <1>4 DEF Q!About

\* The progress of an objective, none for a quest that is not active.
ProgressOf(act, q, i) == IF q \in DOMAIN act THEN act[q][i] ELSE 0

\* Each reward has used up its count of events, and the progress towards the
\* next one uses further ones; the completed quests are those that paid, and
\* neither they nor the active ones came before their prerequisites.
QuestInv ==
  /\ DOMAIN active \subseteq Asked \cap DOMAIN Q!quests
  /\ \A q \in DOMAIN active :
       /\ DOMAIN active[q] = DOMAIN Q!Objectives(q)
       /\ \A i \in DOMAIN Q!Objectives(q) : active[q][i] \in Nat
       /\ Q!quests[q].prerequisites \subseteq completed
       /\ Q!quests[q].repeatable \/ rewards[q] = 0
  /\ rewards \in [DOMAIN Q!quests -> Nat]
  /\ happened \in [Q!About -> Nat]
  /\ completed = {q \in DOMAIN Q!quests : rewards[q] > 0}
  /\ \A q \in completed :
       /\ q \in Asked
       /\ Q!quests[q].prerequisites \subseteq completed
       /\ Q!quests[q].repeatable \/ rewards[q] = 1
  /\ \A q \in Asked \cap DOMAIN Q!quests : \A i \in DOMAIN Q!Objectives(q) :
       rewards[q] * Q!Objectives(q)[i].count + ProgressOf(active, q, i)
         <= happened[Q!Objectives(q)[i].about]

\* accept_quest starts at no progress.
LEMMA AcceptKeepsQuests ==
  ASSUME QuestInv, NEW q \in Asked, Q!AcceptQuest(q)
  PROVE  QuestInv'
<1>1. /\ q \in DOMAIN Q!quests /\ q \notin DOMAIN active
      /\ Q!quests[q].prerequisites \subseteq completed
      /\ Q!quests[q].repeatable \/ q \notin completed
      /\ completed' = completed /\ rewards' = rewards /\ happened' = happened
      /\ active' = [r \in DOMAIN active \cup {q} |->
                      IF r = q THEN [i \in DOMAIN Q!Objectives(q) |-> 0] ELSE active[r]]
  BY DEF Q!AcceptQuest
<1>2. /\ DOMAIN active' = DOMAIN active \cup {q}
      /\ \A r \in DOMAIN active : active'[r] = active[r]
      /\ active'[q] = [i \in DOMAIN Q!Objectives(q) |-> 0]
  BY <1>1
<1>3. Q!quests[q].repeatable \/ rewards[q] = 0
  BY <1>1 DEF QuestInv
<1>4. \A r \in DOMAIN active' :
        /\ DOMAIN active'[r] = DOMAIN Q!Objectives(r)
        /\ \A i \in DOMAIN Q!Objectives(r) : active'[r][i] \in Nat
        /\ Q!quests[r].prerequisites \subseteq completed
        /\ Q!quests[r].repeatable \/ rewards[r] = 0
  BY <1>1, <1>2, <1>3 DEF QuestInv
<1>5. \A r \in Asked \cap DOMAIN Q!quests : \A i \in DOMAIN Q!Objectives(r) :
        ProgressOf(active', r, i) = ProgressOf(active, r, i)
  BY <1>1, <1>2 DEF ProgressOf
<1>6. \A r \in Asked \cap DOMAIN Q!quests : \A i \in DOMAIN Q!Objectives(r) :
        rewards[r] * Q!Objectives(r)[i].count + ProgressOf(active', r, i)
          <= happened[Q!Objectives(r)[i].about]
  BY <1>5 DEF QuestInv
<1>7. DOMAIN active' \subseteq Asked \cap DOMAIN Q!quests
  BY <1>1, <1>2 DEF QuestInv
<1> QED
  BY <1>1, <1>4, <1>6, <1>7 DEF QuestInv

\* A report moves the objectives about it by at most what happened.
LEMMA ReportKeepsQuests ==
  ASSUME QuestInv, NEW kind, NEW about \in Q!About, NEW quantity \in Nat,
         Q!Report(kind, about, quantity)
  PROVE  QuestInv'
<1>1. /\ completed' = completed /\ rewards' = rewards
      /\ happened' = [happened EXCEPT ![about] = @ + quantity]
      /\ active' = Q!Progress(kind, about, quantity)
  BY DEF Q!Report
<1>2. happened \in [Q!About -> Nat]
  BY DEF QuestInv
<1>3. /\ happened' \in [Q!About -> Nat]
      /\ happened'[about] = happened[about] + quantity
      /\ \A a \in Q!About : a # about => happened'[a] = happened[a]
  BY <1>1, <1>2
<1>4. /\ DOMAIN active' = DOMAIN active
      /\ \A q \in DOMAIN active : DOMAIN active'[q] = DOMAIN active[q]
  BY <1>1 DEF Q!Progress
<1>5. ASSUME NEW q \in DOMAIN active, NEW i \in DOMAIN Q!Objectives(q)
      PROVE  /\ active'[q][i] \in Nat
             /\ active'[q][i] <= active[q][i] + quantity
             /\ Q!Objectives(q)[i].about # about => active'[q][i] = active[q][i]
  <2>1. q \in DOMAIN Q!quests /\ DOMAIN active[q] = DOMAIN Q!Objectives(q) /\ active[q][i] \in Nat
    BY DEF QuestInv
  <2>2. Q!Objectives(q)[i].count \in Nat
    BY <2>1, ObjectivesTyped
  <2>3. PICK o : o = Q!Objectives(q)[i]
    OBVIOUS
  <2>4. active'[q][i] = IF o.kind # kind \/ o.about # about \/ Q!Done(q, i) THEN active[q][i]
                        ELSE IF active[q][i] + quantity >= o.count THEN o.count
                        ELSE active[q][i] + quantity
    BY <1>1, <2>1, <2>3 DEF Q!Progress
  <2> QED
    BY <2>1, <2>2, <2>3, <2>4
<1>6. ASSUME NEW q \in Asked \cap DOMAIN Q!quests, NEW i \in DOMAIN Q!Objectives(q)
      PROVE  rewards[q] * Q!Objectives(q)[i].count + ProgressOf(active', q, i)
               <= happened'[Q!Objectives(q)[i].about]
  <2>1. PICK a : a = Q!Objectives(q)[i].about
    OBVIOUS
  <2>2. a \in Q!About /\ happened[a] \in Nat /\ happened'[a] \in Nat
    BY <1>2, <1>3, <2>1, AboutCounted
  <2>3. PICK used \in Nat : used = rewards[q] * Q!Objectives(q)[i].count
    <3>1. rewards[q] \in Nat /\ Q!Objectives(q)[i].count \in Nat
      BY ObjectivesTyped DEF QuestInv
    <3> QED
      BY <3>1
  <2>4. used + ProgressOf(active, q, i) <= happened[a]
    BY <2>1, <2>3 DEF QuestInv
  <2>5. CASE q \in DOMAIN active
    <3>1. /\ active[q][i] \in Nat /\ active'[q][i] \in Nat
          /\ active'[q][i] <= active[q][i] + quantity
          /\ a # about => active'[q][i] = active[q][i]
      BY <1>5, <2>1, <2>5 DEF QuestInv
    <3>2. ProgressOf(active, q, i) = active[q][i] /\ ProgressOf(active', q, i) = active'[q][i]
      BY <1>4, <2>5 DEF ProgressOf
    <3>3. a = about => happened'[a] = happened[a] + quantity
      BY <1>3
    <3>4. a # about => happened'[a] = happened[a]
      BY <1>3, <2>2
    <3> QED
      BY <2>1, <2>2, <2>3, <2>4, <3>1, <3>2, <3>3, <3>4
  <2>6. CASE q \notin DOMAIN active
    <3>1. ProgressOf(active, q, i) = 0 /\ ProgressOf(active', q, i) = 0
      BY <1>4, <2>6 DEF ProgressOf
    <3>2. happened'[a] >= happened[a]
      BY <1>3, <2>2
    <3> QED
      BY <2>1, <2>2, <2>3, <2>4, <3>1, <3>2
  <2> QED
    BY <2>5, <2>6
<1>7. \A q \in DOMAIN active' :
        /\ DOMAIN active'[q] = DOMAIN Q!Objectives(q)
        /\ \A i \in DOMAIN Q!Objectives(q) : active'[q][i] \in Nat
        /\ Q!quests[q].prerequisites \subseteq completed
        /\ Q!quests[q].repeatable \/ rewards[q] = 0
  BY <1>4, <1>5 DEF QuestInv
<1> QED
  BY <1>1, <1>3, <1>4, <1>6, <1>7 DEF QuestInv

\* check_completions turns a full count of progress into one reward.
LEMMA CheckKeepsQuests ==
  ASSUME QuestInv, Q!CheckCompletions
  PROVE  QuestInv'
<1>1. PICK done : done = {q \in DOMAIN active : Q!IsComplete(q)}
  OBVIOUS
<1>2. /\ rewards' = [q \in DOMAIN Q!quests |-> rewards[q] + IF q \in done THEN 1 ELSE 0]
      /\ active' = [q \in DOMAIN active \ done |-> active[q]]
      /\ completed' = completed \cup done
      /\ happened' = happened
  BY <1>1 DEF Q!CheckCompletions
<1>3. done \subseteq DOMAIN active /\ done \subseteq Asked \cap DOMAIN Q!quests
  BY <1>1 DEF QuestInv
<1>4. /\ rewards' \in [DOMAIN Q!quests -> Nat]
      /\ \A q \in DOMAIN Q!quests \ done : rewards'[q] = rewards[q]
      /\ \A q \in done : rewards'[q] = rewards[q] + 1
  BY <1>2, <1>3 DEF QuestInv
<1>5. /\ DOMAIN active' = DOMAIN active \ done
      /\ \A q \in DOMAIN active \ done : active'[q] = active[q]
  BY <1>2
<1>6. completed' = {q \in DOMAIN Q!quests : rewards'[q] > 0}
  <2>1. \A q \in DOMAIN Q!quests : q \in completed <=> rewards[q] > 0
    BY DEF QuestInv
  <2>2. \A q \in DOMAIN Q!quests : rewards[q] \in Nat
    BY DEF QuestInv
  <2>3. \A q \in done : rewards'[q] > 0
    BY <1>3, <1>4, <2>2
  <2>4. completed' \subseteq DOMAIN Q!quests
    BY <1>2, <1>3 DEF QuestInv
  <2>5. \A q \in DOMAIN Q!quests : q \in completed' <=> rewards'[q] > 0
    BY <1>2, <1>4, <2>1, <2>3
  <2> QED
    BY <2>4, <2>5
<1>7. ASSUME NEW q \in completed'
      PROVE  /\ q \in Asked
             /\ Q!quests[q].prerequisites \subseteq completed'
             /\ Q!quests[q].repeatable \/ rewards'[q] = 1
  <2>1. CASE q \in done
    <3>1. /\ q \in DOMAIN active /\ q \in Asked
          /\ Q!quests[q].prerequisites \subseteq completed
          /\ Q!quests[q].repeatable \/ rewards[q] = 0
      BY <1>3, <2>1 DEF QuestInv
    <3> QED
      BY <1>2, <1>4, <2>1, <3>1
  <2>2. CASE q \notin done
    <3>1. q \in completed /\ q \in DOMAIN Q!quests
      BY <1>2, <2>2 DEF QuestInv
    <3> QED
      BY <1>2, <1>4, <2>2, <3>1 DEF QuestInv
  <2> QED
    BY <2>1, <2>2
<1>8. ASSUME NEW q \in DOMAIN active'
      PROVE  /\ DOMAIN active'[q] = DOMAIN Q!Objectives(q)
             /\ \A i \in DOMAIN Q!Objectives(q) : active'[q][i] \in Nat
             /\ Q!quests[q].prerequisites \subseteq completed'
             /\ Q!quests[q].repeatable \/ rewards'[q] = 0
  <2>1. q \in DOMAIN active /\ q \notin done /\ active'[q] = active[q] /\ q \in DOMAIN Q!quests
    BY <1>5 DEF QuestInv
  <2>2. rewards'[q] = rewards[q]
    BY <1>4, <2>1
  <2> QED
    BY <1>2, <2>1, <2>2 DEF QuestInv
<1>9. ASSUME NEW q \in Asked \cap DOMAIN Q!quests, NEW i \in DOMAIN Q!Objectives(q)
      PROVE  rewards'[q] * Q!Objectives(q)[i].count + ProgressOf(active', q, i)
               <= happened'[Q!Objectives(q)[i].about]
  <2>1. PICK c \in Nat : c = Q!Objectives(q)[i].count
    BY ObjectivesTyped
  <2>2. PICK h \in Nat : h = happened[Q!Objectives(q)[i].about]
    BY AboutCounted DEF QuestInv
  <2>3. PICK r \in Nat : r = rewards[q]
    BY DEF QuestInv
  <2>4. r * c + ProgressOf(active, q, i) <= h
    BY <2>1, <2>2, <2>3 DEF QuestInv
  <2>5. CASE q \in done
    <3>1. ProgressOf(active, q, i) = active[q][i] /\ active[q][i] \in Nat /\ active[q][i] >= c
      BY <1>1, <1>3, <2>1, <2>5 DEF QuestInv, ProgressOf, Q!IsComplete, Q!Done
    <3>2. ProgressOf(active', q, i) = 0
      BY <1>5, <2>5 DEF ProgressOf
    <3>3. (r + 1) * c = r * c + c /\ r * c \in Nat
      BY <2>1, <2>3
    <3>4. (r + 1) * c + 0 <= h
      BY <2>1, <2>2, <2>3, <2>4, <3>1, <3>3
    <3> QED
      BY <1>2, <1>4, <2>1, <2>2, <2>3, <2>5, <3>2, <3>4
  <2>6. CASE q \notin done
    <3>1. ProgressOf(active', q, i) = ProgressOf(active, q, i)
      BY <1>5, <2>6 DEF ProgressOf
    <3>2. rewards'[q] = r
      BY <1>4, <2>3, <2>6
    <3> QED
      BY <1>2, <2>1, <2>2, <2>4, <3>1, <3>2
  <2> QED
    BY <2>5, <2>6
<1>10. DOMAIN active' \subseteq Asked \cap DOMAIN Q!quests
  BY <1>5 DEF QuestInv
<1>11. happened' \in [Q!About -> Nat]
  BY <1>2 DEF QuestInv
<1> QED
  BY <1>4, <1>6, <1>7, <1>8, <1>9, <1>10, <1>11 DEF QuestInv

\* All calls of the registry.
LEMMA QuestInvKept == QuestInv /\ Q!Next => QuestInv'
<1> SUFFICES ASSUME QuestInv, Q!Next PROVE QuestInv'
  OBVIOUS
<1>1. \A kind \in {"Kill", "Gather", "Craft"} : Q!Things(kind) \subseteq Q!About
  BY DEF Q!About, Q!Kinds
<1>2. ASSUME NEW npc_type \in Q!Things("Kill"), Q!OnKill(npc_type) PROVE QuestInv'
  BY <1>1, <1>2, ReportKeepsQuests DEF Q!OnKill
<1>3. ASSUME NEW item_id \in Q!Things("Gather"), NEW quantity \in {4, 10},
             Q!OnGather(item_id, quantity)
      PROVE  QuestInv'
  BY <1>1, <1>3, ReportKeepsQuests DEF Q!OnGather
<1>4. ASSUME NEW item_id \in Q!Things("Craft"), Q!OnCraft(item_id, 1) PROVE QuestInv'
  BY <1>1, <1>4, ReportKeepsQuests DEF Q!OnCraft
<1> QED
  BY <1>2, <1>3, <1>4, AcceptKeepsQuests, CheckKeepsQuests DEF Q!Next

\* For any quests that are registered and any order of requests, reports and
\* checks, every reward is earned.
THEOREM RewardsAreEarned == MCSpec => []RewardsEarned
<1>1. MCInit => QuestInv
  <2> SUFFICES ASSUME MCInit PROVE QuestInv
    OBVIOUS
  <2>1. /\ active = [q \in {} |-> <<>>] /\ completed = {}
        /\ rewards = [q \in DOMAIN Q!quests |-> 0] /\ happened = [a \in Q!About |-> 0]
    BY DEF MCInit, Q!Init
  <2>2. DOMAIN active = {}
    BY <2>1
  <2>3. ASSUME NEW q \in Asked \cap DOMAIN Q!quests, NEW i \in DOMAIN Q!Objectives(q)
        PROVE  rewards[q] * Q!Objectives(q)[i].count + ProgressOf(active, q, i)
                 <= happened[Q!Objectives(q)[i].about]
    <3>1. Q!Objectives(q)[i].count \in Nat /\ Q!Objectives(q)[i].about \in Q!About
      BY ObjectivesTyped, AboutCounted
    <3> QED
      BY <2>1, <2>2, <3>1 DEF ProgressOf
  <2> QED
    BY <2>1, <2>2, <2>3 DEF QuestInv
<1>2. QuestInv /\ [MCNext]_allvars => QuestInv'
  <2> SUFFICES ASSUME QuestInv, [MCNext]_allvars PROVE QuestInv'
    OBVIOUS
  <2>1. CASE Quest
    BY <2>1, QuestInvKept DEF Quest
  <2>2. CASE UNCHANGED questVars
    BY <2>2 DEF questVars, QuestInv
  <2> QED
    BY <2>1, <2>2 DEF MCNext, Trade, Shop, Craft, Learn, Live, Happen, Touch, Show, Play,
                      Sparkle, allvars, economyVars
<1>3. QuestInv => RewardsEarned
  <2> SUFFICES ASSUME QuestInv, NEW q \in DOMAIN Q!quests, rewards[q] > 0
               PROVE  /\ Q!quests[q].repeatable \/ rewards[q] = 1
                      /\ \A p \in Q!quests[q].prerequisites : rewards[p] > 0
                      /\ \A i \in DOMAIN Q!Objectives(q) :
                           rewards[q] * Q!Objectives(q)[i].count
                             <= happened[Q!Objectives(q)[i].about]
    BY DEF RewardsEarned, Q!RewardsEarned
  <2>1. q \in completed /\ q \in Asked
    BY DEF QuestInv
  <2>2. Q!quests[q].prerequisites \subseteq completed
    BY <2>1 DEF QuestInv
  <2>3. ASSUME NEW i \in DOMAIN Q!Objectives(q)
        PROVE  rewards[q] * Q!Objectives(q)[i].count <= happened[Q!Objectives(q)[i].about]
    <3>1. PICK used \in Nat : used = rewards[q] * Q!Objectives(q)[i].count
      BY ObjectivesTyped DEF QuestInv
    <3>2. PICK h \in Nat : h = happened[Q!Objectives(q)[i].about]
      BY <2>1, AboutCounted DEF QuestInv
    <3>3. ProgressOf(active, q, i) \in Nat
      BY DEF ProgressOf, QuestInv
    <3>4. used + ProgressOf(active, q, i) <= h
      BY <2>1, <3>1, <3>2 DEF QuestInv
    <3> QED
      BY <3>1, <3>2, <3>3, <3>4
  <2> QED
    BY <2>1, <2>2, <2>3 DEF QuestInv
<1> QED
  BY <1>1, <1>2, <1>3, PTL DEF MCSpec
-----------------------------------------------------------------------------
(* Touch input                                                             *)

\* The instance of TouchInput counts as this module does.
LEMMA TouchesCount == \A set : T!Cardinality(set) = Cardinality(set)
BY Zenon DEF T!Cardinality, Cardinality

TouchRecord ==
  [id : Finger, start_pos : Point, current_pos : Point, start_time : Nat, consumed : BOOLEAN]

Gesture == {"Interact", "QuickPickup", "SwipeMenu", "ContextMenu"}

\* A long press is consumed only after its time.
Timely(tp) == tp.start_time <= now /\ (tp.consumed => now - tp.start_time >= 10)

\* The list holds the touches of the fingers that are down, one each, and of
\* fingers in out.
Tracks(list, down, out) ==
  /\ list \in Seq(TouchRecord)
  /\ \A i \in 1..Len(list) : Timely(list[i]) /\ list[i].id \in down \cup out
  /\ \A i, j \in 1..Len(list) : list[i].id = list[j].id /\ list[i].id \notin out => i = j
  /\ \A g \in down \ out : \E i \in 1..Len(list) : list[i].id = g

\* A finger's touch was told at most once, and not before it is consumed.
ToldOnce(list, g, said) ==
  /\ said \in Seq(Gesture) /\ Len(said) <= 1
  /\ \A i \in 1..Len(list) : list[i].id = g /\ ~list[i].consumed => said = <<>>

TouchInv ==
  /\ now \in Nat
  /\ pressed \in [Finger -> Point \cup {T!Up}]
  /\ lost \subseteq T!Down
  /\ Tracks(touches, T!Down \ lost, cancelled)
  /\ \A g \in Finger \ cancelled : ToldOnce(touches, g, told[g])
  /\ joystick \in [active : BOOLEAN, origin : Point \cup {<<0, 0>>}, moving : BOOLEAN]
  /\ joystick.active <=> \E g \in T!Down : pressed[g][1] < T!half_width

\* What the engine reports in a frame, and where the fingers are.
Reported(ev, at) ==
  /\ \A f \in Finger : ev[f] \in T!Reports(f)
  /\ at \in [Finger -> Point \cup {T!Up}]
  /\ \A f \in Finger : at[f] = T!Up <=> ev[f] \in {"still", "cancelled"}

\* The fingers whose touch is tracked after the frame, and those ever cancelled.
HeldAfter(ev) ==
  {g \in Finger : ev[g] = "pressed" \/ (g \in T!Down \ lost /\ ev[g] \in {"still", "moved"})}

OutAfter(ev) == cancelled \cup {f \in Finger : ev[f] = "cancelled"}

\* The engine's touches after a frame.
LEMMA ReportedMeans ==
  ASSUME pressed \in [Finger -> Point \cup {T!Up}], lost \subseteq T!Down,
         NEW ev, NEW at, Reported(ev, at)
  PROVE  /\ T!Positions(ev, at) \in [Finger -> Point \cup {T!Up}]
         /\ \A g \in Finger : T!Positions(ev, at)[g] # T!Up <=>
              ev[g] \in {"pressed", "moved", "repressed"} \/ (ev[g] = "still" /\ g \in T!Down)
         /\ \A g \in T!Down : ev[g] \in {"still", "moved", "released", "cancelled", "repressed"}
         /\ \A g \in Finger \ T!Down : ev[g] \in {"still", "pressed", "tapped"}
<1>1. \A g \in Finger : g \in T!Down <=> pressed[g] # T!Up
  BY DEF T!Down, T!Up
<1>2. T!Down \subseteq Finger
  BY DEF T!Down
<1>3. /\ \A g \in T!Down : ev[g] \in {"still", "moved", "released", "cancelled", "repressed"}
      /\ \A g \in Finger \ T!Down : ev[g] \in {"still", "pressed", "tapped"}
  BY <1>2 DEF Reported, T!Reports
<1>4. PICK up : up = T!Up /\ up \notin Point
  BY TouchAssumption
<1>5. PICK posn : posn = T!Positions(ev, at)
  OBVIOUS
<1>6. posn = [f \in Finger |-> CASE ev[f] \in {"pressed", "moved", "repressed"} -> at[f]
                               [] ev[f] = "still" -> pressed[f]
                               [] OTHER -> up]
  BY <1>4, <1>5, Zenon DEF T!Positions
<1>7. ASSUME NEW g \in Finger
      PROVE  /\ posn[g] \in Point \cup {up}
             /\ posn[g] # up <=> ev[g] \in {"pressed", "moved", "repressed"} \/ (ev[g] = "still" /\ g \in T!Down)
  <2>1. at[g] \in Point \cup {up} /\ (at[g] = up <=> ev[g] \in {"still", "cancelled"})
    BY <1>4 DEF Reported
  <2>2. CASE ev[g] \in {"pressed", "moved", "repressed"}
    <3>1. posn[g] = at[g]
      BY <1>6, <2>2
    <3>2. at[g] # up
      BY <2>1, <2>2
    <3>3. posn[g] \in Point \cup {up} /\ posn[g] # up
      BY <2>1, <3>1, <3>2
    <3> QED
      BY <2>2, <3>3, Zenon
  <2>3. CASE ev[g] = "still"
    <3>1. posn[g] = pressed[g]
      BY <1>6, <2>3
    <3> QED
      BY <1>1, <1>4, <2>3, <3>1
  <2>4. CASE ev[g] \notin {"pressed", "moved", "repressed", "still"}
    <3>1. posn[g] = up
      BY <1>6, <2>4
    <3> QED
      BY <2>4, <3>1
  <2> QED
    BY <2>2, <2>3, <2>4
<1> QED
  BY <1>3, <1>4, <1>5, <1>6, <1>7

\* A listing of a set of fingers has each of them once.
LEMMA ListingFacts ==
  ASSUME NEW some \in SUBSET Finger, NEW s \in T!Listings(some)
  PROVE  /\ s \in Seq(some) /\ DOMAIN s = 1..Len(s) /\ Len(s) \in Nat
         /\ \A i \in 1..Len(s) : s[i] \in some
         /\ \A i, j \in 1..Len(s) : s[i] = s[j] => i = j
         /\ \A f \in some : \E i \in 1..Len(s) : s[i] = f
<1>1. IsFiniteSet(some)
  BY TouchAssumption, FS_Subset
<1>2. PICK n \in Nat : n = T!Cardinality(some)
  BY <1>1, TouchesCount, FS_CardinalityType
<1>3. /\ s \in [1..n -> some]
      /\ \A i, j \in DOMAIN s : s[i] = s[j] => i = j
      /\ \A f \in some : \E i \in DOMAIN s : s[i] = f
  BY <1>2 DEF T!Listings
<1>4. s \in Seq(some) /\ Len(s) = n /\ DOMAIN s = 1..n
  BY <1>3, SeqIntro
<1> QED
  BY <1>3, <1>4

\* Every entry of out is one of list's, in their order; out has all of those whose
\* finger is not in ends.
Thins(out, list, nth, ends) ==
  /\ out \in Seq(TouchRecord)
  /\ nth \in [1..Len(out) -> 1..Len(list)]
  /\ \A k \in 1..Len(out) : /\ out[k].id = list[nth[k]].id /\ out[k].id \notin ends
                            /\ out[k].start_time = list[nth[k]].start_time
                            /\ out[k].consumed = list[nth[k]].consumed
  /\ \A k, l \in 1..Len(out) : nth[k] = nth[l] => k = l
  /\ \A i \in 1..Len(list) : list[i].id \notin ends => \E k \in 1..Len(out) : nth[k] = i

\* New touches at the end.
LEMMA PushedIs ==
  ASSUME now \in Nat, NEW list \in Seq(TouchRecord), NEW ev, NEW at, Reported(ev, at),
         NEW fresh \in T!Listings(T!Began(ev))
  PROVE  \E out :
           /\ out = T!Pushed(list, at, fresh)
           /\ out \in Seq(TouchRecord) /\ Len(out) = Len(list) + Len(fresh)
           /\ \A i \in 1..Len(list) : out[i] = list[i]
           /\ \A i \in 1..Len(fresh) : /\ out[Len(list) + i].id = fresh[i]
                                       /\ out[Len(list) + i].start_time = now
                                       /\ ~out[Len(list) + i].consumed
<1>1. T!Began(ev) \in SUBSET Finger
  BY DEF T!Began
<1>2. /\ fresh \in Seq(T!Began(ev)) /\ DOMAIN fresh = 1..Len(fresh) /\ Len(fresh) \in Nat
      /\ \A i \in 1..Len(fresh) : fresh[i] \in T!Began(ev)
  BY <1>1, ListingFacts
<1>3. \A i \in 1..Len(fresh) : fresh[i] \in Finger /\ at[fresh[i]] \in Point
  BY <1>2 DEF T!Began, Reported
<1>4. PICK new : new = [k \in 1..Len(fresh) |-> T!TouchPoint(fresh[k], at[fresh[k]], now)]
  OBVIOUS
<1>5. \A i \in 1..Len(fresh) :
        new[i] = [id |-> fresh[i], start_pos |-> at[fresh[i]], current_pos |-> at[fresh[i]],
                  start_time |-> now, consumed |-> FALSE]
  BY <1>4 DEF T!TouchPoint
<1>6. \A i \in 1..Len(fresh) : new[i] \in TouchRecord
  <2>1. \A f \in Finger : \A q \in Point :
          [id |-> f, start_pos |-> q, current_pos |-> q, start_time |-> now, consumed |-> FALSE]
            \in TouchRecord
    BY DEF TouchRecord
  <2> QED
    BY <1>3, <1>5, <2>1
<1>7. new \in [1..Len(fresh) -> TouchRecord]
  BY <1>4, <1>6
<1>8. new \in Seq(TouchRecord) /\ Len(new) = Len(fresh)
  BY <1>2, <1>7, SeqIntro
<1>9. T!Pushed(list, at, fresh) = list \o new
  BY <1>2, <1>4 DEF T!Pushed
<1>10. PICK out : out = list \o new
  OBVIOUS
<1>11. /\ out \in Seq(TouchRecord) /\ Len(out) = Len(list) + Len(fresh)
       /\ \A i \in 1..Len(list) + Len(fresh) : out[i] = IF i <= Len(list) THEN list[i] ELSE new[i - Len(list)]
  <2>1. /\ list \o new \in Seq(TouchRecord) /\ Len(list \o new) = Len(list) + Len(new)
        /\ \A i \in 1..Len(list) + Len(new) :
             (list \o new)[i] = IF i <= Len(list) THEN list[i] ELSE new[i - Len(list)]
    BY <1>8, ConcatProperties
  <2> QED
    BY <1>8, <1>10, <2>1
<1>12. Len(list) \in Nat
  OBVIOUS
<1>13. \A i \in 1..Len(list) : out[i] = list[i]
  BY <1>2, <1>11, <1>12
<1>14. ASSUME NEW i \in 1..Len(fresh) PROVE out[Len(list) + i] = new[i]
  <2>1. /\ Len(list) + i \in 1..Len(list) + Len(fresh) /\ ~(Len(list) + i <= Len(list))
        /\ (Len(list) + i) - Len(list) = i
    BY <1>2, <1>12
  <2> QED
    BY <1>11, <2>1
<1>15. \A i \in 1..Len(fresh) : /\ out[Len(list) + i].id = fresh[i]
                               /\ out[Len(list) + i].start_time = now
                               /\ ~out[Len(list) + i].consumed
  <2> SUFFICES ASSUME NEW i \in 1..Len(fresh)
               PROVE  /\ out[Len(list) + i].id = fresh[i]
                      /\ out[Len(list) + i].start_time = now
                      /\ ~out[Len(list) + i].consumed
    OBVIOUS
  <2>1. PICK tp : tp = out[Len(list) + i]
    OBVIOUS
  <2>2. tp = [id |-> fresh[i], start_pos |-> at[fresh[i]], current_pos |-> at[fresh[i]],
              start_time |-> now, consumed |-> FALSE]
    BY <1>5, <1>14, <2>1
  <2>3. tp.id = fresh[i] /\ tp.start_time = now /\ tp.consumed = FALSE
    BY <2>2
  <2> QED
    BY <2>1, <2>3
<1>16. out = T!Pushed(list, at, fresh)
  BY <1>9, <1>10
<1>17. out \in Seq(TouchRecord) /\ Len(out) = Len(list) + Len(fresh)
  BY <1>11
<1> WITNESS out
<1> QED
  BY <1>13, <1>15, <1>16, <1>17, Zenon

\* The same touches with positions changed.
LEMMA MovedIs ==
  ASSUME NEW list \in Seq(TouchRecord), NEW posn \in [Finger -> Point \cup {T!Up}]
  PROVE  \E out :
           /\ out = T!Moved(list, posn)
           /\ out \in Seq(TouchRecord) /\ Len(out) = Len(list)
           /\ \A i \in 1..Len(list) : /\ out[i].id = list[i].id
                                      /\ out[i].start_time = list[i].start_time
                                      /\ out[i].consumed = list[i].consumed
<1>1. PICK out : out = T!Moved(list, posn)
  OBVIOUS
<1>2. Len(list) \in Nat /\ DOMAIN list = 1..Len(list) /\ \A i \in 1..Len(list) : list[i] \in TouchRecord
  OBVIOUS
<1>3. out = [i \in 1..Len(list) |->
               IF posn[list[i].id] # T!Up /\ \A j \in 1..i - 1 : list[j].id # list[i].id
               THEN [list[i] EXCEPT !.current_pos = posn[list[i].id]] ELSE list[i]]
  BY <1>1, <1>2 DEF T!Moved
<1>4. \A tp \in TouchRecord : \A q \in Point :
        /\ [tp EXCEPT !.current_pos = q] \in TouchRecord
        /\ [tp EXCEPT !.current_pos = q].id = tp.id
        /\ [tp EXCEPT !.current_pos = q].start_time = tp.start_time
        /\ [tp EXCEPT !.current_pos = q].consumed = tp.consumed
  BY DEF TouchRecord
<1>5. \A i \in 1..Len(list) :
        \/ out[i] = list[i]
        \/ posn[list[i].id] # T!Up /\ out[i] = [list[i] EXCEPT !.current_pos = posn[list[i].id]]
  BY <1>3
<1>6. ASSUME NEW i \in 1..Len(list)
      PROVE  /\ out[i] \in TouchRecord
             /\ out[i].id = list[i].id
             /\ out[i].start_time = list[i].start_time
             /\ out[i].consumed = list[i].consumed
  <2>1. list[i] \in TouchRecord
    BY <1>2
  <2>2. posn[list[i].id] \in Point \cup {T!Up}
    BY <2>1 DEF TouchRecord
  <2>3. CASE out[i] = list[i]
    BY <2>1, <2>3
  <2>4. CASE posn[list[i].id] # T!Up /\ out[i] = [list[i] EXCEPT !.current_pos = posn[list[i].id]]
    <3>1. PICK q \in Point : q = posn[list[i].id]
      BY <2>2, <2>4
    <3>2. out[i] = [list[i] EXCEPT !.current_pos = q]
      BY <2>4, <3>1
    <3> QED
      BY <1>4, <2>1, <3>2
  <2> QED
    BY <1>5, <2>3, <2>4
<1>7. out \in [1..Len(list) -> TouchRecord]
  BY <1>3, <1>6
<1>8. out \in Seq(TouchRecord) /\ Len(out) = Len(list)
  BY <1>2, <1>7, SeqIntro
<1> WITNESS out
<1> QED
  BY <1>1, <1>6, <1>8

\* process_touch_input: what is left of the touches, the new ones included, when
\* the lifted fingers' are gone.
LEMMA TrackedIs ==
  ASSUME now \in Nat, pressed \in [Finger -> Point \cup {T!Up}], lost \subseteq T!Down,
         NEW list \in Seq(TouchRecord), NEW ev, NEW at, Reported(ev, at),
         NEW fresh \in T!Listings(T!Began(ev))
  PROVE  \E nth : Thins(T!Tracked(list, ev, at, fresh), T!Pushed(list, at, fresh), nth, T!Ended(ev))
<1>1. PICK posn : posn = T!Positions(ev, at) /\ posn \in [Finger -> Point \cup {T!Up}]
  BY ReportedMeans
<1>2. PICK l1 : l1 = T!Pushed(list, at, fresh) /\ l1 \in Seq(TouchRecord)
  BY PushedIs
<1>3. PICK l2 :
        /\ l2 = T!Moved(l1, posn)
        /\ l2 \in Seq(TouchRecord) /\ Len(l2) = Len(l1)
        /\ \A i \in 1..Len(l1) : /\ l2[i].id = l1[i].id
                                 /\ l2[i].start_time = l1[i].start_time
                                 /\ l2[i].consumed = l1[i].consumed
  BY <1>1, <1>2, MovedIs
<1>4. PICK kept : kept = {i \in 1..Len(l2) : l2[i].id \notin T!Ended(ev)}
  OBVIOUS
<1>5. T!Tracked(list, ev, at, fresh) = Retained(l2, kept)
  <2>1. DOMAIN l2 = 1..Len(l2)
    BY <1>3
  <2>2. T!Tracked(list, ev, at, fresh) = T!Kept(l2, {i \in DOMAIN l2 : l2[i].id \notin T!Ended(ev)})
    BY <1>1, <1>2, <1>3 DEF T!Tracked
  <2>3. T!Kept(l2, kept) = Retained(l2, kept)
    BY Zenon DEF T!Kept, T!Cardinality, Retained, Cardinality
  <2> QED
    BY <1>4, <2>1, <2>2, <2>3
<1>6. PICK o, nth :
        /\ o = Retained(l2, kept) /\ o \in Seq(TouchRecord)
        /\ nth \in [1..Len(o) -> kept]
        /\ \A k \in 1..Len(o) : o[k] = l2[nth[k]]
        /\ \A k, l \in 1..Len(o) : k < l => nth[k] < nth[l]
        /\ \A i \in kept : \E k \in 1..Len(o) : nth[k] = i
  <2>1. kept \in SUBSET (1..Len(l2))
    BY <1>4
  <2>2. KeepsInOrder(TouchRecord, l2, kept)
    BY <1>3, <2>1, KeptFacts, Zenon
  <2> QED
    BY <2>2, Zenon DEF KeepsInOrder, KeptAs
<1>7. \A k \in 1..Len(o) : nth[k] \in 1..Len(l1) /\ o[k] = l2[nth[k]] /\ o[k].id \notin T!Ended(ev)
  BY <1>3, <1>4, <1>6
<1>8. nth \in [1..Len(o) -> 1..Len(l1)]
  BY <1>6, <1>7
<1>9. \A k \in 1..Len(o) : /\ o[k].id = l1[nth[k]].id /\ o[k].id \notin T!Ended(ev)
                           /\ o[k].start_time = l1[nth[k]].start_time
                           /\ o[k].consumed = l1[nth[k]].consumed
  BY <1>3, <1>7
<1>10. \A k, l \in 1..Len(o) : nth[k] = nth[l] => k = l
  <2> SUFFICES ASSUME NEW k \in 1..Len(o), NEW l \in 1..Len(o), nth[k] = nth[l] PROVE k = l
    OBVIOUS
  <2>1. nth[k] \in Nat /\ k \in Nat /\ l \in Nat
    BY <1>7
  <2>2. ~(k < l) /\ ~(l < k)
    BY <1>6, <2>1
  <2> QED
    BY <2>1, <2>2
<1>11. \A i \in 1..Len(l1) : l1[i].id \notin T!Ended(ev) => \E k \in 1..Len(o) : nth[k] = i
  BY <1>3, <1>4, <1>6
<1>12. Thins(o, l1, nth, T!Ended(ev))
  BY <1>6, <1>8, <1>9, <1>10, <1>11, Zenon DEF Thins
<1> QED
  BY <1>2, <1>5, <1>6, <1>12

\* The gestures of a frame only ever consume touches.
LEMMA ConsumedIs ==
  ASSUME NEW list \in Seq(TouchRecord)
  PROVE  \E out :
           /\ out = T!Consumed(list)
           /\ out \in Seq(TouchRecord) /\ Len(out) = Len(list)
           /\ \A i \in 1..Len(list) :
                /\ out[i].id = list[i].id
                /\ out[i].start_time = list[i].start_time
                /\ out[i].consumed <=> list[i].consumed \/ T!IsLongPress(list[i])
<1>1. PICK out : out = T!Consumed(list)
  OBVIOUS
<1>2. Len(list) \in Nat /\ DOMAIN list = 1..Len(list) /\ \A i \in 1..Len(list) : list[i] \in TouchRecord
  OBVIOUS
<1>3. out = [i \in 1..Len(list) |->
               [list[i] EXCEPT !.consumed = @ \/ T!IsLongPress(list[i])]]
  BY <1>1, <1>2 DEF T!Consumed
<1>4. \A tp \in TouchRecord : \A b \in BOOLEAN :
        /\ [tp EXCEPT !.consumed = b] \in TouchRecord
        /\ [tp EXCEPT !.consumed = b].id = tp.id
        /\ [tp EXCEPT !.consumed = b].start_time = tp.start_time
        /\ [tp EXCEPT !.consumed = b].consumed = b
  BY DEF TouchRecord
<1>5. ASSUME NEW i \in 1..Len(list)
      PROVE  /\ out[i] \in TouchRecord
             /\ out[i].id = list[i].id
             /\ out[i].start_time = list[i].start_time
             /\ out[i].consumed <=> list[i].consumed \/ T!IsLongPress(list[i])
  <2>1. PICK b \in BOOLEAN : b = (list[i].consumed \/ T!IsLongPress(list[i]))
    OBVIOUS
  <2>2. out[i] = [list[i] EXCEPT !.consumed = b]
    BY <1>3, <2>1
  <2>3. list[i] \in TouchRecord
    BY <1>2
  <2>4. /\ out[i] \in TouchRecord /\ out[i].id = list[i].id
        /\ out[i].start_time = list[i].start_time /\ out[i].consumed = b
    BY <1>4, <2>2, <2>3
  <2> QED
    BY <2>1, <2>4
<1>6. out \in [1..Len(list) -> TouchRecord]
  BY <1>3, <1>5
<1>7. out \in Seq(TouchRecord) /\ Len(out) = Len(list)
  BY <1>2, <1>6, SeqIntro
<1> WITNESS out
<1> QED
  BY <1>1, <1>5, <1>7

\* Consuming keeps what is tracked, and tells each finger's touch at most once.
LEMMA ConsumedTracks ==
  ASSUME now \in Nat, NEW list, NEW down, NEW out, Tracks(list, down, out)
  PROVE  /\ Tracks(T!Consumed(list), down, out)
         /\ \A g \in Finger \ out : \A said : ToldOnce(list, g, said) =>
              ToldOnce(T!Consumed(list), g,
                       said \o (IF \E i \in DOMAIN list : list[i].id = g /\ T!IsLongPress(list[i])
                                THEN <<"ContextMenu">> ELSE <<>>))
<1>1. list \in Seq(TouchRecord) /\ DOMAIN list = 1..Len(list) /\ Len(list) \in Nat
  BY DEF Tracks
<1>2. PICK l2 :
        /\ l2 = T!Consumed(list)
        /\ l2 \in Seq(TouchRecord) /\ Len(l2) = Len(list)
        /\ \A i \in 1..Len(list) :
             /\ l2[i].id = list[i].id
             /\ l2[i].start_time = list[i].start_time
             /\ l2[i].consumed <=> list[i].consumed \/ T!IsLongPress(list[i])
  BY <1>1, ConsumedIs
<1>3. \A i \in 1..Len(list) : Timely(l2[i])
  <2> SUFFICES ASSUME NEW i \in 1..Len(list) PROVE Timely(l2[i])
    OBVIOUS
  <2>1. list[i].start_time <= now /\ (list[i].consumed => now - list[i].start_time >= 10)
    BY DEF Tracks, Timely
  <2>2. T!IsLongPress(list[i]) => now - list[i].start_time >= 10
    BY DEF T!IsLongPress, T!long_press_threshold
  <2> QED
    BY <1>2, <2>1, <2>2 DEF Timely
<1>4. Tracks(l2, down, out)
  BY <1>2, <1>3 DEF Tracks
<1>5. ASSUME NEW g \in Finger \ out, NEW said, ToldOnce(list, g, said)
      PROVE  ToldOnce(l2, g,
               said \o (IF \E i \in DOMAIN list : list[i].id = g /\ T!IsLongPress(list[i])
                        THEN <<"ContextMenu">> ELSE <<>>))
  <2>1. CASE \E i \in DOMAIN list : list[i].id = g /\ T!IsLongPress(list[i])
    <3>1. PICK i \in 1..Len(list) : list[i].id = g /\ T!IsLongPress(list[i])
      BY <1>1, <2>1
    <3>2. ~list[i].consumed
      BY <3>1 DEF T!IsLongPress
    <3>3. said = <<>>
      BY <1>5, <3>1, <3>2 DEF ToldOnce
    <3>6. <<"ContextMenu">> \in Seq(Gesture) /\ Len(<<"ContextMenu">>) = 1
      BY DEF Gesture
    <3>4. said \o <<"ContextMenu">> = <<"ContextMenu">>
      BY <3>3, <3>6, ConcatEmptySeq
    <3>5. l2[i].consumed /\ \A j \in 1..Len(l2) : l2[j].id = g => j = i
      BY <1>2, <3>1 DEF Tracks
    <3>7. ToldOnce(l2, g, <<"ContextMenu">>)
      BY <3>5, <3>6 DEF ToldOnce
    <3> QED
      BY <2>1, <3>4, <3>7
  <2>2. CASE ~\E i \in DOMAIN list : list[i].id = g /\ T!IsLongPress(list[i])
    <3>1. said \o <<>> = said
      BY <1>5, ConcatEmptySeq DEF ToldOnce
    <3>2. \A i \in 1..Len(l2) : l2[i].id = g /\ ~l2[i].consumed =>
            list[i].id = g /\ ~list[i].consumed
      BY <1>2
    <3>3. ToldOnce(l2, g, said)
      BY <1>2, <1>5, <3>2 DEF ToldOnce
    <3> QED
      BY <2>2, <3>1, <3>3
  <2> QED
    BY <2>1, <2>2
<1> QED
  BY <1>2, <1>4, <1>5

\* The touches of the fingers pressed in a frame begin in it.
BeginNow(list, ev) ==
  \A k \in 1..Len(list) :
    ev[list[k].id] = "pressed" /\ list[k].id \notin cancelled => list[k].start_time = now

\* What the list becomes in process_touch_input: the touches of the fingers that
\* stay down, and those of the fingers pressed and not lifted in this frame.
LEMMA TrackedTracks ==
  ASSUME now \in Nat, pressed \in [Finger -> Point \cup {T!Up}], lost \subseteq T!Down,
         NEW list, Tracks(list, T!Down \ lost, cancelled),
         NEW ev, NEW at, Reported(ev, at), NEW fresh \in T!Listings(T!Began(ev))
  PROVE  /\ Tracks(T!Tracked(list, ev, at, fresh), HeldAfter(ev), OutAfter(ev))
         /\ \A g \in Finger : \A said : ev[g] # "pressed" /\ ToldOnce(list, g, said)
              => ToldOnce(T!Tracked(list, ev, at, fresh), g, said)
         /\ BeginNow(T!Tracked(list, ev, at, fresh), ev)
<1>1. list \in Seq(TouchRecord) /\ Len(list) \in Nat
      /\ \A i \in 1..Len(list) : list[i] \in TouchRecord
  BY DEF Tracks
<1>2. PICK l1 :
        /\ l1 = T!Pushed(list, at, fresh)
        /\ l1 \in Seq(TouchRecord) /\ Len(l1) = Len(list) + Len(fresh)
        /\ \A i \in 1..Len(list) : l1[i] = list[i]
        /\ \A i \in 1..Len(fresh) : /\ l1[Len(list) + i].id = fresh[i]
                                    /\ l1[Len(list) + i].start_time = now
                                    /\ ~l1[Len(list) + i].consumed
  BY <1>1, PushedIs
<1>3. PICK o, nth : o = T!Tracked(list, ev, at, fresh) /\ Thins(o, l1, nth, T!Ended(ev))
  BY <1>1, <1>2, TrackedIs
<1>4. /\ Len(fresh) \in Nat
      /\ \A i \in 1..Len(fresh) : fresh[i] \in T!Began(ev)
      /\ \A i, j \in 1..Len(fresh) : fresh[i] = fresh[j] => i = j
      /\ \A f \in T!Began(ev) : \E i \in 1..Len(fresh) : fresh[i] = f
  <2>1. T!Began(ev) \in SUBSET Finger
    BY DEF T!Began
  <2> QED
    BY <2>1, ListingFacts
<1>5. /\ \A g \in T!Down : ev[g] \in {"still", "moved", "released", "cancelled", "repressed"}
      /\ \A g \in Finger \ T!Down : ev[g] \in {"still", "pressed", "tapped"}
      /\ T!Down \subseteq Finger
  BY ReportedMeans DEF T!Down
<1>6. \A g \in Finger : /\ g \in T!Began(ev) <=> ev[g] \in {"pressed", "tapped", "repressed"}
                        /\ g \in T!Ended(ev) <=> ev[g] \in {"released", "tapped", "repressed"}
  BY DEF T!Began, T!Ended
<1>7. \A g \in T!Began(ev) \ T!Ended(ev) : ev[g] = "pressed" /\ g \in Finger /\ g \notin T!Down
  <2>1. T!Began(ev) \subseteq Finger
    BY DEF T!Began
  <2> QED
    BY <1>5, <1>6, <2>1
<1> DEFINE Old(k, i) == i \in 1..Len(list) /\ nth[k] = i /\ o[k].id = list[i].id
                         /\ o[k].start_time = list[i].start_time /\ o[k].consumed = list[i].consumed
           New(k, i) == i \in 1..Len(fresh) /\ nth[k] = Len(list) + i /\ o[k].id = fresh[i]
                         /\ o[k].start_time = now /\ ~o[k].consumed /\ ev[o[k].id] = "pressed"
                         /\ o[k].id \in Finger \ T!Down
<1>8. ASSUME NEW k \in 1..Len(o) PROVE (\E i : Old(k, i)) \/ (\E i : New(k, i))
  <2>1. /\ nth[k] \in 1..Len(l1) /\ o[k].id = l1[nth[k]].id /\ o[k].id \notin T!Ended(ev)
        /\ o[k].start_time = l1[nth[k]].start_time /\ o[k].consumed = l1[nth[k]].consumed
    BY <1>3 DEF Thins
  <2>2. CASE nth[k] \in 1..Len(list)
    BY <1>2, <2>1, <2>2
  <2>3. CASE nth[k] \notin 1..Len(list)
    <3>1. PICK i \in 1..Len(fresh) : nth[k] = Len(list) + i
      <4>1. nth[k] - Len(list) \in 1..Len(fresh) /\ nth[k] = Len(list) + (nth[k] - Len(list))
        BY <1>1, <1>2, <1>4, <2>1, <2>3
      <4> QED
        BY <4>1
    <3>2. o[k].id = fresh[i] /\ o[k].start_time = now /\ ~o[k].consumed
      BY <1>2, <2>1, <3>1
    <3>3. ev[o[k].id] = "pressed" /\ o[k].id \in Finger \ T!Down
      BY <1>4, <1>7, <2>1, <3>2
    <3>4. New(k, i)
      BY <3>1, <3>2, <3>3
    <3> QED
      BY <3>4
  <2> QED
    BY <2>2, <2>3
<1>9. \A k, l \in 1..Len(o) : nth[k] = nth[l] => k = l
  BY <1>3 DEF Thins
<1>10. \A k \in 1..Len(o) : \A i : Old(k, i) \/ New(k, i) => o[k].id \notin T!Ended(ev)
  BY <1>3 DEF Thins
<1>11. \A i \in 1..Len(list) : Timely(list[i]) /\ list[i].id \in (T!Down \ lost) \cup cancelled
  BY DEF Tracks
<1>12. ASSUME NEW k \in 1..Len(o) PROVE Timely(o[k]) /\ o[k].id \in HeldAfter(ev) \cup OutAfter(ev)
  <2>1. ASSUME NEW i, Old(k, i) PROVE Timely(o[k]) /\ o[k].id \in HeldAfter(ev) \cup OutAfter(ev)
    <3>1. Timely(o[k])
      BY <1>11, <2>1 DEF Timely
    <3>2. o[k].id \in (T!Down \ lost) \cup cancelled /\ o[k].id \notin T!Ended(ev)
      BY <1>10, <1>11, <2>1
    <3>3. CASE o[k].id \in cancelled
      BY <3>1, <3>3 DEF OutAfter
    <3>4. CASE o[k].id \in T!Down \ lost
      <4>1. o[k].id \in Finger /\ ev[o[k].id] \in {"still", "moved", "cancelled"}
        BY <1>5, <1>6, <3>2, <3>4
      <4> QED
        BY <3>1, <3>4, <4>1 DEF HeldAfter, OutAfter
    <3> QED
      BY <3>2, <3>3, <3>4
  <2>2. ASSUME NEW i, New(k, i) PROVE Timely(o[k]) /\ o[k].id \in HeldAfter(ev) \cup OutAfter(ev)
    <3>1. o[k].start_time = now /\ ~o[k].consumed /\ ev[o[k].id] = "pressed" /\ o[k].id \in Finger
      BY <2>2
    <3>2. Timely(o[k])
      BY <3>1 DEF Timely
    <3> QED
      BY <3>1, <3>2 DEF HeldAfter
  <2> QED
    BY <1>8, <2>1, <2>2
<1>13. ASSUME NEW k \in 1..Len(o), NEW l \in 1..Len(o), o[k].id = o[l].id, o[k].id \notin OutAfter(ev)
       PROVE  k = l
  <2>1. o[k].id \notin cancelled
    BY <1>13 DEF OutAfter
  <2>a. \A i, j \in 1..Len(list) : list[i].id = list[j].id /\ list[i].id \notin cancelled => i = j
    BY DEF Tracks
  <2>2. ASSUME NEW i, NEW j, Old(k, i) /\ Old(l, j) PROVE nth[k] = nth[l]
    BY <1>13, <2>1, <2>2, <2>a
  <2>3. ASSUME NEW i, NEW j, New(k, i) /\ New(l, j) PROVE nth[k] = nth[l]
    <3>1. /\ i \in 1..Len(fresh) /\ j \in 1..Len(fresh) /\ fresh[i] = fresh[j]
          /\ nth[k] = Len(list) + i /\ nth[l] = Len(list) + j
      BY <1>13, <2>3
    <3> QED
      BY <1>4, <3>1
  <2>4. ASSUME NEW i, NEW j, Old(k, i) /\ New(l, j) PROVE FALSE
    BY <1>11, <1>13, <2>1, <2>4
  <2>5. ASSUME NEW i, NEW j, New(k, i) /\ Old(l, j) PROVE FALSE
    BY <1>11, <1>13, <2>1, <2>5
  <2> HIDE DEF Old, New
  <2>6. nth[k] = nth[l]
    BY <1>8, <2>2, <2>3, <2>4, <2>5
  <2> QED
    BY <1>9, <2>6
<1>14. ASSUME NEW g \in HeldAfter(ev) \ OutAfter(ev) PROVE \E k \in 1..Len(o) : o[k].id = g
  <2>1. g \in Finger /\ g \notin T!Ended(ev)
    BY <1>6 DEF HeldAfter
  <2>2. PICK i \in 1..Len(l1) : l1[i].id = g
    <3>1. CASE ev[g] = "pressed"
      <4>1. PICK i \in 1..Len(fresh) : fresh[i] = g
        BY <1>4, <1>6, <2>1, <3>1
      <4>2. Len(list) + i \in 1..Len(l1) /\ l1[Len(list) + i].id = g
        BY <1>1, <1>2, <1>4, <4>1
      <4> QED
        BY <4>2
    <3>2. CASE ev[g] # "pressed"
      <4>1. g \in (T!Down \ lost) \ cancelled
        BY <3>2 DEF HeldAfter, OutAfter
      <4>2. PICK i \in 1..Len(list) : list[i].id = g
        BY <4>1 DEF Tracks
      <4>3. i \in 1..Len(l1) /\ l1[i].id = g
        BY <1>1, <1>2, <1>4, <4>2
      <4> QED
        BY <4>3
    <3> QED
      BY <3>1, <3>2
  <2>3. PICK k \in 1..Len(o) : nth[k] = i
    BY <1>3, <2>1, <2>2 DEF Thins
  <2>4. o[k].id = g
    BY <1>3, <2>2, <2>3 DEF Thins
  <2> QED
    BY <2>4
<1>15. Tracks(o, HeldAfter(ev), OutAfter(ev))
  <2>1. o \in Seq(TouchRecord)
    BY <1>3 DEF Thins
  <2> QED
    BY <1>12, <1>13, <1>14, <2>1 DEF Tracks
<1>16. ASSUME NEW g \in Finger, NEW said, ev[g] # "pressed", ToldOnce(list, g, said)
       PROVE  ToldOnce(o, g, said)
  <2>1. ASSUME NEW k \in 1..Len(o), o[k].id = g, ~o[k].consumed PROVE said = <<>>
    <3>1. ASSUME NEW i, Old(k, i) PROVE said = <<>>
      BY <1>16, <2>1, <3>1 DEF ToldOnce
    <3>2. ASSUME NEW i, New(k, i) PROVE FALSE
      BY <1>16, <2>1, <3>2
    <3> QED
      BY <1>8, <3>1, <3>2
  <2> QED
    BY <1>16, <2>1 DEF ToldOnce
<1>17. ASSUME NEW k \in 1..Len(o), ev[o[k].id] = "pressed", o[k].id \notin cancelled
       PROVE  o[k].start_time = now
  <2>1. ASSUME NEW i, Old(k, i) PROVE FALSE
    BY <1>5, <1>11, <1>17, <2>1
  <2>2. ASSUME NEW i, New(k, i) PROVE o[k].start_time = now
    BY <2>2
  <2> QED
    BY <1>8, <2>1, <2>2
<1> HIDE DEF Old, New
<1>18. BeginNow(o, ev)
  BY <1>17 DEF BeginNow
<1> QED
  BY <1>3, <1>15, <1>16, <1>18

\* A tap, a swipe and a long press exclude each other, by distance or by time,
\* and none follows a long press that was told.
LEMMA LiftedOnce ==
  ASSUME now \in Nat, NEW list, NEW down, NEW out, Tracks(list, down, out),
         NEW f \in Finger \ out, NEW p, NEW tap0, NEW said, ToldOnce(list, f, said)
  PROVE  LET long == IF \E i \in DOMAIN list : list[i].id = f /\ T!IsLongPress(list[i])
                     THEN <<"ContextMenu">> ELSE <<>>
             all == said \o T!Lifted(list, f, p, tap0) \o long
         IN  all \in Seq(Gesture) /\ Len(all) <= 1
<1> DEFINE pressing == \E i \in DOMAIN list : list[i].id = f /\ T!IsLongPress(list[i])
<1>1. list \in Seq(TouchRecord) /\ DOMAIN list = 1..Len(list) /\ Len(list) \in Nat
  BY DEF Tracks
<1>2. said \in Seq(Gesture) /\ Len(said) <= 1
  BY DEF ToldOnce
<1>3. /\ pressing => said = <<>> /\ ~T!IsTap(list, f) /\ ~T!IsSwipe(list, f)
      /\ T!IsTap(list, f) => said = <<>> /\ ~T!IsSwipe(list, f)
      /\ T!IsSwipe(list, f) => said = <<>>
  <2>1. CASE \E i \in 1..Len(list) : list[i].id = f
    <3>1. PICK i \in 1..Len(list) : list[i].id = f
      BY <2>1
    <3>2. \A j \in 1..Len(list) : list[j].id = f => j = i
      BY <3>1 DEF Tracks
    <3>3. list[i] \in TouchRecord
      BY <1>1, <3>1
    <3>4. PICK s \in Nat : s = list[i].start_time
      BY <3>3 DEF TouchRecord
    <3>5. list[i].consumed => now - s >= 10
      BY <3>4 DEF Tracks, Timely
    <3>6. ~list[i].consumed => said = <<>>
      BY <3>1 DEF ToldOnce
    <3>7. pressing => ~list[i].consumed /\ now - s >= 10
      BY <1>1, <3>2, <3>4 DEF T!IsLongPress, T!long_press_threshold
    <3>8. T!IsTap(list, f) =>
            now - s < 5 /\ T!Within(list[i].current_pos, list[i].start_pos, T!swipe_min_distance)
      BY <1>1, <3>2, <3>4 DEF T!IsTap, T!tap_threshold
    <3>9. T!IsSwipe(list, f) =>
            now - s < 10 /\ ~T!Within(list[i].current_pos, list[i].start_pos, T!swipe_min_distance)
      BY <1>1, <3>2, <3>4 DEF T!IsSwipe, T!swipe_time
    <3>10. ~(now - s >= 10 /\ now - s < 10) /\ ~(now - s >= 10 /\ now - s < 5)
      BY <3>4
    <3> HIDE DEF pressing
    <3> QED
      BY <3>5, <3>6, <3>7, <3>8, <3>9, <3>10
  <2>2. CASE ~\E i \in 1..Len(list) : list[i].id = f
    BY <1>1, <2>2 DEF T!IsTap, T!IsSwipe
  <2> QED
    BY <2>1, <2>2
<1>4. PICK tap : tap = IF T!IsDouble(p, tap0) THEN <<"QuickPickup">> ELSE <<"Interact">>
  OBVIOUS
<1>5. /\ tap \in Seq(Gesture) /\ Len(tap) = 1
      /\ <<"SwipeMenu">> \in Seq(Gesture) /\ Len(<<"SwipeMenu">>) = 1
      /\ <<"ContextMenu">> \in Seq(Gesture) /\ Len(<<"ContextMenu">>) = 1
      /\ <<>> \in Seq(Gesture) /\ Len(<<>>) = 0
  <2>1. /\ <<"QuickPickup">> \in Seq(Gesture) /\ Len(<<"QuickPickup">>) = 1
        /\ <<"Interact">> \in Seq(Gesture) /\ Len(<<"Interact">>) = 1
    BY DEF Gesture
  <2>2. /\ <<"SwipeMenu">> \in Seq(Gesture) /\ Len(<<"SwipeMenu">>) = 1
        /\ <<"ContextMenu">> \in Seq(Gesture) /\ Len(<<"ContextMenu">>) = 1
    BY DEF Gesture
  <2>3. <<>> \in Seq(Gesture) /\ Len(<<>>) = 0
    OBVIOUS
  <2>4. tap = <<"QuickPickup">> \/ tap = <<"Interact">>
    BY <1>4
  <2> QED
    BY <2>1, <2>2, <2>3, <2>4
<1>6. \A s \in Seq(Gesture) : s \o <<>> = s /\ <<>> \o s = s
  BY ConcatEmptySeq
<1>7. PICK a, b, c : /\ a = IF T!IsTap(list, f) THEN tap ELSE <<>>
                     /\ b = IF T!IsSwipe(list, f) THEN <<"SwipeMenu">> ELSE <<>>
                     /\ c = IF pressing THEN <<"ContextMenu">> ELSE <<>>
  OBVIOUS
<1>8. T!Lifted(list, f, p, tap0) = a \o b
  BY <1>4, <1>7 DEF T!Lifted
<1> HIDE DEF pressing
<1>9. said \o (a \o b) \o c \in {said, tap, <<"SwipeMenu">>, <<"ContextMenu">>}
  <2>1. CASE pressing
    <3>1. said = <<>> /\ a = <<>> /\ b = <<>> /\ c = <<"ContextMenu">>
      BY <1>3, <1>7, <2>1
    <3> QED
      BY <1>5, <1>6, <3>1
  <2>2. CASE T!IsTap(list, f)
    <3>1. said = <<>> /\ a = tap /\ b = <<>> /\ c = <<>>
      BY <1>3, <1>7, <2>2
    <3> QED
      BY <1>5, <1>6, <3>1
  <2>3. CASE T!IsSwipe(list, f)
    <3>1. said = <<>> /\ a = <<>> /\ b = <<"SwipeMenu">> /\ c = <<>>
      BY <1>3, <1>7, <2>3
    <3> QED
      BY <1>5, <1>6, <3>1
  <2>4. CASE ~pressing /\ ~T!IsTap(list, f) /\ ~T!IsSwipe(list, f)
    <3>1. a = <<>> /\ b = <<>> /\ c = <<>>
      BY <1>7, <2>4
    <3> QED
      BY <1>2, <1>5, <1>6, <3>1
  <2> QED
    BY <2>1, <2>2, <2>3, <2>4
<1>10. said \o (a \o b) \o c \in Seq(Gesture) /\ Len(said \o (a \o b) \o c) <= 1
  <2>1. PICK all : all = said \o (a \o b) \o c
    OBVIOUS
  <2>2. all = said \/ all = tap \/ all = <<"SwipeMenu">> \/ all = <<"ContextMenu">>
    BY <1>9, <2>1
  <2>3. CASE all = said
    BY <1>2, <2>1, <2>3, Zenon
  <2>4. \A s : s \in Seq(Gesture) /\ Len(s) = 1 => s \in Seq(Gesture) /\ Len(s) <= 1
    OBVIOUS
  <2>5. CASE all = tap \/ all = <<"SwipeMenu">> \/ all = <<"ContextMenu">>
    <3>1. all \in Seq(Gesture) /\ Len(all) = 1
      BY <1>5, <2>5, Zenon
    <3> QED
      BY <2>1, <2>4, <3>1, Zenon
  <2> QED
    BY <2>2, <2>3, <2>5
<1>11. c = IF \E i \in DOMAIN list : list[i].id = f /\ T!IsLongPress(list[i])
           THEN <<"ContextMenu">> ELSE <<>>
  BY <1>7 DEF pressing
<1> QED
  BY <1>8, <1>10, <1>11

\* A touch that has just begun is no long press, and one that is gone again is
\* nothing at all.
LEMMA NewIsNothing ==
  ASSUME now \in Nat, pressed \in [Finger -> Point \cup {T!Up}], lost \subseteq T!Down,
         Tracks(touches, T!Down \ lost, cancelled),
         NEW ev, NEW at, Reported(ev, at), NEW fresh \in T!Listings(T!Began(ev)),
         NEW g \in Finger \ cancelled, ev[g] \in {"pressed", "tapped"},
         NEW seen, seen = touches \/ seen = T!Tracked(touches, ev, at, fresh)
  PROVE  /\ ~\E i \in DOMAIN seen : seen[i].id = g /\ T!IsLongPress(seen[i])
         /\ ev[g] = "tapped" => ~\E i \in DOMAIN seen : seen[i].id = g
<1>1. g \notin T!Down
  BY ReportedMeans
<1>2. CASE seen = touches
  <2>1. DOMAIN touches = 1..Len(touches) /\ \A i \in 1..Len(touches) : touches[i].id # g
    BY <1>1 DEF Tracks
  <2> QED
    BY <1>2, <2>1
<1>3. CASE seen = T!Tracked(touches, ev, at, fresh)
  <2>1. Tracks(seen, HeldAfter(ev), OutAfter(ev))
    BY <1>3, TrackedTracks
  <2>2. DOMAIN seen = 1..Len(seen)
    BY <2>1 DEF Tracks
  <2>3. CASE ev[g] = "pressed"
    <3>1. ASSUME NEW i \in 1..Len(seen), seen[i].id = g PROVE ~T!IsLongPress(seen[i])
      <4>1. \A k \in 1..Len(seen) : ev[seen[k].id] = "pressed" /\ seen[k].id \notin cancelled
              => seen[k].start_time = now
        <5>1. BeginNow(seen, ev)
          BY <1>3, TrackedTracks
        <5> QED
          BY <5>1 DEF BeginNow
      <4>2. seen[i].start_time = now
        BY <2>3, <3>1, <4>1
      <4> QED
        BY <4>2 DEF T!IsLongPress, T!long_press_threshold
    <3> QED
      BY <2>2, <2>3, <3>1
  <2>4. CASE ev[g] = "tapped"
    <3>1. g \notin HeldAfter(ev) \cup OutAfter(ev)
      BY <2>4 DEF HeldAfter, OutAfter
    <3>2. \A i \in 1..Len(seen) : seen[i].id # g
      BY <2>1, <3>1 DEF Tracks
    <3> QED
      BY <2>2, <3>2
  <2> QED
    BY <2>3, <2>4
<1> QED
  BY <1>2, <1>3

\* The joystick is active when some finger is on the left half.
LEMMA JoystickHeld ==
  ASSUME NEW fingers \in [Finger -> Point \cup {T!Up}],
         joystick \in [active : BOOLEAN, origin : Point \cup {<<0, 0>>}, moving : BOOLEAN],
         T!UpdateVirtualJoystick({fingers[g] : g \in Finger} \ {T!Up})
  PROVE  /\ joystick' \in [active : BOOLEAN, origin : Point \cup {<<0, 0>>}, moving : BOOLEAN]
         /\ joystick'.active <=> \E g \in Finger : fingers[g] # T!Up /\ fingers[g][1] < T!half_width
<1>1. PICK left : left = {p \in {fingers[g] : g \in Finger} \ {T!Up} : p[1] < T!half_width}
  OBVIOUS
<1>2. left # {} <=> \E g \in Finger : fingers[g] # T!Up /\ fingers[g][1] < T!half_width
  BY <1>1
<1>3. left \subseteq Point
  BY <1>1
<1>4. CASE left = {}
  <2>1. joystick' = [joystick EXCEPT !.active = FALSE, !.moving = FALSE]
    BY <1>1, <1>4 DEF T!UpdateVirtualJoystick
  <2> QED
    BY <1>2, <1>4, <2>1
<1>5. CASE left # {}
  <2>1. PICK p \in left :
          joystick' = [active |-> TRUE, origin |-> IF joystick.active THEN joystick.origin ELSE p,
                       moving |-> ~T!Within(p, IF joystick.active THEN joystick.origin ELSE p,
                                            T!joystick_dead_zone)]
    BY <1>1, <1>5 DEF T!UpdateVirtualJoystick
  <2>2. PICK origin \in Point \cup {<<0, 0>>}, moving \in BOOLEAN :
          joystick' = [active |-> TRUE, origin |-> origin, moving |-> moving]
    BY <1>3, <2>1
  <2> QED
    BY <1>2, <1>5, <2>2
<1> QED
  BY <1>4, <1>5

\* A frame, whichever system runs first.
LEMMA FrameKeepsTouches ==
  ASSUME TouchInv, NEW ev, NEW at, Reported(ev, at), T!Frame(ev, at)
  PROVE  TouchInv'
<1>1. /\ now \in Nat /\ pressed \in [Finger -> Point \cup {T!Up}] /\ lost \subseteq T!Down
      /\ Tracks(touches, T!Down \ lost, cancelled)
      /\ \A g \in Finger \ cancelled : ToldOnce(touches, g, told[g])
  BY DEF TouchInv
<1>2. now' \in Nat /\ now' >= now
  BY <1>1, TouchAssumption DEF T!Frame
<1>3. /\ pressed' \in [Finger -> Point \cup {T!Up}]
      /\ lost' \subseteq T!Down'
      /\ T!Down' \ lost' = HeldAfter(ev)
      /\ cancelled' = OutAfter(ev)
  <2>1. /\ pressed' \in [Finger -> Point \cup {T!Up}]
        /\ \A g \in Finger : pressed'[g] # T!Up <=>
             ev[g] \in {"pressed", "moved", "repressed"} \/ (ev[g] = "still" /\ g \in T!Down)
        /\ \A g \in T!Down : ev[g] \in {"still", "moved", "released", "cancelled", "repressed"}
        /\ \A g \in Finger \ T!Down : ev[g] \in {"still", "pressed", "tapped"}
    BY <1>1, ReportedMeans DEF T!Frame
  <2>2. T!Down' = {g \in Finger : pressed'[g] # T!Up} /\ T!Down \subseteq Finger
    BY DEF T!Down, T!Up
  <2>3. lost' = {f \in Finger : ev[f] = "repressed"} \cup {f \in lost : ev[f] \in {"still", "moved"}}
    BY DEF T!Frame
  <2>4. \A g \in Finger : g \in lost' <=> ev[g] = "repressed" \/ (g \in lost /\ ev[g] \in {"still", "moved"})
    BY <2>3
  <2>5. lost' \subseteq Finger
    BY <1>1, <2>2, <2>3
  <2>6. ASSUME NEW g \in Finger
        PROVE  /\ g \in lost' => g \in T!Down'
               /\ g \in T!Down' \ lost' <=> g \in HeldAfter(ev)
    <3>1. g \in T!Down' <=> ev[g] \in {"pressed", "moved", "repressed"} \/ (ev[g] = "still" /\ g \in T!Down)
      BY <2>1, <2>2
    <3>2. g \in HeldAfter(ev) <=> ev[g] = "pressed" \/ (g \in T!Down \ lost /\ ev[g] \in {"still", "moved"})
      BY DEF HeldAfter
    <3>3. CASE g \in T!Down
      BY <2>1, <2>4, <3>1, <3>2, <3>3
    <3>4. CASE g \notin T!Down
      BY <1>1, <2>1, <2>4, <3>1, <3>2, <3>4
    <3> QED
      BY <3>3, <3>4
  <2>7. HeldAfter(ev) \subseteq Finger /\ T!Down' \subseteq Finger
    BY <2>2 DEF HeldAfter
  <2>8. cancelled' = OutAfter(ev)
    BY DEF T!Frame, OutAfter
  <2> QED
    BY <2>1, <2>5, <2>6, <2>7, <2>8
<1>a. PICK first \in BOOLEAN, fresh \in T!Listings(T!Began(ev)), ended \in T!Listings(T!Ended(ev)) :
        \E seen, after :
          /\ seen = IF first THEN T!Tracked(touches, ev, at, fresh) ELSE touches
          /\ after = T!Consumed(seen)
          /\ touches' = IF first THEN after ELSE T!Tracked(after, ev, at, fresh)
          /\ told' = T!Told(seen, ev, at, ended)
  BY DEF T!Frame
<1>4. PICK seen, after :
        /\ seen = IF first THEN T!Tracked(touches, ev, at, fresh) ELSE touches
        /\ after = T!Consumed(seen)
        /\ touches' = IF first THEN after ELSE T!Tracked(after, ev, at, fresh)
        /\ told' = T!Told(seen, ev, at, ended)
  BY <1>a
<1> DEFINE Long(g) == IF \E i \in DOMAIN seen : seen[i].id = g /\ T!IsLongPress(seen[i])
                      THEN <<"ContextMenu">> ELSE <<>>
<1>5. PICK held2, out2, t2 : held2 = HeldAfter(ev) /\ out2 = OutAfter(ev) /\ t2 = touches'
  OBVIOUS
<1>6. cancelled \subseteq out2
  BY <1>5 DEF OutAfter
<1>7. /\ Tracks(T!Tracked(touches, ev, at, fresh), held2, out2)
      /\ \A g \in Finger : \A said : ev[g] # "pressed" /\ ToldOnce(touches, g, said)
           => ToldOnce(T!Tracked(touches, ev, at, fresh), g, said)
  BY <1>1, <1>5, TrackedTracks
<1>8. /\ first => Tracks(seen, held2, out2)
      /\ ~first => Tracks(seen, T!Down \ lost, cancelled)
      /\ \A g \in Finger \ out2 : ev[g] # "pressed" => ToldOnce(seen, g, told[g])
  BY <1>1, <1>4, <1>6, <1>7
<1>9. Tracks(t2, held2, out2)
  <2>1. CASE first
    BY <1>1, <1>4, <1>5, <1>8, <2>1, ConsumedTracks
  <2>2. CASE ~first
    <3>1. Tracks(after, T!Down \ lost, cancelled)
      BY <1>1, <1>4, <1>8, <2>2, ConsumedTracks
    <3>2. Tracks(T!Tracked(after, ev, at, fresh), held2, out2)
      BY <1>1, <1>5, <3>1, TrackedTracks
    <3> QED
      BY <1>4, <1>5, <2>2, <3>2
  <2> QED
    BY <2>1, <2>2
<1>10. \A g \in Finger : told'[g] =
         (IF ev[g] \in {"pressed", "tapped"} THEN <<>> ELSE told[g])
         \o (IF g \in T!Ended(ev) THEN T!Release(seen, ev, at, ended, g) ELSE <<>>)
         \o Long(g)
  BY <1>4 DEF T!Told
<1>b. \A g \in Finger : g \in T!Ended(ev) <=> ev[g] \in {"released", "tapped", "repressed"}
  BY DEF T!Ended
<1> HIDE DEF Long
<1>11. ASSUME NEW g \in Finger \ out2 PROVE ToldOnce(t2, g, told'[g])
  <2>0. g \in Finger \ cancelled
    BY <1>6
  <2>1. CASE ev[g] \in {"pressed", "tapped"}
    <3>1. seen = touches \/ seen = T!Tracked(touches, ev, at, fresh)
      BY <1>4
    <3>2. /\ ~\E i \in DOMAIN seen : seen[i].id = g /\ T!IsLongPress(seen[i])
          /\ ev[g] = "tapped" => ~\E i \in DOMAIN seen : seen[i].id = g
      BY <1>1, <2>0, <2>1, <3>1, NewIsNothing
    <3>3. Long(g) = <<>>
      BY <3>2 DEF Long
    <3>4. g \in T!Ended(ev) => T!Release(seen, ev, at, ended, g) = <<>>
      <4> SUFFICES ASSUME g \in T!Ended(ev) PROVE T!Release(seen, ev, at, ended, g) = <<>>
        OBVIOUS
      <4>1. ~\E i \in DOMAIN seen : seen[i].id = g
        BY <1>b, <2>1, <3>2
      <4>2. ~T!IsTap(seen, g) /\ ~T!IsSwipe(seen, g)
        BY <4>1 DEF T!IsTap, T!IsSwipe
      <4>3. PICK p, tap : T!Release(seen, ev, at, ended, g) = T!Lifted(seen, g, p, tap)
        BY DEF T!Release
      <4>4. T!Lifted(seen, g, p, tap) = <<>> \o <<>>
        BY <4>2, Zenon DEF T!Lifted
      <4> QED
        BY <4>3, <4>4
    <3>5. told'[g] = <<>> \o <<>> \o <<>>
      BY <1>10, <2>1, <3>3, <3>4
    <3>6. told'[g] = <<>>
      BY <3>5
    <3> QED
      BY <3>6 DEF ToldOnce
  <2>2. CASE ev[g] \in {"released", "repressed"}
    <3>1. ToldOnce(seen, g, told[g])
      BY <1>8, <2>2
    <3>2. told'[g] = told[g] \o T!Release(seen, ev, at, ended, g) \o Long(g)
      BY <1>10, <1>b, <2>2
    <3>3. told'[g] \in Seq(Gesture) /\ Len(told'[g]) <= 1
      <4>1. PICK d, o : Tracks(seen, d, o) /\ g \in Finger \ o
        BY <1>8, <2>0
      <4>2. PICK p, tap : T!Release(seen, ev, at, ended, g) = T!Lifted(seen, g, p, tap)
        BY DEF T!Release
      <4>3. /\ told[g] \o T!Lifted(seen, g, p, tap) \o Long(g) \in Seq(Gesture)
            /\ Len(told[g] \o T!Lifted(seen, g, p, tap) \o Long(g)) <= 1
        BY <1>1, <3>1, <4>1, LiftedOnce DEF Long
      <4> QED
        BY <3>2, <4>2, <4>3
    <3>4. g \notin held2
      BY <1>5, <2>2 DEF HeldAfter
    <3>5. \A i \in 1..Len(t2) : t2[i].id # g
      BY <1>9, <3>4 DEF Tracks
    <3> QED
      BY <3>3, <3>5 DEF ToldOnce
  <2>3. CASE ev[g] \notin {"pressed", "tapped", "released", "repressed"}
    <3>1. ToldOnce(seen, g, told[g])
      BY <1>8, <2>3
    <3>2. told'[g] = told[g] \o Long(g)
      <4>1. told'[g] = told[g] \o <<>> \o Long(g)
        BY <1>10, <1>b, <2>3
      <4>2. told[g] \o <<>> = told[g]
        BY <3>1, ConcatEmptySeq DEF ToldOnce
      <4> QED
        BY <4>1, <4>2
    <3>3. ToldOnce(after, g, told'[g])
      <4>1. PICK d, o : Tracks(seen, d, o) /\ g \in Finger \ o
        BY <1>8, <2>0
      <4>2. ToldOnce(T!Consumed(seen), g, told[g] \o Long(g))
        BY <1>1, <3>1, <4>1, ConsumedTracks DEF Long
      <4> QED
        BY <1>4, <3>2, <4>2
    <3>4. CASE first
      BY <1>4, <1>5, <3>3, <3>4
    <3>5. CASE ~first
      <4>1. Tracks(after, T!Down \ lost, cancelled)
        BY <1>1, <1>4, <1>8, <3>5, ConsumedTracks
      <4>2. ToldOnce(T!Tracked(after, ev, at, fresh), g, told'[g])
        BY <1>1, <2>3, <3>3, <4>1, TrackedTracks
      <4> QED
        BY <1>4, <1>5, <3>5, <4>2
    <3> QED
      BY <3>4, <3>5
  <2> QED
    BY <2>1, <2>2, <2>3
<1>12. Tracks(touches, T!Down \ lost, cancelled)'
  <2>1. t2 \in Seq(TouchRecord) /\ \A i \in 1..Len(t2) : t2[i] \in TouchRecord
    BY <1>9 DEF Tracks
  <2>2. \A i \in 1..Len(t2) : t2[i].start_time <= now' /\ (t2[i].consumed => now' - t2[i].start_time >= 10)
    <3> SUFFICES ASSUME NEW i \in 1..Len(t2)
                 PROVE  t2[i].start_time <= now' /\ (t2[i].consumed => now' - t2[i].start_time >= 10)
      OBVIOUS
    <3>1. t2[i].start_time \in Nat
      BY <2>1 DEF TouchRecord
    <3>2. t2[i].start_time <= now /\ (t2[i].consumed => now - t2[i].start_time >= 10)
      BY <1>9 DEF Tracks, Timely
    <3> QED
      BY <1>1, <1>2, <3>1, <3>2
  <2>3. touches' = t2 /\ T!Down' \ lost' = held2 /\ cancelled' = out2
    BY <1>3, <1>5
  <2>4. /\ \A i \in 1..Len(t2) : t2[i].id \in held2 \cup out2
        /\ \A i, j \in 1..Len(t2) : t2[i].id = t2[j].id /\ t2[i].id \notin out2 => i = j
        /\ \A g \in held2 \ out2 : \E i \in 1..Len(t2) : t2[i].id = g
    BY <1>9 DEF Tracks
  <2> QED
    BY <2>1, <2>2, <2>3, <2>4 DEF Tracks, Timely
<1>13. \A g \in Finger \ cancelled' : ToldOnce(touches, g, told[g])'
  BY <1>3, <1>5, <1>11 DEF ToldOnce
<1>14. /\ joystick' \in [active : BOOLEAN, origin : Point \cup {<<0, 0>>}, moving : BOOLEAN]
       /\ joystick'.active <=> \E g \in Finger : pressed'[g] # T!Up /\ pressed'[g][1] < T!half_width
  <2>1. T!UpdateVirtualJoystick({pressed'[g] : g \in Finger} \ {T!Up})
    BY DEF T!Frame
  <2>2. PICK fingers : fingers = pressed'
    OBVIOUS
  <2>3. /\ fingers \in [Finger -> Point \cup {T!Up}]
        /\ T!UpdateVirtualJoystick({fingers[g] : g \in Finger} \ {T!Up})
    BY <1>3, <2>1, <2>2
  <2>4. joystick \in [active : BOOLEAN, origin : Point \cup {<<0, 0>>}, moving : BOOLEAN]
    BY DEF TouchInv
  <2>5. /\ joystick' \in [active : BOOLEAN, origin : Point \cup {<<0, 0>>}, moving : BOOLEAN]
        /\ joystick'.active <=> \E g \in Finger : fingers[g] # T!Up /\ fingers[g][1] < T!half_width
    BY <2>3, <2>4, JoystickHeld
  <2> QED
    BY <2>2, <2>5
<1>15. (joystick.active <=> \E g \in T!Down : pressed[g][1] < T!half_width)'
  BY <1>14 DEF T!Down, T!Up, T!half_width
<1> QED
  BY <1>2, <1>3, <1>12, <1>13, <1>14, <1>15 DEF TouchInv, T!Up

\* All frames.
LEMMA TouchInvKept == TouchInv /\ T!Next => TouchInv'
<1> SUFFICES ASSUME TouchInv, T!Next PROVE TouchInv'
  OBVIOUS
<1>1. PICK ev \in [Finger -> UNION {T!Reports(f) : f \in Finger}] :
        /\ \A f \in Finger : ev[f] \in T!Reports(f)
        /\ \E at \in [Finger -> Point \cup {T!Up}] :
             /\ \A f \in Finger : at[f] = T!Up <=> ev[f] \in {"still", "cancelled"}
             /\ T!Frame(ev, at)
  BY Zenon DEF T!Next
<1>3. PICK at \in [Finger -> Point \cup {T!Up}] :
        /\ \A f \in Finger : at[f] = T!Up <=> ev[f] \in {"still", "cancelled"}
        /\ T!Frame(ev, at)
  BY <1>1
<1>2. Reported(ev, at)
  BY <1>1, <1>3 DEF Reported
<1> QED
  BY <1>3, <1>2, FrameKeepsTouches

\* For any number of fingers, positions and frame times, and in whichever order
\* the systems run: a touch that is not cancelled is at most one gesture, the
\* touches tracked are those of the fingers that are down, but for those lifted and
\* pressed again within one frame, and the joystick is held by a finger on the left.
THEOREM TouchesAreOneGesture == MCSpec => []OneGesturePerTouch
<1>1. MCInit => TouchInv
  <2> SUFFICES ASSUME MCInit PROVE TouchInv
    OBVIOUS
  <2>1. /\ now = 0 /\ pressed = [g \in Finger |-> T!Up] /\ touches = <<>>
        /\ joystick = [active |-> FALSE, origin |-> <<0, 0>>, moving |-> FALSE]
        /\ told = [g \in Finger |-> <<>>] /\ cancelled = {} /\ lost = {}
    BY DEF MCInit, T!Init
  <2>2. T!Down = {}
    BY <2>1 DEF T!Down
  <2>3. Tracks(touches, T!Down \ lost, cancelled)
    BY <2>1, <2>2 DEF Tracks
  <2>4. \A g \in Finger : ToldOnce(touches, g, told[g])
    BY <2>1 DEF ToldOnce
  <2> QED
    BY <2>1, <2>2, <2>3, <2>4 DEF TouchInv
<1>2. TouchInv /\ [MCNext]_allvars => TouchInv'
  <2> SUFFICES ASSUME TouchInv, [MCNext]_allvars PROVE TouchInv'
    OBVIOUS
  <2>1. CASE Touch
    BY <2>1, TouchInvKept DEF Touch
  <2>2. CASE UNCHANGED touchVars
    BY <2>2 DEF touchVars, TouchInv, Tracks, Timely, ToldOnce, T!Down, T!Up, T!half_width
  <2> QED
    BY <2>1, <2>2 DEF MCNext, Trade, Shop, Craft, Quest, Learn, Live, Happen, Show, Play,
                      Sparkle, allvars, clientVars
<1>3. TouchInv => OneGesturePerTouch
  <2> SUFFICES ASSUME TouchInv PROVE T!OneGesturePerTouch
    BY DEF OneGesturePerTouch
  <2>1. Tracks(touches, T!Down \ lost, cancelled) /\ DOMAIN touches = 1..Len(touches)
    BY DEF TouchInv, Tracks
  <2>2. ASSUME NEW f \in Finger \ cancelled
        PROVE  /\ Len(told[f]) <= 1
               /\ T!Cardinality({i \in DOMAIN touches : touches[i].id = f})
                    = IF f \in T!Down \ lost THEN 1 ELSE 0
    <3>1. Len(told[f]) <= 1
      BY DEF TouchInv, ToldOnce
    <3>2. CASE f \in T!Down \ lost
      <4>1. PICK i \in 1..Len(touches) : touches[i].id = f
        BY <2>1, <3>2 DEF Tracks
      <4>2. {j \in DOMAIN touches : touches[j].id = f} = {i}
        BY <2>1, <4>1 DEF Tracks
      <4>3. T!Cardinality({i}) = 1
        BY TouchesCount, FS_Singleton
      <4> QED
        BY <3>1, <3>2, <4>2, <4>3
    <3>3. CASE f \notin T!Down \ lost
      <4>1. {j \in DOMAIN touches : touches[j].id = f} = {}
        BY <2>1, <3>3 DEF Tracks
      <4>2. T!Cardinality({}) = 0
        BY TouchesCount, FS_EmptySet
      <4> QED
        BY <3>1, <3>3, <4>1, <4>2
    <3> QED
      BY <3>2, <3>3
  <2>3. \A i \in DOMAIN touches : touches[i].id \in T!Down \cup cancelled
    BY <2>1 DEF Tracks
  <2> QED
    BY <2>2, <2>3 DEF TouchInv, T!OneGesturePerTouch
<1> QED
  BY <1>1, <1>2, <1>3, PTL DEF MCSpec

-----------------------------------------------------------------------------
(* The event manager                                                       *)

GroundItem == [drop_id : Nat, spot : Spot, dropped_at : Nat]
PeriodicKind == {"DayNightTransition", "WeatherChange", "ResourceRespawn", "EnemyWave"}
Subject == Nat \cup BOOLEAN \cup WeatherType
Periodic == [kind : PeriodicKind, what : Subject]
Happening == [kind : PeriodicKind \cup {"ItemDropped", "ItemPickedUp"}, what : Subject]

\* The items on the ground are in the order they were dropped, and young.
Lying(items, next, time) ==
  /\ items \in Seq(GroundItem)
  /\ \A i \in 1..Len(items) :
       /\ items[i].drop_id < next /\ items[i].dropped_at <= time
       /\ time - items[i].dropped_at < despawn_ticks
  /\ \A i, j \in 1..Len(items) : i < j => items[i].drop_id < items[j].drop_id

\* What the events say was picked up is gone, said once, and after its drop.
Truthful(evs, items, next) ==
  /\ evs \in Seq(Happening)
  /\ \A i \in 1..Len(evs) : evs[i].kind = "ItemPickedUp" =>
       /\ evs[i].what \in Nat /\ evs[i].what < next
       /\ \A k \in 1..Len(items) : items[k].drop_id # evs[i].what
       /\ \A j \in 1..Len(evs) : evs[j].what = evs[i].what =>
            /\ evs[j].kind = "ItemPickedUp" => j = i
            /\ evs[j].kind = "ItemDropped" => j < i

EventInv ==
  /\ current_tick \in Nat /\ next_drop_id \in Nat \ {0} /\ is_day \in BOOLEAN
  /\ Lying(ground_items, next_drop_id, current_tick)
  /\ Truthful(current_events, ground_items, next_drop_id)
  /\ is_day <=> (current_tick \div day_cycle_ticks) % 2 = 0

\* The quotient by the cycle grows by one where the cycle ends, and only there.
LEMMA DivStep ==
  ASSUME NEW n \in Nat, NEW d \in Nat \ {0}
  PROVE  /\ n \div d \in Nat
         /\ (n + 1) % d = 0 => (n + 1) \div d = n \div d + 1
         /\ (n + 1) % d # 0 => (n + 1) \div d = n \div d
<1>1. PICK q \in Int, r \in Int, q2 \in Int, r2 \in Int :
        q = n \div d /\ r = n % d /\ q2 = (n + 1) \div d /\ r2 = (n + 1) % d
  OBVIOUS
<1>2. n = d * q + r /\ 0 <= r /\ r < d
  BY <1>1
<1>3. n + 1 = d * q2 + r2 /\ 0 <= r2 /\ r2 < d
  BY <1>1
<1>4. d * (q2 - q) = 1 + r - r2
  BY <1>2, <1>3
<1>5. q >= 0
  BY <1>2
<1>6. q2 - q \in {0, 1}
  BY <1>2, <1>3, <1>4
<1>7. r2 = 0 => q2 # q
  BY <1>2, <1>4
<1>8. r2 # 0 => q2 = q
  <2>1. q2 - q = 1 => r2 = 1 + r - d
    BY <1>4
  <2> QED
    BY <1>2, <1>3, <1>6, <2>1
<1> QED
  BY <1>1, <1>5, <1>6, <1>7, <1>8

\* Of two numbers that follow each other one is even.
LEMMA Parity ==
  ASSUME NEW q \in Nat
  PROVE  (q + 1) % 2 = 0 <=> ~(q % 2 = 0)
OBVIOUS

\* The entries of one list that are left in another, in order.
Thinned(out, items, nth) ==
  /\ out \in Seq(GroundItem) /\ nth \in [1..Len(out) -> 1..Len(items)]
  /\ \A k \in 1..Len(out) : out[k] = items[nth[k]]
  /\ \A k, l \in 1..Len(out) : k < l => nth[k] < nth[l]

Young(items, time) == \A k \in 1..Len(items) : time - items[k].dropped_at < despawn_ticks

\* The items left when some are taken away, in order, as old as allowed.
LEMMA FewerLie ==
  ASSUME NEW items, NEW next, NEW time \in Nat, NEW later \in Nat, time <= later,
         Lying(items, next, time), NEW out, NEW nth, Thinned(out, items, nth), Young(out, later)
  PROVE  /\ Lying(out, next, later)
         /\ \A evs : Truthful(evs, items, next) => Truthful(evs, out, next)
<1> USE DEF Thinned, Young
<1>1. \A k \in 1..Len(out) : out[k].drop_id < next /\ out[k].dropped_at <= later
  <2> SUFFICES ASSUME NEW k \in 1..Len(out)
               PROVE  out[k].drop_id < next /\ out[k].dropped_at <= later
    OBVIOUS
  <2>1. out[k] \in GroundItem
    OBVIOUS
  <2>2. out[k].dropped_at \in Nat
    BY <2>1 DEF GroundItem
  <2>3. out[k].drop_id < next /\ out[k].dropped_at <= time
    BY DEF Lying
  <2> QED
    BY <2>2, <2>3
<1>2. \A k, l \in 1..Len(out) : k < l => out[k].drop_id < out[l].drop_id
  <2> SUFFICES ASSUME NEW k \in 1..Len(out), NEW l \in 1..Len(out), k < l
               PROVE  out[k].drop_id < out[l].drop_id
    OBVIOUS
  <2>1. /\ nth[k] \in 1..Len(items) /\ nth[l] \in 1..Len(items) /\ nth[k] < nth[l]
        /\ out[k] = items[nth[k]] /\ out[l] = items[nth[l]]
    OBVIOUS
  <2> QED
    BY <2>1 DEF Lying
<1>3. ASSUME NEW evs, Truthful(evs, items, next) PROVE Truthful(evs, out, next)
  <2>1. \A n : (\A k \in 1..Len(items) : items[k].drop_id # n)
                 => \A k \in 1..Len(out) : out[k].drop_id # n
    OBVIOUS
  <2> QED
    BY <1>3, <2>1 DEF Truthful
<1> QED
  BY <1>1, <1>2, <1>3 DEF Lying

\* drop_item.
LEMMA DropKeepsEvents ==
  ASSUME EventInv, NEW spot \in Spot, V!DropItem(spot)
  PROVE  EventInv'
<1>a. PICK items, evs : items = ground_items /\ evs = current_events
  OBVIOUS
<1>1. PICK n \in Nat \ {0}, t \in Nat :
        n = next_drop_id /\ t = current_tick /\ items = ground_items /\ evs = current_events
  BY <1>a DEF EventInv
<1>2. Lying(items, n, t) /\ Truthful(evs, items, n)
  BY <1>1 DEF EventInv
<1>3. PICK item : item = [drop_id |-> n, spot |-> spot, dropped_at |-> t]
  OBVIOUS
<1>4. PICK event : event = [kind |-> "ItemDropped", what |-> n]
  OBVIOUS
<1>5. /\ ground_items' = Append(items, item) /\ current_events' = Append(evs, event)
      /\ next_drop_id' = n + 1 /\ current_tick' = t /\ is_day' = is_day
  BY <1>1, <1>3, <1>4 DEF V!DropItem
<1>6. item \in GroundItem /\ item.drop_id = n /\ item.dropped_at = t
  BY <1>3 DEF GroundItem
<1>7. event \in Happening /\ event.kind = "ItemDropped" /\ event.what = n
  BY <1>4 DEF Happening, Subject
<1>8. items \in Seq(GroundItem) /\ evs \in Seq(Happening) /\ Len(items) \in Nat /\ Len(evs) \in Nat
  BY <1>2 DEF Lying, Truthful
<1>9. PICK items2 : items2 = Append(items, item)
  OBVIOUS
<1>10. PICK evs2 : evs2 = Append(evs, event)
  OBVIOUS
<1>11. /\ items2 \in Seq(GroundItem) /\ Len(items2) = Len(items) + 1
       /\ \A i \in 1..Len(items) : items2[i] = items[i]
       /\ items2[Len(items) + 1] = item
  BY <1>6, <1>8, <1>9, AppendProperties
<1>12. /\ evs2 \in Seq(Happening) /\ Len(evs2) = Len(evs) + 1
       /\ \A i \in 1..Len(evs) : evs2[i] = evs[i]
       /\ evs2[Len(evs) + 1] = event
  BY <1>7, <1>8, <1>10, AppendProperties
<1>13. /\ \A i \in 1..Len(items2) : i \in 1..Len(items) \/ i = Len(items) + 1
       /\ \A i \in 1..Len(evs2) : i \in 1..Len(evs) \/ i = Len(evs) + 1
  BY <1>8, <1>11, <1>12
<1>14. \A i \in 1..Len(items) :
         items[i].drop_id \in Nat /\ items[i].drop_id < n /\ items[i].dropped_at <= t
         /\ t - items[i].dropped_at < despawn_ticks
  <2> SUFFICES ASSUME NEW i \in 1..Len(items)
               PROVE  items[i].drop_id \in Nat /\ items[i].drop_id < n /\ items[i].dropped_at <= t
                      /\ t - items[i].dropped_at < despawn_ticks
    OBVIOUS
  <2>1. items[i] \in GroundItem
    BY <1>8
  <2>2. items[i].drop_id \in Nat
    BY <2>1 DEF GroundItem
  <2> QED
    BY <1>2, <2>2 DEF Lying
<1>15. Lying(items2, n + 1, t)
  <2>1. \A i \in 1..Len(items2) :
          /\ items2[i].drop_id < n + 1 /\ items2[i].dropped_at <= t
          /\ t - items2[i].dropped_at < despawn_ticks
    <3> SUFFICES ASSUME NEW i \in 1..Len(items2)
                 PROVE  /\ items2[i].drop_id < n + 1 /\ items2[i].dropped_at <= t
                        /\ t - items2[i].dropped_at < despawn_ticks
      OBVIOUS
    <3>1. CASE i \in 1..Len(items)
      BY <1>11, <1>14, <3>1
    <3>2. CASE i = Len(items) + 1
      BY <1>6, <1>11, <3>2, EventAssumption
    <3> QED
      BY <1>13, <3>1, <3>2
  <2>2. \A i, j \in 1..Len(items2) : i < j => items2[i].drop_id < items2[j].drop_id
    <3> SUFFICES ASSUME NEW i \in 1..Len(items2), NEW j \in 1..Len(items2), i < j
                 PROVE  items2[i].drop_id < items2[j].drop_id
      OBVIOUS
    <3>1. i \in 1..Len(items)
      BY <1>8, <1>11
    <3>2. CASE j \in 1..Len(items)
      BY <1>2, <1>11, <3>1, <3>2 DEF Lying
    <3>3. CASE j = Len(items) + 1
      BY <1>6, <1>11, <1>14, <3>1, <3>3
    <3> QED
      BY <1>13, <3>2, <3>3
  <2> QED
    BY <1>11, <2>1, <2>2 DEF Lying
<1>16. Truthful(evs2, items2, n + 1)
  <2> SUFFICES ASSUME NEW i \in 1..Len(evs2), evs2[i].kind = "ItemPickedUp"
               PROVE  /\ evs2[i].what \in Nat /\ evs2[i].what < n + 1
                      /\ \A k \in 1..Len(items2) : items2[k].drop_id # evs2[i].what
                      /\ \A j \in 1..Len(evs2) : evs2[j].what = evs2[i].what =>
                           /\ evs2[j].kind = "ItemPickedUp" => j = i
                           /\ evs2[j].kind = "ItemDropped" => j < i
    BY <1>12 DEF Truthful
  <2>1. i \in 1..Len(evs) /\ evs2[i] = evs[i]
    BY <1>7, <1>12, <1>13
  <2>2. PICK w \in Nat : w = evs2[i].what /\ w < n
    BY <1>2, <2>1 DEF Truthful
  <2>3. \A k \in 1..Len(items2) : items2[k].drop_id # w
    <3>1. \A k \in 1..Len(items) : items[k].drop_id # w
      BY <1>2, <2>1, <2>2 DEF Truthful
    <3>2. n # w
      BY <2>2
    <3> QED
      BY <1>6, <1>11, <1>13, <3>1, <3>2
  <2>4. ASSUME NEW j \in 1..Len(evs2), evs2[j].what = w
        PROVE  /\ evs2[j].kind = "ItemPickedUp" => j = i
               /\ evs2[j].kind = "ItemDropped" => j < i
    <3>1. n # w
      BY <2>2
    <3>2. j \in 1..Len(evs) /\ evs2[j] = evs[j]
      BY <1>7, <1>12, <1>13, <2>4, <3>1
    <3> QED
      BY <1>2, <2>1, <2>2, <2>4, <3>2 DEF Truthful
  <2> QED
    BY <2>2, <2>3, <2>4
<1>17. ground_items' = items2 /\ current_events' = evs2
  BY <1>5, <1>9, <1>10
<1> QED
  BY <1>1, <1>5, <1>15, <1>16, <1>17 DEF EventInv

\* A pickup takes one item away, and no other.
LEMMA TakenAway ==
  ASSUME NEW items \in Seq(GroundItem), NEW m \in 1..Len(items)
  PROVE  \E nth :
           /\ Thinned(V!Kept(items, DOMAIN items \ {m}), items, nth)
           /\ \A k \in 1..Len(V!Kept(items, DOMAIN items \ {m})) : nth[k] # m
<1>1. PICK kept : kept = DOMAIN items \ {m}
  OBVIOUS
<1>2. kept \in SUBSET (1..Len(items)) /\ m \notin kept
  BY <1>1
<1>3. \E out, nth :
        /\ out = Retained(items, kept) /\ out \in Seq(GroundItem)
        /\ nth \in [1..Len(out) -> kept]
        /\ \A k \in 1..Len(out) : out[k] = items[nth[k]]
        /\ \A k, l \in 1..Len(out) : k < l => nth[k] < nth[l]
        /\ \A i \in kept : \E k \in 1..Len(out) : nth[k] = i
  <2>1. KeepsInOrder(GroundItem, items, kept)
    BY <1>2, KeptFacts, Zenon
  <2> QED
    BY <2>1, Zenon DEF KeepsInOrder, KeptAs
<1>4. PICK out, nth :
        /\ out = Retained(items, kept) /\ out \in Seq(GroundItem)
        /\ nth \in [1..Len(out) -> kept]
        /\ \A k \in 1..Len(out) : out[k] = items[nth[k]]
        /\ \A k, l \in 1..Len(out) : k < l => nth[k] < nth[l]
  BY <1>3
<1>5. V!Kept(items, kept) = out
  <2>1. V!Kept(items, kept) = Retained(items, kept)
    BY Zenon DEF V!Kept, V!Cardinality, Retained, Cardinality
  <2> QED
    BY <1>4, <2>1
<1>6. nth \in [1..Len(out) -> 1..Len(items)]
  BY <1>2, <1>4
<1>7. Thinned(out, items, nth)
  BY <1>4, <1>6 DEF Thinned
<1>8. \A k \in 1..Len(out) : nth[k] # m
  BY <1>2, <1>4
<1> WITNESS nth
<1> QED
  BY <1>1, <1>5, <1>7, <1>8

\* try_pickup.
LEMMA PickupKeepsEvents ==
  ASSUME EventInv, NEW spot \in Spot, V!TryPickup(spot)
  PROVE  EventInv'
<1>a. PICK items, evs : items = ground_items /\ evs = current_events
  OBVIOUS
<1>1. PICK n \in Nat \ {0}, t \in Nat :
        n = next_drop_id /\ t = current_tick /\ items = ground_items /\ evs = current_events
  BY <1>a DEF EventInv
<1>2. Lying(items, n, t) /\ Truthful(evs, items, n)
  BY <1>1 DEF EventInv
<1>3. items \in Seq(GroundItem) /\ evs \in Seq(Happening) /\ Len(items) \in Nat /\ Len(evs) \in Nat
      /\ DOMAIN items = 1..Len(items)
  BY <1>2 DEF Lying, Truthful
<1>4. PICK near : near = {i \in DOMAIN items : <<items[i].spot, spot>> \in Reach}
  OBVIOUS
<1>5. PICK m : m = V!Min(near)
  OBVIOUS
<1>6. m \in 1..Len(items)
  <2>1. near # {} /\ near \subseteq 1..Len(items)
    BY <1>1, <1>3, <1>4 DEF V!TryPickup
  <2>2. near \in SUBSET Nat
    BY <1>3, <2>1
  <2>3. \E x \in near : \A y \in near : x <= y
    BY <2>1, <2>2, LeastElement
  <2>4. m = CHOOSE x \in near : \A y \in near : x <= y
    BY <1>5 DEF V!Min
  <2>5. m \in near
    BY <2>3, <2>4
  <2> QED
    BY <2>1, <2>5
<1>7. PICK id : id = items[m].drop_id
  OBVIOUS
<1>8. id \in Nat /\ id < n
  <2>1. items[m] \in GroundItem
    BY <1>3, <1>6
  <2>2. items[m].drop_id \in Nat
    BY <2>1 DEF GroundItem
  <2> QED
    BY <1>2, <1>6, <1>7, <2>2 DEF Lying
<1>9. PICK left : left = V!Kept(items, DOMAIN items \ {m})
  OBVIOUS
<1>b. \E nth : Thinned(left, items, nth) /\ \A k \in 1..Len(left) : nth[k] # m
  <2>1. items \in Seq(GroundItem)
    BY <1>3
  <2>2. m \in 1..Len(items)
    BY <1>6
  <2> QED
    BY <1>9, <2>1, <2>2, TakenAway
<1>c. PICK nth : Thinned(left, items, nth) /\ \A k \in 1..Len(left) : nth[k] # m
  BY <1>b
<1>10. PICK event : event = [kind |-> "ItemPickedUp", what |-> id]
  OBVIOUS
<1>11. event \in Happening /\ event.kind = "ItemPickedUp" /\ event.what = id
  BY <1>8, <1>10 DEF Happening, Subject
<1>12. PICK evs2 : evs2 = Append(evs, event)
  OBVIOUS
<1>13. /\ evs2 \in Seq(Happening) /\ Len(evs2) = Len(evs) + 1
       /\ \A i \in 1..Len(evs) : evs2[i] = evs[i]
       /\ evs2[Len(evs) + 1] = event
  BY <1>3, <1>11, <1>12, AppendProperties
<1>14. \A i \in 1..Len(evs2) : i \in 1..Len(evs) \/ i = Len(evs) + 1
  BY <1>3, <1>13
<1>15. /\ ground_items' = left /\ current_events' = evs2
       /\ next_drop_id' = n /\ current_tick' = t /\ is_day' = is_day
  BY <1>1, <1>4, <1>5, <1>7, <1>9, <1>10, <1>12 DEF V!TryPickup
<1>16. \A k \in 1..Len(left) : t - left[k].dropped_at < despawn_ticks
  BY <1>2, <1>c DEF Lying, Thinned
<1>17. Lying(left, n, t) /\ Truthful(evs, left, n)
  <2>1. Thinned(left, items, nth)
    BY <1>c
  <2>2. Young(left, t)
    BY <1>16 DEF Young
  <2>3. t <= t
    OBVIOUS
  <2> QED
    BY <1>2, <2>1, <2>2, <2>3, FewerLie
<1>18. \A k \in 1..Len(left) : left[k].drop_id # id
  <2> SUFFICES ASSUME NEW k \in 1..Len(left), left[k].drop_id = id PROVE FALSE
    OBVIOUS
  <2>1. PICK l \in 1..Len(items) : l # m /\ items[l].drop_id = id
    BY <1>c DEF Thinned
  <2>2. l < m \/ m < l
    BY <1>3, <1>6, <2>1
  <2>3. id < id
    BY <1>2, <1>6, <1>7, <2>1, <2>2 DEF Lying
  <2> QED
    BY <1>8, <2>3
<1>19. \A j \in 1..Len(evs) : evs[j].kind = "ItemPickedUp" => evs[j].what # id
  BY <1>2, <1>6, <1>7 DEF Truthful
<1>20. Truthful(evs2, left, n)
  <2> SUFFICES ASSUME NEW i \in 1..Len(evs2), evs2[i].kind = "ItemPickedUp"
               PROVE  /\ evs2[i].what \in Nat /\ evs2[i].what < n
                      /\ \A k \in 1..Len(left) : left[k].drop_id # evs2[i].what
                      /\ \A j \in 1..Len(evs2) : evs2[j].what = evs2[i].what =>
                           /\ evs2[j].kind = "ItemPickedUp" => j = i
                           /\ evs2[j].kind = "ItemDropped" => j < i
    BY <1>13 DEF Truthful
  <2>1. CASE i \in 1..Len(evs)
    <3>1. evs2[i] = evs[i] /\ evs[i].what # id
      BY <1>13, <1>19, <2>1
    <3>2. /\ evs[i].what \in Nat /\ evs[i].what < n
          /\ \A k \in 1..Len(left) : left[k].drop_id # evs[i].what
      BY <1>17, <2>1, <3>1 DEF Truthful
    <3>3. ASSUME NEW j \in 1..Len(evs2), evs2[j].what = evs[i].what
          PROVE  /\ evs2[j].kind = "ItemPickedUp" => j = i
                 /\ evs2[j].kind = "ItemDropped" => j < i
      <4>1. j \in 1..Len(evs) /\ evs2[j] = evs[j]
        BY <1>11, <1>13, <1>14, <3>1, <3>3
      <4> QED
        BY <1>17, <2>1, <3>1, <3>3, <4>1 DEF Truthful
    <3> QED
      BY <3>1, <3>2, <3>3
  <2>2. CASE i = Len(evs) + 1
    <3>1. evs2[i] = event /\ evs2[i].what = id
      BY <1>11, <1>13, <2>2
    <3>2. ASSUME NEW j \in 1..Len(evs2), evs2[j].what = id
          PROVE  /\ evs2[j].kind = "ItemPickedUp" => j = i
                 /\ evs2[j].kind = "ItemDropped" => j < i
      <4>1. CASE j \in 1..Len(evs)
        <5>1. evs2[j] = evs[j] /\ evs2[j].kind # "ItemPickedUp"
          BY <1>13, <1>19, <3>2, <4>1
        <5> QED
          BY <1>3, <2>2, <4>1, <5>1
      <4>2. CASE j = Len(evs) + 1
        BY <1>11, <1>13, <2>2, <4>2
      <4> QED
        BY <1>14, <4>1, <4>2
    <3> QED
      BY <1>8, <1>18, <3>1, <3>2
  <2> QED
    BY <1>14, <2>1, <2>2
<1> QED
  BY <1>1, <1>15, <1>17, <1>20 DEF EventInv

\* A tick emits events of its own four kinds.
LEMMA EmittedFacts ==
  ASSUME is_day \in BOOLEAN, NEW time \in Nat, NEW chosen \in WeatherType \cup {weather}
  PROVE  V!Emitted(time, chosen) \in Seq(Periodic)
<1>1. PICK a, b, c, d :
        /\ a = IF V!Every(day_cycle_ticks, time)
               THEN <<[kind |-> "DayNightTransition", what |-> ~is_day]>> ELSE <<>>
        /\ b = IF chosen # weather THEN <<[kind |-> "WeatherChange", what |-> chosen]>> ELSE <<>>
        /\ c = IF V!Every(resource_ticks, time) /\ time > 0
               THEN <<[kind |-> "ResourceRespawn", what |-> time]>> ELSE <<>>
        /\ d = IF V!Every(wave_ticks, time) /\ time > 0
               THEN <<[kind |-> "EnemyWave", what |-> V!Min({time \div wave_ticks, 5})]>> ELSE <<>>
  OBVIOUS
<1>2. V!Emitted(time, chosen) = a \o b \o c \o d
  BY <1>1 DEF V!Emitted
<1>3. \A e \in Periodic : <<e>> \in Seq(Periodic)
  OBVIOUS
<1>4. <<>> \in Seq(Periodic)
  OBVIOUS
<1>5. a \in Seq(Periodic)
  <2>1. [kind |-> "DayNightTransition", what |-> ~is_day] \in Periodic
    BY DEF Periodic, PeriodicKind, Subject
  <2> QED
    BY <1>1, <1>3, <1>4, <2>1
<1>6. b \in Seq(Periodic)
  <2>1. chosen # weather => [kind |-> "WeatherChange", what |-> chosen] \in Periodic
    BY DEF Periodic, PeriodicKind, Subject
  <2> QED
    BY <1>1, <1>3, <1>4, <2>1
<1>7. c \in Seq(Periodic)
  <2>1. [kind |-> "ResourceRespawn", what |-> time] \in Periodic
    BY DEF Periodic, PeriodicKind, Subject
  <2> QED
    BY <1>1, <1>3, <1>4, <2>1
<1>8. d \in Seq(Periodic)
  <2>1. ASSUME V!Every(wave_ticks, time)
        PROVE  [kind |-> "EnemyWave", what |-> V!Min({time \div wave_ticks, 5})] \in Periodic
    <3>1. wave_ticks \in Nat \ {0}
      BY <2>1, EventAssumption DEF V!Every
    <3>2. time \div wave_ticks \in Nat
      BY <3>1, DivStep
    <3>3. PICK w \in Nat : w = time \div wave_ticks
      BY <3>2
    <3>4. \E x \in {w, 5} : \A y \in {w, 5} : x <= y
      <4>1. {w, 5} \in SUBSET Nat /\ {w, 5} # {}
        OBVIOUS
      <4> QED
        BY <4>1, LeastElement
    <3>5. V!Min({w, 5}) = CHOOSE x \in {w, 5} : \A y \in {w, 5} : x <= y
      BY DEF V!Min
    <3>6. V!Min({w, 5}) \in {w, 5}
      BY <3>4, <3>5
    <3>7. V!Min({time \div wave_ticks, 5}) \in Nat
      BY <3>3, <3>6
    <3> QED
      BY <3>7 DEF Periodic, PeriodicKind, Subject
  <2> QED
    BY <1>1, <1>3, <1>4, <2>1
<1>9. a \o b \in Seq(Periodic)
  BY <1>5, <1>6
<1>10. a \o b \o c \in Seq(Periodic)
  BY <1>7, <1>9
<1> QED
  BY <1>2, <1>8, <1>10

\* Expired items go, the others stay in order and are young at the new time.
LEMMA ExpiredLeave ==
  ASSUME NEW items, NEW next, NEW time \in Nat, NEW later \in Nat, later = time + 1,
         Lying(items, next, time), NEW left,
         left = V!Kept(items, {i \in DOMAIN items : V!Stays(items[i], later)})
  PROVE  /\ Lying(left, next, later)
         /\ \A evs : Truthful(evs, items, next) => Truthful(evs, left, next)
<1>1. items \in Seq(GroundItem)
  BY DEF Lying
<1>2. PICK kept : kept = {i \in 1..Len(items) : V!Stays(items[i], later)}
  OBVIOUS
<1>3. kept \in SUBSET (1..Len(items))
  BY <1>2
<1>4. left = Retained(items, kept)
  <2>1. DOMAIN items = 1..Len(items)
    BY <1>1
  <2>2. left = V!Kept(items, kept)
    BY <1>2, <2>1
  <2>3. V!Kept(items, kept) = Retained(items, kept)
    BY Zenon DEF V!Kept, V!Cardinality, Retained, Cardinality
  <2> QED
    BY <2>2, <2>3
<1>5. KeepsInOrder(GroundItem, items, kept)
  BY <1>1, <1>3, KeptFacts, Zenon
<1>6. PICK nth :
        /\ left \in Seq(GroundItem)
        /\ nth \in [1..Len(left) -> kept]
        /\ \A k \in 1..Len(left) : left[k] = items[nth[k]]
        /\ \A k, l \in 1..Len(left) : k < l => nth[k] < nth[l]
  <2>1. PICK out, f : KeptAs(out, f, GroundItem, items, kept)
    BY <1>5, Zenon DEF KeepsInOrder
  <2>2. out = left
    BY <1>4, <2>1, Zenon DEF KeptAs
  <2>3. KeptAs(left, f, GroundItem, items, kept)
    BY <2>1, <2>2
  <2> QED
    BY <2>3, Zenon DEF KeptAs
<1>7. /\ \A k \in 1..Len(left) : nth[k] \in 1..Len(items) /\ left[k] = items[nth[k]]
      /\ \A k \in 1..Len(left) : V!Stays(left[k], later)
  BY <1>2, <1>6
<1>8. \A k \in 1..Len(left) : later - left[k].dropped_at < despawn_ticks
  <2> SUFFICES ASSUME NEW k \in 1..Len(left) PROVE later - left[k].dropped_at < despawn_ticks
    OBVIOUS
  <2>1. left[k] \in GroundItem
    BY <1>6
  <2>2. PICK d \in Nat : d = left[k].dropped_at
    BY <2>1 DEF GroundItem
  <2>3. d <= time
    BY <1>7, <2>2 DEF Lying
  <2>4. V!Since(later, d) = later - d
    BY <2>3 DEF V!Since
  <2>5. V!Since(later, d) < despawn_ticks
    BY <1>7, <2>2, EventAssumption DEF V!Stays
  <2> QED
    BY <2>2, <2>4, <2>5
<1>9. Thinned(left, items, nth)
  BY <1>6, <1>7 DEF Thinned
<1>10. Young(left, later)
  BY <1>8 DEF Young
<1>11. time <= later
  OBVIOUS
<1> QED
  BY <1>9, <1>10, <1>11, FewerLie

\* tick_periodic_events.
LEMMA TickKeepsEvents ==
  ASSUME EventInv, V!Tick
  PROVE  EventInv'
<1>a. PICK items, evs : items = ground_items /\ evs = current_events
  OBVIOUS
<1>1. PICK n \in Nat \ {0}, t \in Nat :
        n = next_drop_id /\ t = current_tick /\ items = ground_items /\ evs = current_events
  BY <1>a DEF EventInv
<1>2. Lying(items, n, t) /\ Truthful(evs, items, n)
  BY <1>1 DEF EventInv
<1>3. items \in Seq(GroundItem) /\ evs \in Seq(Happening) /\ Len(items) \in Nat /\ Len(evs) \in Nat
      /\ DOMAIN items = 1..Len(items)
  BY <1>2 DEF Lying, Truthful
<1>4. PICK later \in Nat : later = t + 1
  OBVIOUS
<1>b. PICK left : left = V!Kept(items, {i \in DOMAIN items : V!Stays(items[i], later)})
  OBVIOUS
<1>5. PICK chosen \in WeatherType \cup {weather} :
        /\ is_day' = IF V!Every(day_cycle_ticks, later) THEN ~is_day ELSE is_day
        /\ current_events' = evs \o V!Emitted(later, chosen)
        /\ left = V!Kept(items, {i \in DOMAIN items : V!Stays(items[i], later)})
        /\ ground_items' = left /\ next_drop_id' = n /\ current_tick' = later
  BY <1>1, <1>4, <1>b DEF V!Tick, V!TickPeriodicEvents
<1>10. Lying(left, n, later) /\ Truthful(evs, left, n)
  <2>1. /\ Lying(left, n, later)
        /\ \A es : Truthful(es, items, n) => Truthful(es, left, n)
    BY <1>2, <1>4, <1>5, ExpiredLeave
  <2> QED
    BY <1>2, <2>1
<1>11. PICK new : new = V!Emitted(later, chosen)
  OBVIOUS
<1>12. new \in Seq(Periodic) /\ Len(new) \in Nat
  <2>1. is_day \in BOOLEAN
    BY DEF EventInv
  <2>2. new \in Seq(Periodic)
    BY <1>4, <1>5, <1>11, <2>1, EmittedFacts
  <2> QED
    BY <2>2
<1>13. new \in Seq(Happening)
  <2>1. Periodic \subseteq Happening
    BY DEF Periodic, Happening
  <2>2. \A i \in 1..Len(new) : new[i] \in Happening
    BY <1>12, <2>1
  <2>3. new \in [1..Len(new) -> Happening]
    BY <1>12, <2>2
  <2> QED
    BY <1>12, <2>3, SeqIntro
<1>14. PICK evs2 : evs2 = evs \o new
  OBVIOUS
<1>15. /\ evs2 \in Seq(Happening) /\ Len(evs2) = Len(evs) + Len(new)
       /\ \A i \in 1..Len(evs) + Len(new) :
            evs2[i] = IF i <= Len(evs) THEN evs[i] ELSE new[i - Len(evs)]
  BY <1>3, <1>13, <1>14, ConcatProperties
<1>16. \A i \in 1..Len(evs2) :
         evs2[i].kind \in {"ItemDropped", "ItemPickedUp"} => i \in 1..Len(evs) /\ evs2[i] = evs[i]
  <2> SUFFICES ASSUME NEW i \in 1..Len(evs2), evs2[i].kind \in {"ItemDropped", "ItemPickedUp"}
               PROVE  i \in 1..Len(evs) /\ evs2[i] = evs[i]
    OBVIOUS
  <2>1. CASE i <= Len(evs)
    BY <1>3, <1>15, <2>1
  <2>2. CASE ~(i <= Len(evs))
    <3>1. i - Len(evs) \in 1..Len(new) /\ evs2[i] = new[i - Len(evs)]
      BY <1>3, <1>12, <1>15, <2>2
    <3>2. evs2[i] \in Periodic
      BY <1>12, <3>1
    <3> QED
      BY <3>2 DEF Periodic, PeriodicKind
  <2> QED
    BY <2>1, <2>2
<1>17. Truthful(evs2, left, n)
  <2> SUFFICES ASSUME NEW i \in 1..Len(evs2), evs2[i].kind = "ItemPickedUp"
               PROVE  /\ evs2[i].what \in Nat /\ evs2[i].what < n
                      /\ \A k \in 1..Len(left) : left[k].drop_id # evs2[i].what
                      /\ \A j \in 1..Len(evs2) : evs2[j].what = evs2[i].what =>
                           /\ evs2[j].kind = "ItemPickedUp" => j = i
                           /\ evs2[j].kind = "ItemDropped" => j < i
    BY <1>15 DEF Truthful
  <2>1. i \in 1..Len(evs) /\ evs2[i] = evs[i]
    BY <1>16
  <2>2. /\ evs[i].what \in Nat /\ evs[i].what < n
        /\ \A k \in 1..Len(left) : left[k].drop_id # evs[i].what
    BY <1>10, <2>1 DEF Truthful
  <2>3. ASSUME NEW j \in 1..Len(evs2), evs2[j].what = evs2[i].what
        PROVE  /\ evs2[j].kind = "ItemPickedUp" => j = i
               /\ evs2[j].kind = "ItemDropped" => j < i
    <3>1. CASE evs2[j].kind \in {"ItemDropped", "ItemPickedUp"}
      <4>1. j \in 1..Len(evs) /\ evs2[j] = evs[j]
        BY <1>16, <3>1
      <4> QED
        BY <1>10, <2>1, <2>3, <4>1 DEF Truthful
    <3>2. CASE evs2[j].kind \notin {"ItemDropped", "ItemPickedUp"}
      BY <3>2
    <3> QED
      BY <3>1, <3>2
  <2> QED
    BY <2>1, <2>2, <2>3
<1>18. is_day' \in BOOLEAN /\ (is_day' <=> (later \div day_cycle_ticks) % 2 = 0)
  <2>1. is_day \in BOOLEAN /\ (is_day <=> (t \div day_cycle_ticks) % 2 = 0)
    BY <1>1 DEF EventInv
  <2>2. day_cycle_ticks \in Nat \ {0}
    BY EventAssumption
  <2>3. V!Every(day_cycle_ticks, later) <=> (t + 1) % day_cycle_ticks = 0
    BY <1>4, <2>2 DEF V!Every
  <2>4. PICK q \in Nat : q = t \div day_cycle_ticks
    BY <2>2, DivStep
  <2>5. CASE V!Every(day_cycle_ticks, later)
    <3>1. later \div day_cycle_ticks = q + 1
      BY <1>4, <2>2, <2>3, <2>4, <2>5, DivStep
    <3>2. is_day' = ~is_day
      BY <1>5, <2>5
    <3>3. (q + 1) % 2 = 0 <=> ~(q % 2 = 0)
      BY Parity
    <3> QED
      BY <2>1, <2>4, <3>1, <3>2, <3>3
  <2>6. CASE ~V!Every(day_cycle_ticks, later)
    <3>1. later \div day_cycle_ticks = q
      BY <1>4, <2>2, <2>3, <2>4, <2>6, DivStep
    <3>2. is_day' = is_day
      BY <1>5, <2>6
    <3> QED
      BY <2>1, <2>4, <3>1, <3>2
  <2> QED
    BY <2>5, <2>6
<1>19. current_events' = evs2 /\ next_drop_id' = n /\ current_tick' = later
  BY <1>5, <1>11, <1>14
<1> QED
  BY <1>4, <1>5, <1>10, <1>17, <1>18, <1>19 DEF EventInv

\* All calls of the event manager.
LEMMA EventInvKept == EventInv /\ V!Next => EventInv'
<1> SUFFICES ASSUME EventInv, V!Next PROVE EventInv'
  OBVIOUS
<1>1. ASSUME V!DrainEvents PROVE EventInv'
  <2>1. /\ current_events' = <<>> /\ current_tick' = current_tick /\ ground_items' = ground_items
        /\ next_drop_id' = next_drop_id /\ is_day' = is_day
    BY <1>1 DEF V!DrainEvents
  <2>2. \A items, n : Truthful(<<>>, items, n)
    BY DEF Truthful
  <2> QED
    BY <2>1, <2>2 DEF EventInv
<1> QED
  BY <1>1, DropKeepsEvents, PickupKeepsEvents, TickKeepsEvents DEF V!Next

\* The instance of WorldEvents counts as this module does.
LEMMA EventsCount == \A set : V!Cardinality(set) = Cardinality(set)
BY Zenon DEF V!Cardinality, Cardinality

\* For any cycle, despawn time, places and reach, and any interleaving of drops,
\* pickups, ticks and drains: the buffer tells the truth about the items, those
\* on the ground are young enough, and day and night follow the clock.
THEOREM EventsAreTrue == MCSpec => []EventsTellTheWorld
<1>1. MCInit => (part = "events" => EventInv)
  <2> SUFFICES ASSUME MCInit PROVE EventInv
    OBVIOUS
  <2>1. /\ current_tick = 0 /\ current_events = <<>> /\ ground_items = <<>>
        /\ next_drop_id = 1 /\ is_day = TRUE
    BY DEF MCInit, W!Init, W!E!Init
  <2>2. \A n : Truthful(<<>>, <<>>, n) /\ \A t : Lying(<<>>, n, t)
    BY DEF Truthful, Lying
  <2>3. (0 \div day_cycle_ticks) % 2 = 0
    <3>1. PICK d \in Nat \ {0} : d = day_cycle_ticks
      BY EventAssumption
    <3>2. 0 \div d = 0
      OBVIOUS
    <3> QED
      BY <3>1, <3>2
  <2> QED
    BY <2>1, <2>2, <2>3 DEF EventInv
<1>2. (part = "events" => EventInv) /\ [MCNext]_allvars => (part = "events" => EventInv)'
  <2> SUFFICES ASSUME part = "events" => EventInv, [MCNext]_allvars, part' = "events" PROVE EventInv'
    OBVIOUS
  <2>1. CASE Happen
    BY <2>1, EventInvKept DEF Happen
  <2>2. CASE UNCHANGED <<part, eventVars>>
    BY <2>2 DEF eventVars, EventInv
  <2> QED
    BY <2>1, <2>2 DEF MCNext, Trade, Shop, Craft, Quest, Learn, Live, Touch, Show, Play,
                      Sparkle, allvars, sceneVars
<1>3. (part = "events" => EventInv) => EventsTellTheWorld
  <2> SUFFICES ASSUME EventInv PROVE V!EventsTellTheWorld
    BY DEF EventsTellTheWorld
  <2>1. /\ Lying(ground_items, next_drop_id, current_tick)
        /\ Truthful(current_events, ground_items, next_drop_id)
        /\ DOMAIN ground_items = 1..Len(ground_items) /\ Len(ground_items) \in Nat
        /\ DOMAIN current_events = 1..Len(current_events)
    BY DEF EventInv, Lying, Truthful
  <2>2. PICK lying : lying = {ground_items[i].drop_id : i \in DOMAIN ground_items}
    OBVIOUS
  <2>3. V!Cardinality(lying) = Len(ground_items)
    <3>1. PICK n \in Nat : n = Len(ground_items)
      BY <2>1
    <3>2. PICK ids : ids = [i \in 1..n |-> ground_items[i].drop_id]
      OBVIOUS
    <3>3. \A i \in 1..n : ground_items[i].drop_id \in Nat
      <4> SUFFICES ASSUME NEW i \in 1..n PROVE ground_items[i].drop_id \in Nat
        OBVIOUS
      <4>1. ground_items[i] \in GroundItem
        BY <2>1, <3>1 DEF Lying
      <4> QED
        BY <4>1 DEF GroundItem
    <3>4. \A i, j \in 1..n : ids[i] = ids[j] => i = j
      <4> SUFFICES ASSUME NEW i \in 1..n, NEW j \in 1..n, ids[i] = ids[j], i # j PROVE FALSE
        OBVIOUS
      <4>1. i < j \/ j < i
        OBVIOUS
      <4>2. ids[i] < ids[j] \/ ids[j] < ids[i]
        BY <2>1, <3>1, <3>2, <4>1 DEF Lying
      <4>3. ids[i] \in Nat
        BY <3>2, <3>3
      <4> QED
        BY <4>2, <4>3
    <3>5. ids \in Bijection(1..n, lying)
      <4>1. ids \in [1..n -> lying]
        BY <2>1, <2>2, <3>1, <3>2
      <4>2. \A x \in lying : \E i \in 1..n : ids[i] = x
        BY <2>1, <2>2, <3>1, <3>2
      <4> QED
        BY <3>4, <4>1, <4>2, Fun_IsBij
    <3>6. Cardinality(lying) = n
      <4>1. IsFiniteSet(1..n) /\ Cardinality(1..n) = n
        BY IntervalCard
      <4>2. ExistsBijection(1..n, lying)
        BY <3>5 DEF ExistsBijection
      <4> QED
        BY <4>1, <4>2, FS_Bijection
    <3> QED
      BY <3>1, <3>6, EventsCount
  <2>4. ASSUME NEW i \in DOMAIN current_events, current_events[i].kind = "ItemPickedUp"
        PROVE  /\ current_events[i].what < next_drop_id /\ current_events[i].what \notin lying
               /\ \A j \in DOMAIN current_events \ {i} :
                    /\ current_events[j] # current_events[i]
                    /\ current_events[j] = [kind |-> "ItemDropped", what |-> current_events[i].what]
                         => j < i
    <3>1. current_events[i].what < next_drop_id /\ current_events[i].what \notin lying
      BY <2>1, <2>2, <2>4 DEF Truthful
    <3>2. \A j \in DOMAIN current_events : current_events[j].what = current_events[i].what =>
            /\ current_events[j].kind = "ItemPickedUp" => j = i
            /\ current_events[j].kind = "ItemDropped" => j < i
      BY <2>1, <2>4 DEF Truthful
    <3>3. \A w : [kind |-> "ItemDropped", what |-> w].kind = "ItemDropped"
                  /\ [kind |-> "ItemDropped", what |-> w].what = w
      OBVIOUS
    <3> QED
      BY <2>4, <3>1, <3>2, <3>3
  <2>5. \A i \in DOMAIN ground_items : current_tick - ground_items[i].dropped_at < despawn_ticks
    BY <2>1 DEF Lying
  <2>6. is_day <=> (current_tick \div day_cycle_ticks) % 2 = 0
    BY DEF EventInv
  <2> QED
    BY <2>2, <2>3, <2>4, <2>5, <2>6 DEF V!EventsTellTheWorld
<1> QED
  BY <1>1, <1>2, <1>3, PTL DEF MCSpec
-----------------------------------------------------------------------------
(* Sums over finite sets.  They are recursive functions on the subsets of  *)
(* the set; facts about all of them are proved with a subset of least      *)
(* cardinality that would contradict them.                                 *)

Pick(s) == CHOOSE x \in s : TRUE

\* g is the sum of the weights w, for the sets in D.
Sums(g, w, D) == g = [s \in D |-> IF s = {} THEN 0 ELSE w[Pick(s)] + g[s \ {Pick(s)}]]

SumsOver(g, w, all) == Sums(g, w, SUBSET all)

Total(w, s, n) == \E g : SumsOver(g, w, s) /\ n = g[s]

Weighs(w, s) == \A x \in s : w[x] \in Nat
Grown(s, x, both) == IsFiniteSet(s) /\ x \notin s /\ both = s \cup {x}
Agree(w, v, s) == \A x \in s : w[x] = v[x]

Upto(all, n) == {s \in SUBSET all : Cardinality(s) <= n}

\* Subsets of a finite set are finite, and smaller without one of their elements.
LEMMA Smaller ==
  ASSUME NEW all, IsFiniteSet(all), NEW s \in SUBSET all
  PROVE  /\ IsFiniteSet(s) /\ Cardinality(s) \in Nat
         /\ Cardinality(s) <= Cardinality(all) /\ Cardinality(all) \in Nat
         /\ \A x \in s : Cardinality(s \ {x}) = Cardinality(s) - 1
         /\ Cardinality(s) = 0 <=> s = {}
<1>1. IsFiniteSet(s) /\ Cardinality(s) <= Cardinality(all)
  BY FS_Subset
<1>2. Cardinality(s) \in Nat /\ Cardinality(all) \in Nat
  BY <1>1, FS_CardinalityType
<1>3. \A x \in s : Cardinality(s \ {x}) = Cardinality(s) - 1
  BY <1>1, FS_RemoveElement
<1>4. Cardinality(s) = 0 <=> s = {}
  BY <1>1, FS_EmptySet
<1> QED
  BY <1>1, <1>2, <1>3, <1>4

\* Of the subsets with a property there is a smallest.
LEMMA SmallestSet ==
  ASSUME NEW all, IsFiniteSet(all), NEW some \in SUBSET SUBSET all, some # {}
  PROVE  \E s \in some : \A t \in some : Cardinality(s) <= Cardinality(t)
<1>1. \A s \in some : Cardinality(s) \in Nat
  BY Smaller
<1>2. PICK sizes : sizes = {Cardinality(s) : s \in some}
  OBVIOUS
<1>3. sizes \in SUBSET Nat /\ sizes # {}
  BY <1>1, <1>2
<1>4. PICK n \in sizes : \A m \in sizes : n <= m
  BY <1>3, LeastElement
<1>5. PICK s \in some : n = Cardinality(s)
  BY <1>2
<1> QED
  BY <1>2, <1>4, <1>5

\* A function that sums up to a size can be extended by one.
LEMMA SumsExtend ==
  ASSUME NEW all, IsFiniteSet(all), NEW w, NEW n \in Nat, NEW g, Sums(g, w, Upto(all, n))
  PROVE  \E h : Sums(h, w, Upto(all, n + 1))
<1>1. PICK h : h = [s \in Upto(all, n + 1) |->
                     IF s = {} THEN 0 ELSE w[Pick(s)] + g[s \ {Pick(s)}]]
  OBVIOUS
<1>2. \A s \in Upto(all, n) : s \in Upto(all, n + 1) /\ h[s] = g[s]
  <2> SUFFICES ASSUME NEW s \in Upto(all, n) PROVE s \in Upto(all, n + 1) /\ h[s] = g[s]
    OBVIOUS
  <2>1. s \in SUBSET all /\ Cardinality(s) <= n
    BY DEF Upto
  <2>2. Cardinality(s) \in Nat
    BY <2>1, Smaller
  <2>3. s \in Upto(all, n + 1)
    BY <2>1, <2>2 DEF Upto
  <2>4. g[s] = IF s = {} THEN 0 ELSE w[Pick(s)] + g[s \ {Pick(s)}]
    BY DEF Sums
  <2> QED
    BY <1>1, <2>3, <2>4
<1>3. \A s \in Upto(all, n + 1) : s # {} => s \ {Pick(s)} \in Upto(all, n)
  <2> SUFFICES ASSUME NEW s \in Upto(all, n + 1), s # {} PROVE s \ {Pick(s)} \in Upto(all, n)
    OBVIOUS
  <2>1. s \in SUBSET all /\ Cardinality(s) <= n + 1
    BY DEF Upto
  <2>2. Pick(s) \in s
    BY DEF Pick
  <2>3. Cardinality(s) \in Nat /\ Cardinality(s \ {Pick(s)}) = Cardinality(s) - 1
    BY <2>1, <2>2, Smaller
  <2> QED
    BY <2>1, <2>3 DEF Upto
<1>4. \A s \in Upto(all, n + 1) : h[s] = IF s = {} THEN 0 ELSE w[Pick(s)] + h[s \ {Pick(s)}]
  BY <1>1, <1>2, <1>3
<1>5. Sums(h, w, Upto(all, n + 1))
  BY <1>1, <1>4 DEF Sums
<1> QED
  BY <1>5

\* There is a function that sums: if the sizes for which there is one had an end,
\* the first size without one could be reached from the one before.
LEMMA SumsExist ==
  ASSUME NEW all, IsFiniteSet(all), NEW w
  PROVE  \E g : SumsOver(g, w, all)
<1>1. \A n \in Nat : \E g : Sums(g, w, Upto(all, n))
  <2>1. PICK none : none = {n \in Nat : ~\E g : Sums(g, w, Upto(all, n))}
    OBVIOUS
  <2>2. none = {}
    <3> SUFFICES ASSUME none # {} PROVE FALSE
      OBVIOUS
    <3>1. none \in SUBSET Nat
      BY <2>1
    <3>2. PICK n \in none : \A m \in none : n <= m
      BY <3>1, LeastElement
    <3>3. n \in Nat /\ ~\E g : Sums(g, w, Upto(all, n))
      BY <2>1, <3>2
    <3>4. CASE n = 0
      <4>1. PICK g : g = [s \in Upto(all, 0) |-> 0]
        OBVIOUS
      <4>2. \A s \in Upto(all, 0) : s = {}
        <5> SUFFICES ASSUME NEW s \in Upto(all, 0) PROVE s = {}
          OBVIOUS
        <5>1. s \in SUBSET all /\ Cardinality(s) <= 0
          BY DEF Upto
        <5> QED
          BY <5>1, Smaller
      <4>3. Sums(g, w, Upto(all, 0))
        BY <4>1, <4>2 DEF Sums
      <4> QED
        BY <3>3, <3>4, <4>3
    <3>5. CASE n # 0
      <4>1. n - 1 \in Nat /\ n - 1 < n /\ (n - 1) + 1 = n
        BY <3>3, <3>5
      <4>2. n - 1 \notin none
        BY <3>2, <3>3, <4>1
      <4>3. PICK m \in Nat : m = n - 1
        BY <4>1
      <4>4. PICK g : Sums(g, w, Upto(all, m))
        BY <2>1, <4>2, <4>3
      <4>5. \E h : Sums(h, w, Upto(all, m + 1))
        BY <4>4, SumsExtend
      <4> QED
        BY <3>3, <4>1, <4>3, <4>5
    <3> QED
      BY <3>4, <3>5
  <2> QED
    BY <2>1, <2>2
<1>2. Upto(all, Cardinality(all)) = SUBSET all
  <2>1. \A s \in SUBSET all : Cardinality(s) <= Cardinality(all)
    BY Smaller
  <2> QED
    BY <2>1 DEF Upto
<1>3. Cardinality(all) \in Nat
  BY FS_CardinalityType
<1> QED
  BY <1>1, <1>2, <1>3 DEF SumsOver

\* The sum over no element, and over some.
LEMMA SumStep ==
  ASSUME NEW all, NEW w, NEW g, SumsOver(g, w, all)
  PROVE  /\ g[{}] = 0
         /\ \A s \in SUBSET all : s # {} =>
              Pick(s) \in s /\ g[s] = w[Pick(s)] + g[s \ {Pick(s)}]
<1>1. \A s \in SUBSET all : g[s] = IF s = {} THEN 0 ELSE w[Pick(s)] + g[s \ {Pick(s)}]
  BY DEF Sums, SumsOver
<1>2. \A s \in SUBSET all : s # {} => Pick(s) \in s
  BY DEF Pick
<1> QED
  BY <1>1, <1>2

\* Sums of numbers are numbers.
LEMMA SumTyped ==
  ASSUME NEW all, IsFiniteSet(all), NEW w, Weighs(w, all),
         NEW g, SumsOver(g, w, all)
  PROVE  \A s \in SUBSET all : g[s] \in Nat
<1>1. PICK bad : bad = {s \in SUBSET all : g[s] \notin Nat}
  OBVIOUS
<1>2. bad = {}
  <2> SUFFICES ASSUME bad # {} PROVE FALSE
    OBVIOUS
  <2>1. bad \in SUBSET SUBSET all
    BY <1>1
  <2>2. PICK s \in bad : \A t \in bad : Cardinality(s) <= Cardinality(t)
    BY <2>1, SmallestSet
  <2>3. s \in SUBSET all /\ g[s] \notin Nat
    BY <1>1
  <2>4. s # {}
    <3>1. g[{}] \in Nat
      BY SumStep
    <3> QED
      BY <2>3, <3>1, Zenon
  <2>5. Pick(s) \in s /\ g[s] = w[Pick(s)] + g[s \ {Pick(s)}]
    BY <2>3, <2>4, SumStep
  <2>6. s \ {Pick(s)} \notin bad
    <3>1. Cardinality(s) \in Nat /\ Cardinality(s \ {Pick(s)}) = Cardinality(s) - 1
      BY <2>3, <2>5, Smaller
    <3> QED
      BY <2>2, <3>1
  <2>7. g[s \ {Pick(s)}] \in Nat
    BY <1>1, <2>3, <2>6
  <2>8. w[Pick(s)] \in Nat
    BY <2>3, <2>5 DEF Weighs
  <2> QED
    BY <2>3, <2>5, <2>7, <2>8
<1> QED
  BY <1>1, <1>2

\* Any element can be taken out of a sum first.
LEMMA SumTakesOut ==
  ASSUME NEW all, IsFiniteSet(all), NEW w, Weighs(w, all),
         NEW g, SumsOver(g, w, all)
  PROVE  \A s \in SUBSET all : \A x \in s : g[s] = w[x] + g[s \ {x}]
<1>2. \A s \in SUBSET all : g[s] \in Nat
  BY SumTyped
<1>3. PICK bad : bad = {s \in SUBSET all : \E x \in s : g[s] # w[x] + g[s \ {x}]}
  OBVIOUS
<1>4. bad = {}
  <2> SUFFICES ASSUME bad # {} PROVE FALSE
    OBVIOUS
  <2>1. bad \in SUBSET SUBSET all
    BY <1>3
  <2>2. PICK s \in bad : \A t \in bad : Cardinality(s) <= Cardinality(t)
    BY <2>1, SmallestSet
  <2>3. s \in SUBSET all
    BY <1>3
  <2>4. PICK x \in s : g[s] # w[x] + g[s \ {x}]
    BY <1>3
  <2>5. PICK p : p = Pick(s)
    OBVIOUS
  <2>6. p \in s /\ g[s] = w[p] + g[s \ {p}]
    <3>1. s \in SUBSET all /\ s # {}
      BY <2>3, <2>4
    <3>2. Pick(s) \in s /\ g[s] = w[Pick(s)] + g[s \ {Pick(s)}]
      BY <3>1, SumStep
    <3> QED
      BY <2>5, <3>2
  <2>7. x # p
    BY <2>4, <2>6
  <2>8. Cardinality(s) \in Nat /\ \A y \in s : Cardinality(s \ {y}) = Cardinality(s) - 1
    BY <2>3, Smaller
  <2>9. s \ {p} \notin bad /\ s \ {x} \notin bad
    BY <2>2, <2>6, <2>8
  <2>10. g[s \ {p}] = w[x] + g[(s \ {p}) \ {x}]
    BY <1>3, <2>3, <2>7, <2>9
  <2>11. g[s \ {x}] = w[p] + g[(s \ {x}) \ {p}]
    BY <1>3, <2>3, <2>6, <2>7, <2>9
  <2>12. (s \ {p}) \ {x} = (s \ {x}) \ {p} /\ (s \ {p}) \ {x} \in SUBSET all
    BY <2>3
  <2>13. PICK r \in Nat : r = g[(s \ {p}) \ {x}]
    BY <1>2, <2>12
  <2>14. PICK u \in Nat, v \in Nat : u = w[x] /\ v = w[p]
    BY <2>3, <2>6 DEF Weighs
  <2>15. g[s] = v + (u + r) /\ g[s \ {x}] = v + r
    BY <2>6, <2>10, <2>11, <2>12, <2>13, <2>14
  <2>16. v + (u + r) = u + (v + r)
    BY <2>13, <2>14
  <2> QED
    BY <2>4, <2>14, <2>15, <2>16
<1> QED
  BY <1>3, <1>4

\* Weights that agree on a set have one sum over it, whatever else they sum.
LEMMA SumsAgree ==
  ASSUME NEW all, IsFiniteSet(all), NEW more, NEW w, NEW v, NEW g, NEW h,
         SumsOver(g, w, all), SumsOver(h, v, more),
         all \subseteq more, Agree(w, v, all)
  PROVE  g[all] = h[all]
<1>a. \A s \in SUBSET more : s # {} =>
        Pick(s) \in s /\ h[s] = v[Pick(s)] + h[s \ {Pick(s)}]
  <2>1. SumsOver(h, v, more)
    OBVIOUS
  <2>2. /\ h[{}] = 0
        /\ \A s \in SUBSET more : s # {} =>
             Pick(s) \in s /\ h[s] = v[Pick(s)] + h[s \ {Pick(s)}]
    BY <2>1, SumStep
  <2> QED
    BY <2>2
<1>1. PICK bad : bad = {s \in SUBSET all : g[s] # h[s]}
  OBVIOUS
<1>2. bad = {}
  <2> SUFFICES ASSUME bad # {} PROVE FALSE
    OBVIOUS
  <2>1. bad \in SUBSET SUBSET all
    BY <1>1
  <2>2. PICK s \in bad : \A t \in bad : Cardinality(s) <= Cardinality(t)
    BY <2>1, SmallestSet
  <2>3. s \in SUBSET all /\ s \in SUBSET more /\ g[s] # h[s]
    BY <1>1
  <2>4. s # {}
    <3>1. g[{}] = 0 /\ h[{}] = 0
      BY SumStep
    <3> QED
      BY <2>3, <3>1
  <2>5. PICK p : p = Pick(s)
    OBVIOUS
  <2>6. p \in s /\ g[s] = w[p] + g[s \ {p}]
    <3>1. s \in SUBSET all /\ s # {}
      BY <2>3, <2>4
    <3>2. Pick(s) \in s /\ g[s] = w[Pick(s)] + g[s \ {Pick(s)}]
      BY <3>1, SumStep
    <3> QED
      BY <2>5, <3>2
  <2>7. h[s] = v[p] + h[s \ {p}]
    <3>1. s \in SUBSET more /\ s # {}
      BY <2>3, <2>4
    <3>2. h[s] = v[Pick(s)] + h[s \ {Pick(s)}]
      BY <1>a, <3>1
    <3> QED
      BY <2>5, <3>2
  <2>8. s \ {p} \notin bad
    <3>1. Cardinality(s) \in Nat /\ Cardinality(s \ {p}) = Cardinality(s) - 1
      BY <2>3, <2>6, Smaller
    <3> QED
      BY <2>2, <3>1
  <2>9. g[s \ {p}] = h[s \ {p}]
    BY <1>1, <2>3, <2>8
  <2> QED
    BY <2>3, <2>6, <2>7, <2>9 DEF Agree
<1> QED
  BY <1>1, <1>2

\* One element more adds its weight to the total.
LEMMA TotalAdds ==
  ASSUME NEW s, NEW x, NEW both, Grown(s, x, both), NEW w, NEW v, NEW n, NEW m,
         Total(w, s, n), Total(v, both, m), Agree(w, v, s), Weighs(v, both)
  PROVE  n \in Nat /\ m = v[x] + n
<1>1. PICK g : SumsOver(g, w, s) /\ n = g[s]
  BY DEF Total
<1>2. PICK h : SumsOver(h, v, both) /\ m = h[both]
  BY DEF Total
<1>3. IsFiniteSet(s) /\ x \notin s /\ both = s \cup {x}
  BY DEF Grown
<1>4. IsFiniteSet(both)
  BY <1>3, FS_AddElement
<1>5. s \in SUBSET both /\ both \in SUBSET both /\ x \in both /\ both \ {x} = s
  BY <1>3
<1>6. m = v[x] + h[s]
  <2>1. h[both] = v[x] + h[both \ {x}]
    BY <1>2, <1>4, <1>5, SumTakesOut
  <2> QED
    BY <1>2, <1>5, <2>1
<1>7. g[s] = h[s]
  <2>1. s \subseteq both
    BY <1>5
  <2> QED
    BY <1>1, <1>2, <1>3, <2>1, SumsAgree
<1>8. h[s] \in Nat
  BY <1>2, <1>4, <1>5, SumTyped
<1> QED
  BY <1>1, <1>6, <1>7, <1>8

\* There is one total over a finite set.
LEMMA TotalExists ==
  ASSUME NEW s, IsFiniteSet(s), NEW w
  PROVE  \E n : Total(w, s, n)
BY SumsExist DEF Total

\* It depends on the weights of its elements only.
LEMMA TotalUnique ==
  ASSUME NEW s, IsFiniteSet(s), NEW w, NEW v, Agree(w, v, s),
         NEW n, NEW m, Total(w, s, n), Total(v, s, m)
  PROVE  n = m
<1>1. PICK g : SumsOver(g, w, s) /\ n = g[s]
  BY DEF Total
<1>2. PICK h : SumsOver(h, v, s) /\ m = h[s]
  BY DEF Total
<1>3. s \subseteq s
  OBVIOUS
<1>4. g[s] = h[s]
  BY <1>1, <1>2, <1>3, SumsAgree
<1> QED
  BY <1>1, <1>2, <1>4
-----------------------------------------------------------------------------
(* Skills                                                                  *)

Earned(levels) == [l \in levels |-> K!SkillPointsPerLevel(l)]
Paid(levels) == [i \in DOMAIN levels |-> levels[i] * K!Skill(i).cost_per_level]

\* The points earned and those paid are totals, and what was asked for holds.
SkillInv ==
  /\ player_level \in Nat \ {0} /\ available_points \in Nat
  /\ DOMAIN skills \subseteq K!Registered
  /\ \A i \in DOMAIN skills : skills[i] \in Nat
  /\ Total(Earned(2..player_level), 2..player_level, total_points_earned)
  /\ \E paid \in Nat : /\ Total(Paid(skills), DOMAIN skills, paid)
                       /\ available_points + paid = total_points_earned
  /\ \A i \in DOMAIN skills :
       /\ player_level >= K!Skill(i).required_level
       /\ \A pre \in K!Skill(i).prerequisites : K!SkillLevel(pre[1]) >= pre[2]

\* What the trees register.
LEMMA SkillTyped ==
  /\ IsFiniteSet(K!Registered)
  /\ \A i \in K!Registered :
       /\ K!Skill(i).cost_per_level \in Nat /\ K!Skill(i).required_level \in Nat
       /\ \A pre \in K!Skill(i).prerequisites : pre[2] \in Nat
<1>1. K!Registered = 1..4 \cup {10, 11, 20, 30, 31, 32}
  BY DEF K!Registered, K!CombatTree, K!OtherTrees
<1>2. IsFiniteSet(K!Registered)
  <2>1. IsFiniteSet(1..32)
    BY IntervalCard
  <2>2. K!Registered \in SUBSET (1..32)
    BY <1>1
  <2> QED
    BY <2>1, <2>2, FS_Subset
<1>3. \A i \in 1..4 : K!Skill(i) = K!CombatTree[i]
  BY DEF K!Skill, K!CombatTree
<1>4. \A i \in {10, 11, 20, 30, 31, 32} : K!Skill(i) = K!OtherTrees[i]
  BY DEF K!Skill, K!CombatTree
<1>5. ASSUME NEW i \in 1..4
      PROVE  /\ K!CombatTree[i].cost_per_level \in Nat /\ K!CombatTree[i].required_level \in Nat
             /\ \A pre \in K!CombatTree[i].prerequisites : pre[2] \in Nat
  <2>1. i = 1 \/ i = 2 \/ i = 3 \/ i = 4
    OBVIOUS
  <2>2. /\ K!CombatTree[1] = K!SkillDef(10, 1, 1, {}) /\ K!CombatTree[2] = K!SkillDef(10, 1, 1, {})
        /\ K!CombatTree[3] = K!SkillDef(5, 2, 3, {<<1, 3>>})
        /\ K!CombatTree[4] = K!SkillDef(5, 2, 5, {<<3, 2>>})
    BY DEF K!CombatTree
  <2> QED
    BY <2>1, <2>2 DEF K!SkillDef
<1>6. ASSUME NEW i \in {10, 11, 20, 30, 31, 32}
      PROVE  /\ K!OtherTrees[i].cost_per_level \in Nat /\ K!OtherTrees[i].required_level \in Nat
             /\ \A pre \in K!OtherTrees[i].prerequisites : pre[2] \in Nat
  <2>1. /\ K!OtherTrees[10] = K!SkillDef(10, 1, 1, {})
        /\ K!OtherTrees[11] = K!SkillDef(5, 2, 5, {<<10, 3>>})
        /\ K!OtherTrees[20] = K!SkillDef(5, 2, 2, {})
        /\ K!OtherTrees[30] = K!SkillDef(10, 1, 1, {})
        /\ K!OtherTrees[31] = K!SkillDef(5, 2, 3, {<<30, 3>>})
        /\ K!OtherTrees[32] = K!SkillDef(5, 1, 2, {})
    BY DEF K!OtherTrees
  <2> QED
    BY <2>1 DEF K!SkillDef
<1> QED
  BY <1>1, <1>2, <1>3, <1>4, <1>5, <1>6

\* The sum of the points over a set of levels is their total.
LEMMA EarnedIsTotal ==
  ASSUME NEW levels, IsFiniteSet(levels)
  PROVE  Total(Earned(levels), levels, K!MapThenSumSet(K!SkillPointsPerLevel, levels))
<1>1. PICK f : f = CHOOSE g : g = [s \in SUBSET levels |->
        IF s = {} THEN 0 ELSE K!SkillPointsPerLevel(Pick(s)) + g[s \ {Pick(s)}]]
  OBVIOUS
<1>2. K!MapThenSumSet(K!SkillPointsPerLevel, levels) = f[levels]
  BY <1>1 DEF K!MapThenSumSet, K!MapThenFoldSet, Pick
<1>3. \A g : SumsOver(g, Earned(levels), levels)
        <=> g = [s \in SUBSET levels |->
                   IF s = {} THEN 0 ELSE K!SkillPointsPerLevel(Pick(s)) + g[s \ {Pick(s)}]]
  <2> SUFFICES ASSUME NEW g
               PROVE  [s \in SUBSET levels |->
                         IF s = {} THEN 0 ELSE Earned(levels)[Pick(s)] + g[s \ {Pick(s)}]]
                      = [s \in SUBSET levels |->
                         IF s = {} THEN 0 ELSE K!SkillPointsPerLevel(Pick(s)) + g[s \ {Pick(s)}]]
    BY DEF SumsOver, Sums
  <2>1. \A s \in SUBSET levels : s # {} => Pick(s) \in levels
    BY DEF Pick
  <2> QED
    BY <2>1 DEF Earned
<1>4. PICK g : SumsOver(g, Earned(levels), levels)
  BY SumsExist
<1>5. f = [s \in SUBSET levels |->
             IF s = {} THEN 0 ELSE K!SkillPointsPerLevel(Pick(s)) + f[s \ {Pick(s)}]]
  BY <1>1, <1>3, <1>4
<1>6. SumsOver(f, Earned(levels), levels)
  BY <1>3, <1>5
<1> QED
  BY <1>2, <1>6 DEF Total

\* The sum of what the levels of the skills cost is their total.
LEMMA PaidIsTotal ==
  ASSUME NEW levels, IsFiniteSet(DOMAIN levels)
  PROVE  Total(Paid(levels), DOMAIN levels,
               K!MapThenSumSet(LAMBDA i : levels[i] * K!Skill(i).cost_per_level, DOMAIN levels))
<1>1. PICK f : f = CHOOSE g : g = [s \in SUBSET DOMAIN levels |->
        IF s = {} THEN 0
        ELSE levels[Pick(s)] * K!Skill(Pick(s)).cost_per_level + g[s \ {Pick(s)}]]
  OBVIOUS
<1>2. K!MapThenSumSet(LAMBDA i : levels[i] * K!Skill(i).cost_per_level, DOMAIN levels)
        = f[DOMAIN levels]
  BY <1>1 DEF K!MapThenSumSet, K!MapThenFoldSet, Pick
<1>3. \A g : SumsOver(g, Paid(levels), DOMAIN levels)
        <=> g = [s \in SUBSET DOMAIN levels |->
                   IF s = {} THEN 0
                   ELSE levels[Pick(s)] * K!Skill(Pick(s)).cost_per_level + g[s \ {Pick(s)}]]
  <2> SUFFICES ASSUME NEW g
               PROVE  [s \in SUBSET DOMAIN levels |->
                         IF s = {} THEN 0 ELSE Paid(levels)[Pick(s)] + g[s \ {Pick(s)}]]
                      = [s \in SUBSET DOMAIN levels |->
                         IF s = {} THEN 0
                         ELSE levels[Pick(s)] * K!Skill(Pick(s)).cost_per_level + g[s \ {Pick(s)}]]
    BY DEF SumsOver, Sums
  <2>1. \A s \in SUBSET DOMAIN levels : s # {} => Pick(s) \in DOMAIN levels
    BY DEF Pick
  <2> QED
    BY <2>1 DEF Paid
<1>4. PICK g : SumsOver(g, Paid(levels), DOMAIN levels)
  BY SumsExist
<1>5. f = [s \in SUBSET DOMAIN levels |->
             IF s = {} THEN 0
             ELSE levels[Pick(s)] * K!Skill(Pick(s)).cost_per_level + f[s \ {Pick(s)}]]
  BY <1>1, <1>3, <1>4
<1>6. SumsOver(f, Paid(levels), DOMAIN levels)
  BY <1>3, <1>5
<1> QED
  BY <1>2, <1>6 DEF Total

\* award_level_up_points.
LEMMA AwardKeepsSkills ==
  ASSUME SkillInv, K!AwardLevelUpPoints
  PROVE  SkillInv'
<1>1. PICK l \in Nat \ {0}, a \in Nat : l = player_level /\ a = available_points
  BY DEF SkillInv
<1>2. PICK next : next = l + 1
  OBVIOUS
<1>3. next \in Nat \ {0} /\ next > l
  BY <1>2
<1>4. PICK points : points = K!SkillPointsPerLevel(next)
  OBVIOUS
<1>5. points \in Nat /\ \A n : K!SkillPointsPerLevel(n) \in Nat
  BY <1>4 DEF K!SkillPointsPerLevel
<1>6. /\ player_level' = next /\ available_points' = a + points
      /\ total_points_earned' = total_points_earned + points /\ skills' = skills
  BY <1>1, <1>2, <1>4 DEF K!AwardLevelUpPoints
<1>7. PICK before : before = 2..l
  OBVIOUS
<1>8. IsFiniteSet(before) /\ next \notin before
  <2>1. IsFiniteSet(1..l)
    BY IntervalCard
  <2>2. before \in SUBSET (1..l)
    BY <1>7
  <2>3. IsFiniteSet(before)
    BY <2>1, <2>2, FS_Subset
  <2> QED
    BY <1>3, <1>7, <2>3
<1>9. 2..next = before \cup {next}
  BY <1>2, <1>7
<1>10. PICK earned : Total(Earned(2..next), before \cup {next}, earned)
  <2>1. IsFiniteSet(before \cup {next})
    BY <1>8, FS_AddElement
  <2> QED
    BY <2>1, TotalExists
<1>11. Total(Earned(before), before, total_points_earned)
  BY <1>1, <1>7 DEF SkillInv
<1>12. Agree(Earned(before), Earned(2..next), before)
  BY <1>9 DEF Agree, Earned
<1>13. Weighs(Earned(2..next), before \cup {next})
  BY <1>5, <1>9 DEF Weighs, Earned
<1>14. total_points_earned \in Nat /\ earned = Earned(2..next)[next] + total_points_earned
  <2>1. Grown(before, next, before \cup {next})
    BY <1>8 DEF Grown
  <2> QED
    BY <1>10, <1>11, <1>12, <1>13, <2>1, TotalAdds
<1>15. Earned(2..next)[next] = points
  BY <1>4, <1>9 DEF Earned
<1>16. PICK paid \in Nat :
         Total(Paid(skills), DOMAIN skills, paid) /\ a + paid = total_points_earned
  BY <1>1 DEF SkillInv
<1>17. total_points_earned' = earned /\ total_points_earned' = (a + points) + paid
       /\ a + points \in Nat
  BY <1>5, <1>6, <1>14, <1>15, <1>16
<1>18. Total(Earned(2..next), 2..next, total_points_earned')
  BY <1>9, <1>10, <1>17
<1>19. \A i \in DOMAIN skills :
         /\ next >= K!Skill(i).required_level
         /\ \A pre \in K!Skill(i).prerequisites : K!SkillLevel(pre[1]) >= pre[2]
  <2> SUFFICES ASSUME NEW i \in DOMAIN skills
               PROVE  /\ next >= K!Skill(i).required_level
                      /\ \A pre \in K!Skill(i).prerequisites : K!SkillLevel(pre[1]) >= pre[2]
    OBVIOUS
  <2>1. i \in K!Registered
    BY DEF SkillInv
  <2>2. PICK r \in Nat : r = K!Skill(i).required_level
    BY <2>1, SkillTyped
  <2>3. l >= r
    BY <1>1, <2>2 DEF SkillInv
  <2>4. \A pre \in K!Skill(i).prerequisites : K!SkillLevel(pre[1]) >= pre[2]
    BY DEF SkillInv
  <2> QED
    BY <1>3, <2>2, <2>3, <2>4
<1>20. \A j : K!SkillLevel(j)' = K!SkillLevel(j)
  BY <1>6 DEF K!SkillLevel
<1>21. Paid(skills)' = Paid(skills) /\ DOMAIN skills' = DOMAIN skills
       /\ Earned(2..player_level)' = Earned(2..next)
  BY <1>6 DEF Paid, Earned
<1>22. DOMAIN skills \subseteq K!Registered /\ \A i \in DOMAIN skills : skills[i] \in Nat
  BY DEF SkillInv
<1>23. /\ player_level' \in Nat \ {0} /\ available_points' \in Nat
       /\ DOMAIN skills' \subseteq K!Registered /\ \A i \in DOMAIN skills' : skills'[i] \in Nat
  BY <1>3, <1>6, <1>17, <1>22
<1>24. Total(Earned(2..player_level)', 2..player_level', total_points_earned')
  BY <1>6, <1>18, <1>21
<1>25. Total(Paid(skills)', DOMAIN skills', paid)
       /\ available_points' + paid = total_points_earned'
  BY <1>6, <1>16, <1>17, <1>21
<1>26. \A i \in DOMAIN skills' :
         /\ player_level' >= K!Skill(i).required_level
         /\ \A pre \in K!Skill(i).prerequisites : K!SkillLevel(pre[1])' >= pre[2]
  BY <1>6, <1>19, <1>20
<1> QED
  BY <1>23, <1>24, <1>25, <1>26 DEF SkillInv

\* allocate_point.
LEMMA AllocateKeepsSkills ==
  ASSUME SkillInv, NEW i, K!AllocatePoint(i)
  PROVE  SkillInv'
<1>a. PICK old, new : old = skills /\ new = [j \in DOMAIN old \cup {i} |->
                        IF j = i THEN K!SkillLevel(i) + 1 ELSE old[j]]
  OBVIOUS
<1>1. PICK a \in Nat :
        a = available_points /\ old = skills /\ new = [j \in DOMAIN old \cup {i} |->
                  IF j = i THEN K!SkillLevel(i) + 1 ELSE old[j]]
  BY <1>a DEF SkillInv
<1>2. PICK d : d = DOMAIN old
  OBVIOUS
<1>3. i \in K!Registered /\ d \subseteq K!Registered /\ \A j \in d : old[j] \in Nat
  BY <1>1, <1>2 DEF SkillInv, K!AllocatePoint
<1>4. PICK c \in Nat : c = K!Skill(i).cost_per_level
  BY <1>3, SkillTyped
<1>5. PICK s \in Nat : s = K!SkillLevel(i) /\ s = IF i \in d THEN old[i] ELSE 0
  BY <1>1, <1>2, <1>3 DEF K!SkillLevel
<1>6. /\ a >= c /\ available_points' = a - c /\ skills' = new
      /\ player_level' = player_level /\ total_points_earned' = total_points_earned
      /\ player_level >= K!Skill(i).required_level
      /\ \A pre \in K!Skill(i).prerequisites : K!SkillLevel(pre[1]) >= pre[2]
  BY <1>1, <1>4 DEF K!AllocatePoint
<1>7. /\ DOMAIN new = d \cup {i} /\ new[i] = s + 1
      /\ \A j \in d : j # i => new[j] = old[j]
  BY <1>1, <1>2, <1>5
<1>8. PICK rest : rest = d \ {i}
  OBVIOUS
<1>9. IsFiniteSet(rest) /\ i \notin rest /\ IsFiniteSet(d)
  <2>1. rest \in SUBSET K!Registered /\ d \in SUBSET K!Registered
    BY <1>3, <1>8
  <2>2. IsFiniteSet(K!Registered)
    BY SkillTyped
  <2>3. IsFiniteSet(rest) /\ IsFiniteSet(d)
    BY <2>1, <2>2, FS_Subset
  <2> QED
    BY <1>8, <2>3
<1>10. d \cup {i} = rest \cup {i}
  BY <1>8
<1>11. PICK paid \in Nat : Total(Paid(old), d, paid) /\ a + paid = total_points_earned
  BY <1>1, <1>2 DEF SkillInv
<1>12. PICK kept : Total(Paid(old), rest, kept)
  BY <1>9, TotalExists
<1>13. PICK more : Total(Paid(new), rest \cup {i}, more)
  <2>1. IsFiniteSet(rest \cup {i})
    BY <1>9, FS_AddElement
  <2> QED
    BY <2>1, TotalExists
<1>14. \A j \in rest \cup {i} : Paid(new)[j] = new[j] * K!Skill(j).cost_per_level
  BY <1>7, <1>10 DEF Paid
<1>15. \A j \in d : Paid(old)[j] = old[j] * K!Skill(j).cost_per_level
  BY <1>2 DEF Paid
<1>16. Agree(Paid(old), Paid(new), rest)
  <2> SUFFICES ASSUME NEW j \in rest PROVE Paid(old)[j] = Paid(new)[j]
    BY DEF Agree
  <2>1. j \in d /\ j # i /\ new[j] = old[j] /\ j \in rest \cup {i}
    BY <1>7, <1>8
  <2> QED
    BY <1>14, <1>15, <2>1
<1>17. \A j \in K!Registered : \A n \in Nat : n * K!Skill(j).cost_per_level \in Nat
  <2> SUFFICES ASSUME NEW j \in K!Registered, NEW n \in Nat
               PROVE  n * K!Skill(j).cost_per_level \in Nat
    OBVIOUS
  <2>1. PICK m \in Nat : m = K!Skill(j).cost_per_level
    BY SkillTyped
  <2>2. n * m \in Nat
    OBVIOUS
  <2> QED
    BY <2>1, <2>2
<1>18. \A j \in rest \cup {i} : j \in K!Registered /\ new[j] \in Nat
  <2> SUFFICES ASSUME NEW j \in rest \cup {i} PROVE j \in K!Registered /\ new[j] \in Nat
    OBVIOUS
  <2>1. CASE j = i
    BY <1>3, <1>7, <2>1
  <2>2. CASE j # i
    BY <1>3, <1>7, <1>8, <2>2
  <2> QED
    BY <2>1, <2>2
<1>19. Weighs(Paid(new), rest \cup {i})
  BY <1>14, <1>17, <1>18 DEF Weighs
<1>20. kept \in Nat /\ more = Paid(new)[i] + kept
  <2>1. Grown(rest, i, rest \cup {i})
    BY <1>9 DEF Grown
  <2> QED
    BY <1>12, <1>13, <1>16, <1>19, <2>1, TotalAdds
<1>21. Paid(new)[i] = (s + 1) * c
  BY <1>4, <1>7, <1>14
<1>22. paid = s * c + kept
  <2>1. CASE i \in d
    <3>1. d = rest \cup {i}
      BY <1>8, <2>1
    <3>2. Total(Paid(old), rest \cup {i}, paid)
      BY <1>11, <3>1
    <3>3. Agree(Paid(old), Paid(old), rest)
      BY DEF Agree
    <3>4. Weighs(Paid(old), rest \cup {i})
      BY <1>3, <1>15, <1>17, <3>1 DEF Weighs
    <3>5. paid = Paid(old)[i] + kept
      <4>1. Grown(rest, i, rest \cup {i})
        BY <1>9 DEF Grown
      <4> QED
        BY <1>12, <3>2, <3>3, <3>4, <4>1, TotalAdds
    <3>6. Paid(old)[i] = s * c
      BY <1>4, <1>5, <1>15, <2>1
    <3> QED
      BY <3>5, <3>6
  <2>2. CASE i \notin d
    <3>1. rest = d
      BY <1>8, <2>2
    <3>2. Total(Paid(old), d, kept)
      BY <1>12, <3>1
    <3>3. Agree(Paid(old), Paid(old), d)
      BY DEF Agree
    <3>4. paid = kept
      BY <1>9, <1>11, <3>2, <3>3, TotalUnique
    <3>5. s * c = 0
      BY <1>5, <2>2
    <3> QED
      BY <1>20, <3>4, <3>5
  <2> QED
    BY <2>1, <2>2
<1>23. more \in Nat /\ (a - c) + more = total_points_earned /\ a - c \in Nat
  <2>1. (s + 1) * c = s * c + c /\ s * c \in Nat
    OBVIOUS
  <2>2. PICK sc \in Nat : sc = s * c
    BY <2>1
  <2>3. more = (sc + c) + kept /\ paid = sc + kept
    BY <1>20, <1>21, <1>22, <2>1, <2>2
  <2> QED
    BY <1>6, <1>11, <1>20, <2>3
<1>24. \A j : K!SkillLevel(j) \in Nat /\ K!SkillLevel(j)' \in Nat /\ K!SkillLevel(j)' >= K!SkillLevel(j)
  <2> SUFFICES ASSUME NEW j
               PROVE  /\ K!SkillLevel(j) \in Nat /\ K!SkillLevel(j)' \in Nat
                      /\ K!SkillLevel(j)' >= K!SkillLevel(j)
    OBVIOUS
  <2>1. K!SkillLevel(j) = (IF j \in d THEN old[j] ELSE 0)
        /\ K!SkillLevel(j)' = (IF j \in d \cup {i} THEN new[j] ELSE 0)
    BY <1>1, <1>2, <1>6, <1>7 DEF K!SkillLevel
  <2>2. CASE j = i
    BY <1>5, <1>7, <2>1, <2>2
  <2>3. CASE j # i
    BY <1>3, <1>7, <2>1, <2>3
  <2> QED
    BY <2>2, <2>3
<1>25. \A j \in DOMAIN new :
         /\ player_level >= K!Skill(j).required_level
         /\ \A pre \in K!Skill(j).prerequisites : K!SkillLevel(pre[1])' >= pre[2]
  <2> SUFFICES ASSUME NEW j \in DOMAIN new
               PROVE  /\ player_level >= K!Skill(j).required_level
                      /\ \A pre \in K!Skill(j).prerequisites : K!SkillLevel(pre[1])' >= pre[2]
    OBVIOUS
  <2>1. /\ j \in K!Registered /\ player_level >= K!Skill(j).required_level
        /\ \A pre \in K!Skill(j).prerequisites : K!SkillLevel(pre[1]) >= pre[2]
    <3>1. CASE j = i
      BY <1>3, <1>6, <3>1
    <3>2. CASE j # i
      <4>1. j \in DOMAIN skills
        BY <1>1, <1>2, <1>7, <3>2
      <4> QED
        BY <4>1 DEF SkillInv
    <3> QED
      BY <3>1, <3>2
  <2>2. ASSUME NEW pre \in K!Skill(j).prerequisites PROVE K!SkillLevel(pre[1])' >= pre[2]
    <3>1. PICK n \in Nat : n = pre[2]
      BY <2>1, SkillTyped
    <3>2. PICK u \in Nat, v \in Nat : u = K!SkillLevel(pre[1]) /\ v = K!SkillLevel(pre[1])'
      BY <1>24
    <3>3. v >= u /\ u >= n
      BY <1>24, <2>1, <3>1, <3>2
    <3> QED
      BY <3>1, <3>2, <3>3
  <2> QED
    BY <2>1, <2>2
<1>26. /\ player_level' \in Nat \ {0} /\ available_points' \in Nat
       /\ DOMAIN skills' \subseteq K!Registered /\ \A j \in DOMAIN skills' : skills'[j] \in Nat
  <2>1. player_level \in Nat \ {0}
    BY DEF SkillInv
  <2>2. DOMAIN new \subseteq K!Registered /\ \A j \in DOMAIN new : new[j] \in Nat
    BY <1>7, <1>10, <1>18
  <2> QED
    BY <1>6, <1>23, <2>1, <2>2
<1>27. Total(Earned(2..player_level)', 2..player_level', total_points_earned')
  <2>1. Total(Earned(2..player_level), 2..player_level, total_points_earned)
    BY DEF SkillInv
  <2>2. Earned(2..player_level)' = Earned(2..player_level)
    BY <1>6 DEF Earned
  <2> QED
    BY <1>6, <2>1, <2>2
<1>28. Total(Paid(skills)', DOMAIN skills', more)
       /\ available_points' + more = total_points_earned'
  <2>1. Paid(skills)' = Paid(new) /\ DOMAIN skills' = rest \cup {i}
    BY <1>6, <1>7, <1>10 DEF Paid
  <2> QED
    BY <1>6, <1>13, <1>23, <2>1
<1>29. \A j \in DOMAIN skills' :
         /\ player_level' >= K!Skill(j).required_level
         /\ \A pre \in K!Skill(j).prerequisites : K!SkillLevel(pre[1])' >= pre[2]
  BY <1>6, <1>25
<1> QED
  BY <1>23, <1>26, <1>27, <1>28, <1>29 DEF SkillInv

\* For any skills asked for, in any order, and any level reached: every level of
\* every skill has been paid for with points earned, and its requirements hold.
THEOREM SkillsArePaidFor == MCSpec => []SkillsPaidFor
<1>1. MCInit => (part = "skills" => SkillInv)
  <2> SUFFICES ASSUME MCInit PROVE SkillInv
    OBVIOUS
  <2>1. /\ player_level = 1 /\ skills = [i \in {} |-> 0] /\ available_points = 0
        /\ total_points_earned = 0
    BY DEF MCInit, K!Init
  <2>2. 2..1 = {} /\ DOMAIN skills = {}
    BY <2>1
  <2>3. \A w : Total(w, {}, 0)
    <3> SUFFICES ASSUME NEW w PROVE Total(w, {}, 0)
      OBVIOUS
    <3>1. IsFiniteSet({})
      BY FS_EmptySet
    <3>2. PICK g : SumsOver(g, w, {})
      BY <3>1, SumsExist
    <3>3. g[{}] = 0
      BY <3>2, SumStep
    <3> QED
      BY <3>2, <3>3 DEF Total
  <2>4. 0 \in Nat /\ Total(Paid(skills), DOMAIN skills, 0) /\ available_points + 0 = total_points_earned
    BY <2>1, <2>2, <2>3
  <2>5. Total(Earned(2..player_level), 2..player_level, total_points_earned)
    BY <2>1, <2>2, <2>3
  <2> QED
    BY <2>1, <2>2, <2>4, <2>5 DEF SkillInv
<1>2. (part = "skills" => SkillInv) /\ [MCNext]_allvars => (part = "skills" => SkillInv)'
  <2> SUFFICES ASSUME part = "skills" => SkillInv, [MCNext]_allvars, part' = "skills" PROVE SkillInv'
    OBVIOUS
  <2>1. CASE Learn
    BY <2>1, AwardKeepsSkills, AllocateKeepsSkills DEF Learn, K!Next
  <2>2. CASE UNCHANGED <<part, skillVars>>
    <3>1. /\ player_level' = player_level /\ skills' = skills
          /\ available_points' = available_points /\ total_points_earned' = total_points_earned
          /\ SkillInv
      BY <2>2 DEF skillVars
    <3>2. \A j : K!SkillLevel(j)' = K!SkillLevel(j)
      BY <3>1 DEF K!SkillLevel
    <3>3. Paid(skills)' = Paid(skills) /\ Earned(2..player_level)' = Earned(2..player_level)
      BY <3>1 DEF Paid, Earned
    <3> QED
      BY <3>1, <3>2, <3>3 DEF SkillInv
  <2> QED
    BY <2>1, <2>2 DEF MCNext, Trade, Shop, Craft, Quest, Live, Happen, Touch, Show, Play,
                      Sparkle, allvars, economyVars
<1>3. (part = "skills" => SkillInv) => SkillsPaidFor
  <2> SUFFICES ASSUME SkillInv PROVE K!SkillsPaidFor
    BY DEF SkillsPaidFor
  <2>1. IsFiniteSet(2..player_level)
    <3>1. PICK l \in Nat \ {0} : l = player_level
      BY DEF SkillInv
    <3>2. IsFiniteSet(1..l) /\ 2..l \in SUBSET (1..l)
      BY <3>1, IntervalCard
    <3> QED
      BY <3>1, <3>2, FS_Subset
  <2>2. IsFiniteSet(DOMAIN skills)
    <3>1. IsFiniteSet(K!Registered) /\ DOMAIN skills \in SUBSET K!Registered
      BY SkillTyped DEF SkillInv
    <3> QED
      BY <3>1, FS_Subset
  <2>3. total_points_earned = K!MapThenSumSet(K!SkillPointsPerLevel, 2..player_level)
    <3>1. Total(Earned(2..player_level), 2..player_level,
                K!MapThenSumSet(K!SkillPointsPerLevel, 2..player_level))
      BY <2>1, EarnedIsTotal
    <3>2. Total(Earned(2..player_level), 2..player_level, total_points_earned)
      BY DEF SkillInv
    <3>3. Agree(Earned(2..player_level), Earned(2..player_level), 2..player_level)
      BY DEF Agree
    <3> QED
      BY <2>1, <3>1, <3>2, <3>3, TotalUnique
  <2>4. PICK paid \in Nat : /\ Total(Paid(skills), DOMAIN skills, paid)
                            /\ available_points + paid = total_points_earned
    BY DEF SkillInv
  <2>5. paid = K!MapThenSumSet(LAMBDA i : skills[i] * K!Skill(i).cost_per_level, DOMAIN skills)
    <3>1. Total(Paid(skills), DOMAIN skills,
                K!MapThenSumSet(LAMBDA i : skills[i] * K!Skill(i).cost_per_level, DOMAIN skills))
      BY <2>2, PaidIsTotal
    <3>2. Agree(Paid(skills), Paid(skills), DOMAIN skills)
      BY DEF Agree
    <3> QED
      BY <2>2, <2>4, <3>1, <3>2, TotalUnique
  <2>6. \A i \in DOMAIN skills :
          /\ player_level >= K!Skill(i).required_level
          /\ \A pre \in K!Skill(i).prerequisites : K!SkillLevel(pre[1]) >= pre[2]
    BY DEF SkillInv
  <2> QED
    BY <2>3, <2>4, <2>5, <2>6 DEF K!SkillsPaidFor
<1> QED
  BY <1>1, <1>2, <1>3, PTL DEF MCSpec
-----------------------------------------------------------------------------
(* Crafting                                                                *)

Raw == C!Held(30) + C!Held(31) + C!Held(32)

CraftInv ==
  /\ \A i \in DOMAIN inventory : inventory[i] \in Nat
  /\ crafted \in Nat /\ looted \in Nat /\ Raw + crafted <= looted

\* What a player holds of an item is a number.
LEMMA HeldTyped ==
  ASSUME \A i \in DOMAIN inventory : inventory[i] \in Nat
  PROVE  \A i : C!Held(i) \in Nat
BY DEF C!Held

\* The raw materials are registered items.
LEMMA RawRegistered == 30..32 \subseteq DOMAIN C!Registry
BY DEF C!Registry, C!default_registry, C!Materials

\* An inventory holds the quantities it is made from, those that are 0 left out.
LEMMA InventoryHolds ==
  ASSUME NEW q, \A i \in DOMAIN C!Registry : q[i] \in Nat, inventory' = C!Inventory(q)
  PROVE  /\ \A i \in DOMAIN inventory' : inventory'[i] \in Nat
         /\ \A i \in DOMAIN C!Registry : C!Held(i)' = q[i]
<1>1. PICK all : all = DOMAIN C!Registry
  OBVIOUS
<1>2. inventory' = [i \in {j \in all : q[j] > 0} |-> q[i]]
  BY <1>1 DEF C!Inventory
<1>3. \A i \in all : q[i] \in Nat
  BY <1>1
<1>4. \A i \in DOMAIN inventory' : inventory'[i] \in Nat
  BY <1>2, <1>3
<1>5. \A i \in all : C!Held(i)' = q[i]
  <2> SUFFICES ASSUME NEW i \in all PROVE C!Held(i)' = q[i]
    OBVIOUS
  <2>1. C!Held(i)' = IF i \in DOMAIN inventory' THEN inventory'[i] ELSE 0
    BY DEF C!Held
  <2> QED
    BY <1>2, <1>3, <2>1
<1> QED
  BY <1>1, <1>4, <1>5

\* A roll of a drop table.
LEMMA LootKeepsRaw ==
  ASSUME CraftInv, NEW npc, C!Loot(npc)
  PROVE  CraftInv'
<1>1. PICK a \in Nat, b \in Nat, c \in Nat : a = C!Held(30) /\ b = C!Held(31) /\ c = C!Held(32)
  BY HeldTyped DEF CraftInv
<1>2. crafted \in Nat /\ looted \in Nat /\ a + b + c + crafted <= looted
  BY <1>1 DEF CraftInv, Raw
<1>3. PICK drop : /\ drop.quantity \in 1..(MaxLoot - looted)
                   /\ inventory' = C!Inventory([i \in DOMAIN C!Registry |->
                        C!Held(i) + IF i = drop.item_id THEN drop.quantity ELSE 0])
                   /\ looted' = looted + drop.quantity /\ crafted' = crafted
  BY DEF C!Loot
<1>4. PICK n \in Nat : n = drop.quantity
  BY <1>2, <1>3, CraftingAssumption
<1>5. PICK q : q = [i \in DOMAIN C!Registry |-> C!Held(i) + IF i = drop.item_id THEN n ELSE 0]
  OBVIOUS
<1>6. \A i \in DOMAIN C!Registry : q[i] \in Nat
  <2>1. \A i : C!Held(i) \in Nat
    BY HeldTyped DEF CraftInv
  <2> QED
    BY <1>5, <2>1
<1>7. inventory' = C!Inventory(q)
  BY <1>3, <1>4, <1>5
<1>8. /\ \A i \in DOMAIN inventory' : inventory'[i] \in Nat
      /\ C!Held(30)' = q[30] /\ C!Held(31)' = q[31] /\ C!Held(32)' = q[32]
  BY <1>6, <1>7, InventoryHolds, RawRegistered
<1>9. /\ q[30] = a + (IF 30 = drop.item_id THEN n ELSE 0)
      /\ q[31] = b + (IF 31 = drop.item_id THEN n ELSE 0)
      /\ q[32] = c + (IF 32 = drop.item_id THEN n ELSE 0)
  BY <1>1, <1>5, RawRegistered
<1>10. q[30] + q[31] + q[32] <= a + b + c + n /\ q[30] + q[31] + q[32] \in Nat
  BY <1>9
<1>11. Raw' = q[30] + q[31] + q[32]
  BY <1>8 DEF Raw
<1>12. crafted' = crafted /\ looted' = looted + n
  BY <1>3, <1>4
<1> QED
  BY <1>2, <1>8, <1>10, <1>11, <1>12 DEF CraftInv

Need(r, i) == IF i \in DOMAIN r.materials THEN r.materials[i] ELSE 0
Gives(r, i) == IF i = r.item_id THEN r.quantity ELSE 0

\* Every recipe takes more raw material than it makes.
LEMMA RecipesTake ==
  ASSUME NEW id \in DOMAIN C!recipes, NEW r, r = C!recipes[id]
  PROVE  /\ \A i : Need(r, i) \in Nat /\ Gives(r, i) \in Nat
         /\ Need(r, 30) + Need(r, 31) + Need(r, 32)
              > Gives(r, 30) + Gives(r, 31) + Gives(r, 32)
<1>1. id \in 1..4 \/ id \in 10..12 \/ id \in 20..22 \/ id = 30
  BY DEF C!recipes
<1> USE DEF Need, Gives, C!CraftingRecipe, C!One, C!Two
<1>2. CASE id = 1
  <2>1. r = C!CraftingRecipe(C!One(31, 5), 1, 1, 1)
    BY <1>2 DEF C!recipes, C!WeaponRecipes
  <2> QED
    BY <2>1
<1>3. CASE id = 2
  <2>1. r = C!CraftingRecipe(C!Two(30, 5, 31, 2), 2, 1, 3)
    BY <1>3 DEF C!recipes, C!WeaponRecipes
  <2> QED
    BY <2>1
<1>4. CASE id = 3
  <2>1. r = C!CraftingRecipe(C!Two(30, 15, 31, 5), 3, 1, 8)
    BY <1>4 DEF C!recipes, C!WeaponRecipes
  <2> QED
    BY <2>1
<1>5. CASE id = 4
  <2>1. r = C!CraftingRecipe([m \in 30..32 |-> <<30, 10, 5>>[m - 29]], 4, 1, 15)
    BY <1>5 DEF C!recipes, C!WeaponRecipes
  <2> QED
    BY <2>1
<1>6. CASE id = 10
  <2>1. r = C!CraftingRecipe(C!One(31, 3), 10, 1, 1)
    BY <1>6 DEF C!recipes, C!ArmorRecipes
  <2> QED
    BY <2>1
<1>7. CASE id = 11
  <2>1. r = C!CraftingRecipe(C!Two(30, 10, 31, 3), 11, 1, 5)
    BY <1>7 DEF C!recipes, C!ArmorRecipes
  <2> QED
    BY <2>1
<1>8. CASE id = 12
  <2>1. r = C!CraftingRecipe(C!Two(30, 8, 31, 2), 12, 1, 4)
    BY <1>8 DEF C!recipes, C!ArmorRecipes
  <2> QED
    BY <2>1
<1>9. CASE id = 20
  <2>1. r = C!CraftingRecipe(C!One(31, 2), 20, 2, 1)
    BY <1>9 DEF C!recipes, C!ConsumableRecipes
  <2> QED
    BY <2>1
<1>10. CASE id = 21
  <2>1. r = C!CraftingRecipe(C!Two(20, 3, 32, 1), 21, 1, 10)
    BY <1>10 DEF C!recipes, C!ConsumableRecipes
  <2> QED
    BY <2>1
<1>11. CASE id = 22
  <2>1. r = C!CraftingRecipe(C!One(31, 1), 22, 2, 1)
    BY <1>11 DEF C!recipes, C!ConsumableRecipes
  <2> QED
    BY <2>1
<1>12. CASE id = 30
  <2>1. r = C!CraftingRecipe(C!Two(30, 3, 31, 1), 30, 2, 2)
    BY <1>12 DEF C!recipes, C!MaterialRecipes
  <2> QED
    BY <2>1
<1> QED
  BY <1>1, <1>2, <1>3, <1>4, <1>5, <1>6, <1>7, <1>8, <1>9, <1>10, <1>11, <1>12

\* execute_craft.
LEMMA CraftKeepsRaw ==
  ASSUME CraftInv, NEW id \in DOMAIN C!recipes, C!ExecuteCraft(id)
  PROVE  CraftInv'
<1>1. PICK a \in Nat, b \in Nat, c \in Nat : a = C!Held(30) /\ b = C!Held(31) /\ c = C!Held(32)
  BY HeldTyped DEF CraftInv
<1>2. crafted \in Nat /\ looted \in Nat /\ a + b + c + crafted <= looted
  BY <1>1 DEF CraftInv, Raw
<1>3. PICK r : r = C!recipes[id]
  OBVIOUS
<1>4. PICK q : q = [i \in DOMAIN C!Registry |-> C!Held(i) - Need(r, i) + Gives(r, i)]
  OBVIOUS
<1>5. /\ inventory' = C!Inventory(q) /\ crafted' = crafted + 1 /\ looted' = looted
      /\ \A m \in DOMAIN r.materials : C!Held(m) >= r.materials[m]
  BY <1>3, <1>4 DEF C!ExecuteCraft, C!CanCraft, Need, Gives
<1>6. /\ \A i : Need(r, i) \in Nat /\ Gives(r, i) \in Nat
      /\ Need(r, 30) + Need(r, 31) + Need(r, 32) > Gives(r, 30) + Gives(r, 31) + Gives(r, 32)
  BY <1>3, RecipesTake
<1>7. \A i : C!Held(i) \in Nat /\ C!Held(i) >= Need(r, i)
  <2>1. \A i : C!Held(i) \in Nat
    BY HeldTyped DEF CraftInv
  <2> QED
    BY <1>5, <2>1 DEF Need
<1>8. \A i \in DOMAIN C!Registry : q[i] \in Nat
  BY <1>4, <1>6, <1>7
<1>9. /\ \A i \in DOMAIN inventory' : inventory'[i] \in Nat
      /\ C!Held(30)' = q[30] /\ C!Held(31)' = q[31] /\ C!Held(32)' = q[32]
  BY <1>5, <1>8, InventoryHolds, RawRegistered
<1>10. /\ q[30] = a - Need(r, 30) + Gives(r, 30)
       /\ q[31] = b - Need(r, 31) + Gives(r, 31)
       /\ q[32] = c - Need(r, 32) + Gives(r, 32)
  BY <1>1, <1>4, RawRegistered
<1>11. q[30] + q[31] + q[32] + 1 <= a + b + c /\ q[30] + q[31] + q[32] \in Int
  <2>1. PICK n0 \in Nat, n1 \in Nat, n2 \in Nat, g0 \in Nat, g1 \in Nat, g2 \in Nat :
          /\ n0 = Need(r, 30) /\ n1 = Need(r, 31) /\ n2 = Need(r, 32)
          /\ g0 = Gives(r, 30) /\ g1 = Gives(r, 31) /\ g2 = Gives(r, 32)
    BY <1>6
  <2>2. n0 + n1 + n2 > g0 + g1 + g2
    BY <1>6, <2>1
  <2> QED
    BY <1>10, <2>1, <2>2
<1>12. Raw' = q[30] + q[31] + q[32]
  BY <1>9 DEF Raw
<1> QED
  BY <1>2, <1>5, <1>9, <1>11, <1>12 DEF CraftInv

\* The sum over the raw materials.
LEMMA RawIsSum ==
  ASSUME \A i : C!Held(i) \in Nat
  PROVE  C!MapThenSumSet(C!Held, 30..32) = Raw
<1>1. PICK all : all = 30..32
  OBVIOUS
<1>2. PICK w : w = [i \in all |-> C!Held(i)]
  OBVIOUS
<1>3. PICK f : f = CHOOSE g : g = [s \in SUBSET all |->
        IF s = {} THEN 0 ELSE C!Held(Pick(s)) + g[s \ {Pick(s)}]]
  OBVIOUS
<1>4. C!MapThenSumSet(C!Held, 30..32) = f[all]
  BY <1>1, <1>3 DEF C!MapThenSumSet, C!MapThenFoldSet, Pick
<1>5. \A g : SumsOver(g, w, all)
        <=> g = [s \in SUBSET all |->
                   IF s = {} THEN 0 ELSE C!Held(Pick(s)) + g[s \ {Pick(s)}]]
  <2> SUFFICES ASSUME NEW g
               PROVE  [s \in SUBSET all |-> IF s = {} THEN 0 ELSE w[Pick(s)] + g[s \ {Pick(s)}]]
                      = [s \in SUBSET all |->
                         IF s = {} THEN 0 ELSE C!Held(Pick(s)) + g[s \ {Pick(s)}]]
    BY DEF SumsOver, Sums
  <2>1. \A s \in SUBSET all : s # {} => Pick(s) \in all
    BY DEF Pick
  <2> QED
    BY <1>2, <2>1
<1>6. IsFiniteSet(all)
  <2>1. all \in SUBSET (1..32)
    BY <1>1
  <2> QED
    BY <2>1, IntervalCard, FS_Subset
<1>7. PICK g : SumsOver(g, w, all)
  BY <1>6, SumsExist
<1>8. SumsOver(f, w, all)
  <2>1. f = [s \in SUBSET all |->
               IF s = {} THEN 0 ELSE C!Held(Pick(s)) + f[s \ {Pick(s)}]]
    BY <1>3, <1>5, <1>7
  <2> QED
    BY <1>5, <2>1
<1>9. Weighs(w, all)
  BY <1>2 DEF Weighs
<1>10. \A s \in SUBSET all : \A x \in s : f[s] = w[x] + f[s \ {x}]
  <2> SUFFICES ASSUME NEW s \in SUBSET all, NEW x \in s PROVE f[s] = w[x] + f[s \ {x}]
    OBVIOUS
  <2>1. IsFiniteSet(all) /\ SumsOver(f, w, all) /\ Weighs(w, all)
    BY <1>6, <1>8, <1>9
  <2> QED
    BY <2>1, SumTakesOut
<1>11. /\ f[all] = w[30] + f[all \ {30}]
       /\ f[all \ {30}] = w[31] + f[(all \ {30}) \ {31}]
       /\ f[(all \ {30}) \ {31}] = w[32] + f[((all \ {30}) \ {31}) \ {32}]
  <2>1. 30 \in all /\ 31 \in all \ {30} /\ 32 \in (all \ {30}) \ {31}
    BY <1>1
  <2>2. all \in SUBSET all /\ all \ {30} \in SUBSET all /\ (all \ {30}) \ {31} \in SUBSET all
    OBVIOUS
  <2> QED
    BY <1>10, <2>1, <2>2
<1>12. f[((all \ {30}) \ {31}) \ {32}] = 0
  <2>1. ((all \ {30}) \ {31}) \ {32} = {}
    BY <1>1
  <2>2. f[{}] = 0
    BY <1>8, SumStep
  <2> QED
    BY <2>1, <2>2
<1>13. w[30] = C!Held(30) /\ w[31] = C!Held(31) /\ w[32] = C!Held(32)
  BY <1>1, <1>2
<1> QED
  BY <1>4, <1>11, <1>12, <1>13 DEF Raw

\* For any NPCs, level of the player and amount of loot: every craft uses up raw
\* material, so that there are never more crafts than there was loot.
THEOREM CraftsAreFinite == MCSpec => []CraftingConsumes
<1>1. MCInit => (part = "crafting" => CraftInv)
  <2> SUFFICES ASSUME MCInit PROVE CraftInv
    OBVIOUS
  <2>1. inventory = [i \in {} |-> 0] /\ looted = 0 /\ crafted = 0
    BY DEF MCInit, C!Init
  <2>2. DOMAIN inventory = {} /\ \A i : C!Held(i) = 0
    BY <2>1 DEF C!Held
  <2> QED
    BY <2>1, <2>2 DEF CraftInv, Raw
<1>2. (part = "crafting" => CraftInv) /\ [MCNext]_allvars => (part = "crafting" => CraftInv)'
  <2> SUFFICES ASSUME part = "crafting" => CraftInv, [MCNext]_allvars, part' = "crafting"
               PROVE  CraftInv'
    OBVIOUS
  <2>1. CASE Craft
    BY <2>1, LootKeepsRaw, CraftKeepsRaw DEF Craft, C!Next
  <2>2. CASE UNCHANGED <<part, craftVars>>
    <3>1. inventory' = inventory /\ looted' = looted /\ crafted' = crafted /\ CraftInv
      BY <2>2 DEF craftVars
    <3>2. \A i : C!Held(i)' = C!Held(i)
      BY <3>1 DEF C!Held
    <3> QED
      BY <3>1, <3>2 DEF CraftInv, Raw
  <2> QED
    BY <2>1, <2>2 DEF MCNext, Trade, Shop, Quest, Learn, Live, Happen, Touch, Show, Play,
                      Sparkle, allvars, economyVars
<1>3. (part = "crafting" => CraftInv) => CraftingConsumes
  <2> SUFFICES ASSUME CraftInv PROVE C!CraftingConsumes
    BY DEF CraftingConsumes
  <2>1. C!MapThenSumSet(C!Held, 30..32) = Raw
    BY HeldTyped, RawIsSum DEF CraftInv
  <2> QED
    BY <2>1 DEF C!CraftingConsumes, CraftInv
<1> QED
  BY <1>1, <1>2, <1>3, PTL DEF MCSpec
-----------------------------------------------------------------------------
(* Panels                                                                  *)

\* The instance of Panels counts as this module does.
LEMMA PanelsCount == \A set : P!Cardinality(set) = Cardinality(set)
BY Zenon DEF P!Cardinality, Cardinality

PanelEvent == P!PanelKind \cup {P!CloseAll}

\* f runs through what is open after the first n events of a list.
RunsTo(f, n, panels, list) ==
  f = [k \in 0..n |-> IF k = 0 THEN panels ELSE P!Toggled(f[k - 1], list[k])]

\* One event more continues a run.
LEMMA RunGoesOn ==
  ASSUME NEW f, NEW n \in Nat, NEW panels, NEW list, RunsTo(f, n, panels, list)
  PROVE  \E g : RunsTo(g, n + 1, panels, list)
<1>1. PICK g : g = [k \in 0..n + 1 |->
                     IF k = 0 THEN panels ELSE P!Toggled(f[k - 1], list[k])]
  OBVIOUS
<1>2. \A k \in 0..n : f[k] = IF k = 0 THEN panels ELSE P!Toggled(f[k - 1], list[k])
  BY DEF RunsTo
<1>3. \A k \in 0..n : g[k] = f[k]
  <2> SUFFICES ASSUME NEW k \in 0..n PROVE g[k] = f[k]
    OBVIOUS
  <2>1. k \in 0..n + 1
    OBVIOUS
  <2> QED
    BY <1>1, <1>2, <2>1
<1>4. \A k \in 0..n + 1 : k # 0 => k - 1 \in 0..n
  OBVIOUS
<1>5. \A k \in 0..n + 1 : g[k] = IF k = 0 THEN panels ELSE P!Toggled(g[k - 1], list[k])
  BY <1>1, <1>3, <1>4
<1>6. g = [k \in 0..n + 1 |-> IF k = 0 THEN panels ELSE P!Toggled(g[k - 1], list[k])]
  BY <1>1, <1>5
<1>7. RunsTo(g, n + 1, panels, list)
  BY <1>6 DEF RunsTo
<1> QED
  BY <1>7

\* There is a run through every list: the shortest list without one has a run
\* through all but its last event.
LEMMA RunExists ==
  ASSUME NEW panels, NEW list
  PROVE  \A n \in Nat : \E f : RunsTo(f, n, panels, list)
<1>1. PICK none : none = {n \in Nat : ~\E f : RunsTo(f, n, panels, list)}
  OBVIOUS
<1>2. none = {}
  <2> SUFFICES ASSUME none # {} PROVE FALSE
    OBVIOUS
  <2>1. none \in SUBSET Nat
    BY <1>1
  <2>2. PICK n \in none : \A m \in none : n <= m
    BY <2>1, LeastElement
  <2>3. n \in Nat /\ ~\E f : RunsTo(f, n, panels, list)
    BY <1>1
  <2>4. CASE n = 0
    <3>1. PICK f : f = [k \in 0..0 |-> panels]
      OBVIOUS
    <3>2. \A k \in 0..0 : k = 0
      OBVIOUS
    <3>3. RunsTo(f, 0, panels, list)
      BY <3>1, <3>2 DEF RunsTo
    <3> QED
      BY <2>3, <2>4, <3>3
  <2>5. CASE n # 0
    <3>1. PICK m \in Nat : m = n - 1
      BY <2>3, <2>5
    <3>2. m \notin none /\ m + 1 = n
      BY <2>2, <2>3, <3>1
    <3>3. PICK f : RunsTo(f, m, panels, list)
      BY <1>1, <3>2
    <3>4. \E g : RunsTo(g, m + 1, panels, list)
      BY <3>3, RunGoesOn
    <3> QED
      BY <2>3, <3>2, <3>4
  <2> QED
    BY <2>4, <2>5
<1> QED
  BY <1>1, <1>2

\* What is open after a list is the end of a run.
LEMMA AfterIsRun ==
  ASSUME NEW panels, NEW list, Len(list) \in Nat
  PROVE  \E f : RunsTo(f, Len(list), panels, list) /\ P!After(panels, list) = f[Len(list)]
<1>1. PICK f : f = CHOOSE after : after = [n \in 0..Len(list) |->
        IF n = 0 THEN panels ELSE P!Toggled(after[n - 1], list[n])]
  OBVIOUS
<1>2. P!After(panels, list) = f[Len(list)]
  BY <1>1 DEF P!After
<1>3. PICK g : RunsTo(g, Len(list), panels, list)
  BY RunExists
<1>4. RunsTo(f, Len(list), panels, list)
  BY <1>1, <1>3 DEF RunsTo
<1> QED
  BY <1>2, <1>4

Continues(long, list, k) == \A i \in 1..Len(list) : list[i] = long[k + i]

\* A run through a list agrees with one through a longer list from where it starts.
LEMMA RunsAgree ==
  ASSUME NEW f, NEW g, NEW list, NEW long, NEW panels, NEW start,
         NEW n \in Nat, NEW m \in Nat, NEW k \in Nat, k + n <= m, n = Len(list),
         RunsTo(f, n, panels, list), RunsTo(g, m, start, long),
         g[k] = panels, Continues(long, list, k)
  PROVE  f[n] = g[k + n]
<1>1. \A i \in 0..n : f[i] = IF i = 0 THEN panels ELSE P!Toggled(f[i - 1], list[i])
  BY DEF RunsTo
<1>2. \A i \in 0..m : g[i] = IF i = 0 THEN start ELSE P!Toggled(g[i - 1], long[i])
  BY DEF RunsTo
<1>3. PICK bad : bad = {i \in 0..n : f[i] # g[k + i]}
  OBVIOUS
<1>4. bad = {}
  <2> SUFFICES ASSUME bad # {} PROVE FALSE
    OBVIOUS
  <2>1. bad \in SUBSET Nat
    BY <1>3
  <2>2. PICK i \in bad : \A j \in bad : i <= j
    BY <2>1, LeastElement
  <2>3. i \in 0..n /\ f[i] # g[k + i]
    BY <1>3
  <2>4. i # 0
    <3>1. f[0] = panels /\ k + 0 = k
      BY <1>1
    <3> QED
      BY <2>3, <3>1
  <2>5. PICK j \in Nat : j = i - 1
    BY <2>3, <2>4
  <2>6. j \in 0..n /\ j \notin bad
    BY <2>2, <2>3, <2>5
  <2>7. f[j] = g[k + j]
    BY <1>3, <2>6
  <2>8. f[i] = P!Toggled(f[j], list[i])
    BY <1>1, <2>3, <2>4, <2>5
  <2>9. g[k + i] = P!Toggled(g[k + j], long[k + i])
    <3>1. k + i \in 0..m /\ k + i # 0 /\ (k + i) - 1 = k + j
      BY <2>3, <2>4, <2>5
    <3> QED
      BY <1>2, <3>1
  <2>10. list[i] = long[k + i]
    BY <2>3, <2>4 DEF Continues
  <2> QED
    BY <2>3, <2>7, <2>8, <2>9, <2>10
<1> QED
  BY <1>3, <1>4

\* Handling two lists one after the other is handling the two as one.
LEMMA AfterBoth ==
  ASSUME NEW panels, NEW a \in Seq(PanelEvent), NEW b \in Seq(PanelEvent)
  PROVE  P!After(panels, a \o b) = P!After(P!After(panels, a), b)
<1>1. PICK n \in Nat, m \in Nat : n = Len(a) /\ m = Len(b)
  OBVIOUS
<1>2. PICK both : both = a \o b
  OBVIOUS
<1>3. Len(both) = n + m
  BY <1>1, <1>2
<1>4. Continues(both, a, 0) /\ Continues(both, b, n)
  BY <1>1, <1>2 DEF Continues
<1>5. PICK f : RunsTo(f, n, panels, a) /\ P!After(panels, a) = f[n]
  BY <1>1, AfterIsRun
<1>6. PICK g : RunsTo(g, m, f[n], b) /\ P!After(f[n], b) = g[m]
  BY <1>1, AfterIsRun
<1>7. PICK h : RunsTo(h, n + m, panels, both) /\ P!After(panels, both) = h[n + m]
  <2>1. Len(both) \in Nat
    BY <1>1, <1>3
  <2> QED
    BY <1>3, <2>1, AfterIsRun
<1>8. h[0] = panels
  BY <1>7, <1>1 DEF RunsTo
<1>9. f[n] = h[n]
  <2>1. 0 \in Nat /\ n + m \in Nat /\ 0 + n <= n + m
    BY <1>1
  <2>2. f[n] = h[0 + n]
    BY <1>1, <1>4, <1>5, <1>7, <1>8, <2>1, RunsAgree
  <2> QED
    BY <1>1, <2>2
<1>10. g[m] = h[n + m]
  <2>1. n + m \in Nat /\ n + m <= n + m
    BY <1>1
  <2> QED
    BY <1>1, <1>4, <1>6, <1>7, <1>9, <2>1, RunsAgree
<1> QED
  BY <1>2, <1>5, <1>6, <1>7, <1>9, <1>10

AtMostOne(panels) == panels = {} \/ \E panel \in P!PanelKind : panels = {panel}

\* No event changes nothing, and events leave at most one panel open.
LEMMA AfterOpens ==
  ASSUME NEW panels, AtMostOne(panels), NEW list \in Seq(PanelEvent)
  PROVE  /\ AtMostOne(P!After(panels, list))
         /\ list = <<>> => P!After(panels, list) = panels
<1>1. PICK n \in Nat : n = Len(list)
  OBVIOUS
<1>2. PICK f : RunsTo(f, n, panels, list) /\ P!After(panels, list) = f[n]
  BY <1>1, AfterIsRun
<1>3. f[n] = IF n = 0 THEN panels ELSE P!Toggled(f[n - 1], list[n])
  BY <1>1, <1>2 DEF RunsTo
<1>4. n # 0 => list[n] \in PanelEvent
  BY <1>1
<1>5. n # 0 => AtMostOne(f[n])
  BY <1>3, <1>4 DEF PanelEvent, P!Toggled, AtMostOne
<1> QED
  BY <1>1, <1>2, <1>3, <1>5

Notification == [number : Nat, remaining : Int]

Rising(list) == \A i, j \in 1..Len(list) : i < j => list[i].number < list[j].number

\* The queue holds rising numbers with the time that is left to their deadlines,
\* and what it does not hold is over or has been pushed out by newer ones.
Queued(list, dead, count, frame) ==
  /\ list \in Seq(Notification) /\ Rising(list)
  /\ dead \in Seq(Nat) /\ Len(dead) = count
  /\ \A i \in 1..Len(list) : list[i].number \in 1..count
  /\ \A i \in 1..Len(list) : list[i].remaining = dead[list[i].number] - frame
  /\ \A n \in 1..count : \/ \E i \in 1..Len(list) : list[i].number = n
                         \/ dead[n] < frame
                         \/ count - n >= 2 * max_visible

PanelInv ==
  /\ frames \in Nat /\ pushed \in Nat /\ events \in Seq(PanelEvent)
  /\ P!After(open, events) = keyed /\ display = open /\ AtMostOne(open)
  /\ active_panel = IF open = {} THEN P!NoPanel ELSE CHOOSE panel \in open : TRUE
  /\ Queued(notifications, deadline, pushed, frames)

\* Numbers that rise are as far apart as their places.
LEMMA RisingApart ==
  ASSUME NEW list \in Seq(Notification), Rising(list)
  PROVE  \A i \in 1..Len(list) : list[Len(list)].number - list[i].number >= Len(list) - i
<1>1. PICK n \in Nat : n = Len(list)
  OBVIOUS
<1>2. \A i \in 1..n : list[i].number \in Nat
  <2>1. \A i \in 1..n : list[i] \in Notification
    BY <1>1
  <2> QED
    BY <2>1 DEF Notification
<1>3. PICK bad : bad = {d \in Nat : d < n /\ list[n].number - list[n - d].number < d}
  OBVIOUS
<1>4. bad = {}
  <2> SUFFICES ASSUME bad # {} PROVE FALSE
    OBVIOUS
  <2>1. bad \in SUBSET Nat
    BY <1>3
  <2>2. PICK d \in bad : \A e \in bad : d <= e
    BY <2>1, LeastElement
  <2>3. d \in Nat /\ d < n /\ list[n].number - list[n - d].number < d
    BY <1>3
  <2>4. d # 0
    BY <1>2, <2>3
  <2>5. PICK e \in Nat : e = d - 1
    BY <2>3, <2>4
  <2>6. e < n /\ n - d \in 1..n /\ n - e \in 1..n /\ n - d < n - e /\ n \in 1..n
    BY <2>3, <2>4, <2>5
  <2>7. ~(list[n].number - list[n - e].number < e)
    BY <1>3, <2>2, <2>3, <2>5, <2>6
  <2>8. list[n - d].number < list[n - e].number
    BY <1>1, <2>6 DEF Rising
  <2>9. list[n - d].number \in Nat /\ list[n - e].number \in Nat /\ list[n].number \in Nat
    BY <1>2, <2>6
  <2> QED
    BY <2>3, <2>5, <2>7, <2>8, <2>9
<1>5. ASSUME NEW i \in 1..n PROVE list[n].number - list[i].number >= n - i
  <2>1. PICK d \in Nat : d = n - i /\ d < n /\ n - d = i
    OBVIOUS
  <2>2. ~(list[n].number - list[n - d].number < d)
    BY <1>3, <1>4, <2>1
  <2>3. list[i].number \in Nat /\ list[n].number \in Nat
    BY <1>2
  <2> QED
    BY <2>1, <2>2, <2>3
<1> QED
  BY <1>1, <1>5

\* A frame takes its time from each notification and lets go of those whose time
\* is over.
LEMMA AgedStaysQueued ==
  ASSUME NEW list, NEW dead, NEW count \in Nat, NEW frame \in Nat,
         Queued(list, dead, count, frame)
  PROVE  Queued(P!Aged(list), dead, count, frame + 1)
<1>1. /\ list \in Seq(Notification) /\ Rising(list) /\ dead \in Seq(Nat) /\ Len(dead) = count
      /\ \A i \in 1..Len(list) : list[i].number \in 1..count
      /\ \A i \in 1..Len(list) : list[i].remaining = dead[list[i].number] - frame
  BY DEF Queued
<1>2. PICK n \in Nat : n = Len(list) /\ DOMAIN list = 1..n
  BY <1>1
<1>3. \A i \in 1..n : list[i] \in Notification
  BY <1>1, <1>2
<1>4. PICK older : older = [i \in 1..n |-> [list[i] EXCEPT !.remaining = @ - 1]]
  OBVIOUS
<1>5. \A i \in 1..n : /\ older[i] \in Notification /\ older[i].number = list[i].number
                      /\ older[i].remaining = list[i].remaining - 1
  BY <1>3, <1>4, SMTT(30) DEF Notification
<1>6. older \in Seq(Notification) /\ Len(older) = n
  <2>1. older \in [1..n -> Notification]
    BY <1>4, <1>5
  <2> QED
    BY <2>1, SeqIntro
<1>7. PICK kept : kept = {i \in 1..n : older[i].remaining > -1}
  OBVIOUS
<1>8. PICK out, nth :
           /\ out = Retained(older, kept) /\ out \in Seq(Notification)
           /\ nth \in [1..Len(out) -> kept]
           /\ \A k \in 1..Len(out) : out[k] = older[nth[k]]
           /\ \A k, l \in 1..Len(out) : k < l => nth[k] < nth[l]
           /\ \A i \in kept : \E k \in 1..Len(out) : nth[k] = i
  <2>1. kept \in SUBSET (1..Len(older))
    BY <1>6, <1>7
  <2>2. KeepsInOrder(Notification, older, kept)
    BY <1>6, <2>1, KeptFacts, Zenon
  <2> QED
    BY <2>2, Zenon DEF KeepsInOrder, KeptAs
<1>9. out = P!Aged(list)
  <2>1. P!Aged(list) = P!Kept(older, kept)
    BY <1>2, <1>4, <1>7 DEF P!Aged
  <2>2. P!Kept(older, kept) = Retained(older, kept)
    BY Zenon DEF P!Kept, P!Cardinality, Retained, Cardinality
  <2> QED
    BY <1>8, <2>1, <2>2
<1>10. \A k \in 1..Len(out) : /\ nth[k] \in 1..n /\ out[k].number = list[nth[k]].number
                              /\ out[k].remaining = list[nth[k]].remaining - 1
  <2> SUFFICES ASSUME NEW k \in 1..Len(out)
               PROVE  /\ nth[k] \in 1..n /\ out[k].number = list[nth[k]].number
                      /\ out[k].remaining = list[nth[k]].remaining - 1
    OBVIOUS
  <2>1. nth[k] \in kept /\ out[k] = older[nth[k]]
    BY <1>8
  <2>2. nth[k] \in 1..n
    BY <1>7, <2>1
  <2> QED
    BY <1>5, <2>1, <2>2
<1>11. Rising(out)
  <2> SUFFICES ASSUME NEW k \in 1..Len(out), NEW l \in 1..Len(out), k < l
               PROVE  out[k].number < out[l].number
    BY DEF Rising
  <2>1. nth[k] < nth[l] /\ nth[k] \in 1..n /\ nth[l] \in 1..n
    BY <1>8, <1>10
  <2>2. list[nth[k]].number < list[nth[l]].number
    BY <1>1, <1>2, <2>1 DEF Rising
  <2> QED
    BY <1>10, <2>2
<1>12. \A k \in 1..Len(out) : out[k].number \in 1..count
  BY <1>1, <1>2, <1>10
<1>13. \A i \in 1..count : dead[i] \in Nat
  BY <1>1
<1>14. \A k \in 1..Len(out) : out[k].remaining = dead[out[k].number] - (frame + 1)
  <2> SUFFICES ASSUME NEW k \in 1..Len(out)
               PROVE  out[k].remaining = dead[out[k].number] - (frame + 1)
    OBVIOUS
  <2>1. nth[k] \in 1..n
    BY <1>10
  <2>2. list[nth[k]].remaining = dead[list[nth[k]].number] - frame
    BY <1>1, <1>2, <2>1
  <2>3. PICK due \in Nat : due = dead[list[nth[k]].number]
    BY <1>1, <1>2, <1>13, <2>1
  <2>4. out[k].remaining = list[nth[k]].remaining - 1 /\ out[k].number = list[nth[k]].number
    BY <1>10
  <2>5. out[k].remaining = (due - frame) - 1 /\ dead[out[k].number] = due
    BY <2>2, <2>3, <2>4
  <2> QED
    BY <2>3, <2>5, SMTT(30)
<1>15. ASSUME NEW m \in 1..count
       PROVE  \/ \E k \in 1..Len(out) : out[k].number = m
              \/ dead[m] < frame + 1
              \/ count - m >= 2 * max_visible
  <2>1. CASE \E i \in 1..n : list[i].number = m
    <3>1. PICK i \in 1..n : list[i].number = m
      BY <2>1
    <3>2. CASE i \in kept
      <4>1. PICK k \in 1..Len(out) : nth[k] = i
        BY <1>8, <3>2
      <4> QED
        BY <1>10, <3>1, <4>1
    <3>3. CASE i \notin kept
      <4>1. ~(older[i].remaining > -1) /\ older[i].remaining \in Int
        BY <1>5, <1>7, <3>3 DEF Notification
      <4>2. older[i].remaining = dead[m] - frame - 1
        BY <1>1, <1>2, <1>5, <3>1
      <4>3. dead[m] \in Nat
        BY <1>13
      <4> QED
        BY <4>1, <4>2, <4>3
    <3> QED
      BY <3>2, <3>3
  <2>2. CASE ~\E i \in 1..n : list[i].number = m
    <3>1. dead[m] < frame \/ count - m >= 2 * max_visible
      BY <1>2, <2>2 DEF Queued
    <3>2. dead[m] \in Nat
      BY <1>13
    <3> QED
      BY <3>1, <3>2
  <2> QED
    BY <2>1, <2>2
<1> QED
  BY <1>1, <1>8, <1>9, <1>11, <1>12, <1>14, <1>15 DEF Queued

\* A notification that is pushed is the last.
LEMMA PushedIsQueued ==
  ASSUME NEW list, NEW dead, NEW count \in Nat, NEW frame \in Nat, NEW duration \in Nat,
         Queued(list, dead, count, frame)
  PROVE  Queued(Append(list, [number |-> count + 1, remaining |-> duration]),
                Append(dead, frame + duration), count + 1, frame)
<1>1. /\ list \in Seq(Notification) /\ Rising(list) /\ dead \in Seq(Nat) /\ Len(dead) = count
      /\ \A i \in 1..Len(list) : list[i].number \in 1..count
      /\ \A i \in 1..Len(list) : list[i].remaining = dead[list[i].number] - frame
  BY DEF Queued
<1>2. PICK n \in Nat : n = Len(list)
  BY <1>1
<1>3. PICK new : new = [number |-> count + 1, remaining |-> duration]
  OBVIOUS
<1>4. new \in Notification /\ new.number = count + 1 /\ new.remaining = duration
  BY <1>3 DEF Notification
<1>5. PICK longer : longer = Append(list, new)
  OBVIOUS
<1>6. PICK due : due = Append(dead, frame + duration)
  OBVIOUS
<1>7. /\ longer \in Seq(Notification) /\ Len(longer) = n + 1
      /\ \A i \in 1..n : longer[i] = list[i]
      /\ longer[n + 1] = new
  BY <1>1, <1>2, <1>4, <1>5, AppendProperties
<1>8. /\ due \in Seq(Nat) /\ Len(due) = count + 1
      /\ \A i \in 1..count : due[i] = dead[i]
      /\ due[count + 1] = frame + duration
  <2>1. frame + duration \in Nat
    OBVIOUS
  <2> QED
    BY <1>1, <1>6, <2>1, AppendProperties
<1>9. Rising(longer)
  <2> SUFFICES ASSUME NEW i \in 1..n + 1, NEW j \in 1..n + 1, i < j
               PROVE  longer[i].number < longer[j].number
    BY <1>7 DEF Rising
  <2>1. i \in 1..n
    OBVIOUS
  <2>2. list[i].number \in 1..count
    BY <1>1, <1>2, <2>1
  <2>3. CASE j = n + 1
    BY <1>4, <1>7, <2>1, <2>2, <2>3
  <2>4. CASE j # n + 1
    <3>1. j \in 1..n
      BY <2>4
    <3>2. list[i].number < list[j].number
      BY <1>1, <1>2, <2>1, <3>1 DEF Rising
    <3> QED
      BY <1>7, <2>1, <3>1, <3>2
  <2> QED
    BY <2>3, <2>4
<1>10. ASSUME NEW i \in 1..n + 1
       PROVE  /\ longer[i].number \in 1..count + 1
              /\ longer[i].remaining = due[longer[i].number] - frame
  <2>1. CASE i = n + 1
    BY <1>4, <1>7, <1>8, <2>1
  <2>2. CASE i # n + 1
    <3>1. i \in 1..n /\ longer[i] = list[i]
      BY <1>7, <2>2
    <3>2. /\ list[i].number \in 1..count
          /\ list[i].remaining = dead[list[i].number] - frame
      BY <1>1, <1>2, <3>1
    <3> QED
      BY <1>8, <3>1, <3>2
  <2> QED
    BY <2>1, <2>2
<1>11. ASSUME NEW m \in 1..count + 1
       PROVE  \/ \E i \in 1..n + 1 : longer[i].number = m
              \/ due[m] < frame
              \/ (count + 1) - m >= 2 * max_visible
  <2>1. CASE m = count + 1
    <3>1. n + 1 \in 1..n + 1 /\ longer[n + 1].number = m
      BY <1>4, <1>7, <2>1
    <3> QED
      BY <3>1
  <2>2. CASE m # count + 1
    <3>1. m \in 1..count /\ due[m] = dead[m]
      BY <1>8, <2>2
    <3>2. \/ \E i \in 1..n : list[i].number = m
          \/ dead[m] < frame
          \/ count - m >= 2 * max_visible
      BY <1>2, <3>1 DEF Queued
    <3>3. CASE \E i \in 1..n : list[i].number = m
      <4>1. PICK i \in 1..n : list[i].number = m
        BY <3>3
      <4>2. i \in 1..n + 1 /\ longer[i] = list[i]
        BY <1>7
      <4> QED
        BY <4>1, <4>2
    <3>4. max_visible \in Nat
      BY PanelAssumption
    <3> QED
      BY <3>1, <3>2, <3>3, <3>4
  <2> QED
    BY <2>1, <2>2
<1>12. Queued(longer, due, count + 1, frame)
  BY <1>7, <1>8, <1>9, <1>10, <1>11 DEF Queued
<1> QED
  BY <1>3, <1>5, <1>6, <1>12

\* Dropping all but the newest of a queue that is too long.
LEMMA TrimmedStaysQueued ==
  ASSUME NEW list, NEW dead, NEW count \in Nat, NEW frame \in Nat,
         Queued(list, dead, count, frame), Len(list) > 2 * max_visible
  PROVE  Queued(P!Trimmed(list), dead, count, frame)
<1>1. /\ list \in Seq(Notification) /\ Rising(list) /\ dead \in Seq(Nat) /\ Len(dead) = count
      /\ \A i \in 1..Len(list) : list[i].number \in 1..count
      /\ \A i \in 1..Len(list) : list[i].remaining = dead[list[i].number] - frame
  BY DEF Queued
<1>2. PICK n \in Nat : n = Len(list)
  BY <1>1
<1>3. PICK cap \in Nat : cap = 2 * max_visible
  BY PanelAssumption
<1>4. PICK skip \in Nat : skip = n - cap
  BY <1>2, <1>3
<1>5. PICK out : out = P!Trimmed(list)
  OBVIOUS
<1>6. out = SubSeq(list, skip + 1, n)
  <2>1. skip + 1 = Len(list) - 2 * max_visible + 1
    BY <1>2, <1>3, <1>4
  <2> QED
    BY <1>2, <1>5, <2>1 DEF P!Trimmed
<1>7. /\ out \in Seq(Notification) /\ Len(out) = cap
      /\ \A i \in 1..cap : skip + i \in 1..n /\ out[i] = list[skip + i]
  <2>1. \A i \in skip + 1..n : list[i] \in Notification
    BY <1>1, <1>2, <1>4
  <2>2. /\ SubSeq(list, skip + 1, n) \in Seq(Notification)
        /\ Len(SubSeq(list, skip + 1, n)) = IF skip + 1 <= n THEN n - (skip + 1) + 1 ELSE 0
        /\ \A i \in 1..n - (skip + 1) + 1 :
             SubSeq(list, skip + 1, n)[i] = list[(skip + 1) + i - 1]
    <3>1. skip + 1 \in Int /\ n \in Int
      OBVIOUS
    <3> QED
      BY <2>1, <3>1, SubSeqProperties
  <2>3. n - (skip + 1) + 1 = cap /\ (skip + 1 <= n <=> cap # 0)
    BY <1>2, <1>3, <1>4
  <2>4. Len(out) = cap
    BY <1>3, <1>6, <2>2, <2>3
  <2>5. \A i \in 1..cap : (skip + 1) + i - 1 = skip + i /\ skip + i \in 1..n
    BY <1>2, <1>3, <1>4
  <2>6. \A i \in 1..cap : out[i] = list[skip + i]
    BY <1>6, <2>2, <2>3, <2>5
  <2> QED
    BY <1>6, <2>2, <2>4, <2>5, <2>6
<1>8. Rising(out)
  <2> SUFFICES ASSUME NEW i \in 1..cap, NEW j \in 1..cap, i < j
               PROVE  out[i].number < out[j].number
    BY <1>7 DEF Rising
  <2>1. skip + i < skip + j /\ skip + i \in 1..n /\ skip + j \in 1..n
    BY <1>7
  <2>2. list[skip + i].number < list[skip + j].number
    BY <1>1, <1>2, <2>1 DEF Rising
  <2> QED
    BY <1>7, <2>2
<1>9. \A i \in 1..cap : /\ out[i].number \in 1..count
                        /\ out[i].remaining = dead[out[i].number] - frame
  BY <1>1, <1>2, <1>7
<1>10. ASSUME NEW m \in 1..count
       PROVE  \/ \E i \in 1..cap : out[i].number = m
              \/ dead[m] < frame
              \/ count - m >= cap
  <2>1. CASE \E i \in 1..n : list[i].number = m
    <3>1. PICK i \in 1..n : list[i].number = m
      BY <2>1
    <3>2. CASE i > skip
      <4>1. i - skip \in 1..cap /\ skip + (i - skip) = i
        BY <1>2, <1>4, <3>2
      <4> QED
        BY <1>7, <3>1, <4>1
    <3>3. CASE ~(i > skip)
      <4>1. list[n].number - list[i].number >= n - i
        BY <1>1, <1>2, RisingApart
      <4>2. n \in 1..n /\ list[n].number \in 1..count
        BY <1>1, <1>2
      <4> QED
        BY <1>4, <3>1, <3>3, <4>1, <4>2, SMTT(30)
    <3> QED
      BY <3>2, <3>3
  <2>2. CASE ~\E i \in 1..n : list[i].number = m
    BY <1>2, <1>3, <2>2 DEF Queued
  <2> QED
    BY <2>1, <2>2
<1>11. \A m \in 1..count : \/ \E i \in 1..Len(out) : out[i].number = m
                           \/ dead[m] < frame
                           \/ count - m >= 2 * max_visible
  BY <1>3, <1>7, <1>10
<1> QED
  BY <1>1, <1>5, <1>7, <1>8, <1>9, <1>11 DEF Queued

\* The hotkeys and the handler, in either order.
LEMMA FrameKeepsPanels ==
  ASSUME PanelInv, NEW list \in Seq(PanelEvent), NEW sent_first \in BOOLEAN,
         P!Frame(list, sent_first)
  PROVE  PanelInv'
<1>1. /\ frames \in Nat /\ pushed \in Nat /\ events \in Seq(PanelEvent)
      /\ P!After(open, events) = keyed /\ display = open /\ AtMostOne(open)
      /\ active_panel = IF open = {} THEN P!NoPanel ELSE CHOOSE panel \in open : TRUE
      /\ Queued(notifications, deadline, pushed, frames)
  BY DEF PanelInv
<1>2. /\ frames' = frames + 1 /\ keyed' = P!After(keyed, list)
      /\ notifications' = P!Aged(notifications)
      /\ pushed' = pushed /\ deadline' = deadline
  BY DEF P!Frame
<1>3. PICK read \in Seq(PanelEvent) : read = IF sent_first THEN events \o list ELSE events
  <2>1. events \o list \in Seq(PanelEvent)
    BY <1>1
  <2> QED
    BY <1>1, <2>1
<1>4. PICK after : after = P!After(open, read)
  OBVIOUS
<1>5. /\ open' = after
      /\ display' = IF read = <<>> THEN display ELSE after
      /\ active_panel' = IF read = <<>> THEN active_panel
                         ELSE IF after = {} THEN P!NoPanel
                         ELSE CHOOSE panel \in after : TRUE
      /\ events' = IF sent_first THEN <<>> ELSE list
  BY <1>3, <1>4 DEF P!Frame, P!Handle
<1>6. AtMostOne(after) /\ (read = <<>> => after = open)
  BY <1>1, <1>4, AfterOpens
<1>7. P!After(open', events') = keyed' /\ events' \in Seq(PanelEvent)
  <2>1. CASE sent_first
    <3>1. after = P!After(P!After(open, events), list)
      BY <1>1, <1>3, <1>4, <2>1, AfterBoth
    <3>2. after = keyed' /\ events' = <<>>
      BY <1>1, <1>2, <1>5, <2>1, <3>1
    <3>3. <<>> \in Seq(PanelEvent)
      OBVIOUS
    <3>4. P!After(after, <<>>) = after
      BY <1>6, <3>3, AfterOpens
    <3> QED
      BY <1>5, <3>2, <3>3, <3>4
  <2>2. CASE ~sent_first
    <3>1. after = keyed /\ events' = list
      BY <1>1, <1>3, <1>4, <1>5, <2>2
    <3> QED
      BY <1>2, <1>5, <3>1
  <2> QED
    BY <2>1, <2>2
<1>8. display' = open' /\ AtMostOne(open')
  BY <1>1, <1>5, <1>6
<1>9. active_panel' = IF open' = {} THEN P!NoPanel ELSE CHOOSE panel \in open' : TRUE
  <2>1. CASE read = <<>>
    BY <1>1, <1>5, <1>6, <2>1
  <2>2. CASE read # <<>>
    <3>1. active_panel' = IF after = {} THEN P!NoPanel ELSE CHOOSE panel \in after : TRUE
      BY <1>5, <2>2
    <3> QED
      BY <1>5, <3>1
  <2> QED
    BY <2>1, <2>2
<1>10. Queued(notifications', deadline', pushed', frames')
  <2>1. Queued(P!Aged(notifications), deadline, pushed, frames + 1)
    BY <1>1, AgedStaysQueued
  <2> QED
    BY <1>2, <2>1
<1>11. frames' \in Nat /\ pushed' \in Nat
  BY <1>1, <1>2
<1> QED
  BY <1>7, <1>8, <1>9, <1>10, <1>11 DEF PanelInv

\* push and push_timed.
LEMMA PushKeepsPanels ==
  ASSUME PanelInv, P!Push \/ \E duration \in Durations : P!PushTimed(duration)
  PROVE  PanelInv'
<1>1. /\ frames \in Nat /\ pushed \in Nat /\ events \in Seq(PanelEvent)
      /\ P!After(open, events) = keyed /\ display = open /\ AtMostOne(open)
      /\ active_panel = IF open = {} THEN P!NoPanel ELSE CHOOSE panel \in open : TRUE
      /\ Queued(notifications, deadline, pushed, frames)
  BY DEF PanelInv
<1>2. PICK duration \in Nat :
        /\ pushed' = pushed + 1 /\ deadline' = Append(deadline, frames + duration)
        /\ \/ notifications' = Append(notifications, P!Notice(duration))
           \/ /\ Len(Append(notifications, P!Notice(duration))) > 2 * max_visible
              /\ notifications' = P!Trimmed(Append(notifications, P!Notice(duration)))
        /\ UNCHANGED <<open, active_panel, display, events, frames, keyed>>
  BY PanelAssumption DEF P!Push, P!PushTimed
<1>3. PICK longer : longer = Append(notifications, [number |-> pushed + 1, remaining |-> duration])
  OBVIOUS
<1>4. PICK due : due = Append(deadline, frames + duration)
  OBVIOUS
<1>5. Queued(longer, due, pushed + 1, frames)
  BY <1>1, <1>3, <1>4, PushedIsQueued
<1>6. \/ notifications' = longer
      \/ Len(longer) > 2 * max_visible /\ notifications' = P!Trimmed(longer)
  BY <1>2, <1>3 DEF P!Notice
<1>7. Queued(notifications', due, pushed + 1, frames)
  <2>1. pushed + 1 \in Nat
    BY <1>1
  <2>2. Len(longer) > 2 * max_visible => Queued(P!Trimmed(longer), due, pushed + 1, frames)
    BY <1>1, <1>5, <2>1, TrimmedStaysQueued
  <2> QED
    BY <1>5, <1>6, <2>2
<1>8. Queued(notifications', deadline', pushed', frames')
  BY <1>2, <1>4, <1>7
<1>9. /\ open' = open /\ active_panel' = active_panel /\ display' = display
      /\ events' = events /\ frames' = frames /\ keyed' = keyed /\ pushed' \in Nat
  BY <1>1, <1>2
<1> QED
  BY <1>1, <1>8, <1>9 DEF PanelInv

\* For the keys pressed in any frames and order of the two systems, any notifications,
\* durations and limit of the queue: what is open is what the keys say, and no
\* notification goes before its time but for newer ones that fill the queue.
THEOREM PanelsStayInStep == MCSpec => []PanelsInStep
<1>1. MCInit => PanelInv
  <2> SUFFICES ASSUME MCInit PROVE PanelInv
    OBVIOUS
  <2>1. /\ open = {} /\ active_panel = P!NoPanel /\ display = {} /\ events = <<>>
        /\ notifications = <<>> /\ frames = 0 /\ pushed = 0 /\ keyed = {} /\ deadline = <<>>
    BY DEF MCInit, P!Init
  <2>2. AtMostOne({}) /\ <<>> \in Seq(PanelEvent)
    BY DEF AtMostOne
  <2>3. P!After({}, <<>>) = {}
    BY <2>2, AfterOpens
  <2>4. Queued(<<>>, <<>>, 0, 0)
    BY DEF Queued, Rising
  <2> QED
    BY <2>1, <2>2, <2>3, <2>4 DEF PanelInv
<1>2. PanelInv /\ [MCNext]_allvars => PanelInv'
  <2> SUFFICES ASSUME PanelInv, [MCNext]_allvars PROVE PanelInv'
    OBVIOUS
  <2>1. CASE Show
    <3>1. \A down : P!KeyPresses(down) \in Seq(PanelEvent)
      <4>1. /\ "Crafting" \in PanelEvent /\ "QuestLog" \in PanelEvent
            /\ "SkillTree" \in PanelEvent /\ "Shop" \in PanelEvent /\ P!CloseAll \in PanelEvent
        BY DEF PanelEvent, P!PanelKind
      <4>2. \A event \in PanelEvent : \A down : P!Sent(event, down) \in Seq(PanelEvent)
        BY DEF P!Sent
      <4>3. \A s, t \in Seq(PanelEvent) : s \o t \in Seq(PanelEvent)
        BY ConcatProperties
      <4> QED
        BY <4>1, <4>2, <4>3 DEF P!KeyPresses
    <3> QED
      BY <2>1, <3>1, FrameKeepsPanels, PushKeepsPanels DEF Show, P!Next
  <2>2. CASE UNCHANGED panelVars
    BY <2>2 DEF panelVars, PanelInv
  <2> QED
    BY <2>1, <2>2 DEF MCNext, Trade, Shop, Craft, Quest, Learn, Live, Happen, Touch, Play,
                      Sparkle, allvars, clientVars
<1>3. PanelInv => PanelsInStep
  <2> SUFFICES ASSUME PanelInv PROVE P!PanelsInStep
    BY DEF PanelsInStep
  <2>1. P!Cardinality(open) <= 1
    <3>1. Cardinality({}) = 0 /\ \A panel : Cardinality({panel}) = 1
      BY FS_EmptySet, FS_Singleton
    <3>2. open = {} \/ \E panel \in P!PanelKind : open = {panel}
      BY DEF PanelInv, AtMostOne
    <3> QED
      BY <3>1, <3>2, PanelsCount
  <2>2. \A n \in 1..pushed : \/ \E i \in DOMAIN notifications : notifications[i].number = n
                             \/ deadline[n] < frames
                             \/ pushed - n >= 2 * max_visible
    BY SMTT(30) DEF PanelInv, Queued
  <2> QED
    BY <2>1, <2>2 DEF PanelInv, P!PanelsInStep
<1> QED
  BY <1>1, <1>2, <1>3, PTL DEF MCSpec
-----------------------------------------------------------------------------
(* Particles                                                               *)

Amounts == [F!Lifetime -> Nat]

Sum12(f) == f[1] + f[2] + f[3] + f[4] + f[5] + f[6] + f[7] + f[8] + f[9] + f[10] + f[11] + f[12]

\* The sum of a function's values is their total.
LEMMA SumFunctionIsTotal ==
  ASSUME NEW f, IsFiniteSet(DOMAIN f)
  PROVE  Total(f, DOMAIN f, F!SumFunction(f))
<1>1. PICK g : g = CHOOSE h : h = [s \in SUBSET DOMAIN f |->
        IF s = {} THEN 0 ELSE f[Pick(s)] + h[s \ {Pick(s)}]]
  OBVIOUS
<1>2. F!SumFunction(f) = g[DOMAIN f]
  BY <1>1 DEF F!SumFunction, F!SumFunctionOnSet, F!FoldFunctionOnSet, F!MapThenFoldSet, Pick
<1>3. PICK h : SumsOver(h, f, DOMAIN f)
  BY SumsExist
<1>4. h = [s \in SUBSET DOMAIN f |-> IF s = {} THEN 0 ELSE f[Pick(s)] + h[s \ {Pick(s)}]]
  BY <1>3 DEF SumsOver, Sums
<1>5. g = [s \in SUBSET DOMAIN f |-> IF s = {} THEN 0 ELSE f[Pick(s)] + g[s \ {Pick(s)}]]
  BY <1>1, <1>4
<1>6. SumsOver(g, f, DOMAIN f)
  BY <1>5 DEF SumsOver, Sums
<1> QED
  BY <1>2, <1>6 DEF Total

\* The total of the first numbers grows by one more.
LEMMA TotalUpTo ==
  ASSUME NEW f, NEW k \in Nat, Weighs(f, 1..k + 1), NEW n, Total(f, 1..k, n), NEW m,
         Total(f, 1..k + 1, m)
  PROVE  n \in Nat /\ m = f[k + 1] + n
<1>1. Grown(1..k, k + 1, 1..k + 1)
  <2>1. IsFiniteSet(1..k)
    BY IntervalCard
  <2> QED
    BY <2>1 DEF Grown
<1>2. Agree(f, f, 1..k)
  BY DEF Agree
<1> QED
  BY <1>1, <1>2, TotalAdds

\* The amounts of all lifetimes add up.
LEMMA SumOfAmounts ==
  ASSUME NEW f \in Amounts
  PROVE  F!SumFunction(f) = Sum12(f) /\ Sum12(f) \in Nat
<1>1. DOMAIN f = 1..12 /\ \A l \in 1..12 : f[l] \in Nat
  BY DEF Amounts, F!Lifetime
<1>2. \A k \in 0..12 : \E n : Total(f, 1..k, n)
  <2>1. \A k \in 0..12 : IsFiniteSet(1..k)
    BY IntervalCard
  <2> QED
    BY <2>1, TotalExists
<1>3. PICK t : \A k \in 0..12 : Total(f, 1..k, t[k])
  <2>1. PICK t : t = [k \in 0..12 |-> CHOOSE n : Total(f, 1..k, n)]
    OBVIOUS
  <2> QED
    BY <1>2, <2>1
<1>4. ASSUME NEW k \in 0..11 PROVE t[k] \in Nat /\ t[k + 1] = f[k + 1] + t[k]
  <2>1. k \in Nat /\ k \in 0..12 /\ k + 1 \in 0..12 /\ Weighs(f, 1..k + 1)
    BY <1>1 DEF Weighs
  <2>2. Total(f, 1..k, t[k]) /\ Total(f, 1..k + 1, t[k + 1])
    BY <1>3, <2>1
  <2> QED
    BY <2>1, <2>2, TotalUpTo
<1>5. t[0] = 0
  <2>1. Total(f, {}, t[0])
    <3>1. 1..0 = {} /\ 0 \in 0..12
      OBVIOUS
    <3> QED
      BY <1>3, <3>1
  <2>2. PICK g : SumsOver(g, f, {}) /\ t[0] = g[{}]
    BY <2>1 DEF Total
  <2> QED
    BY <2>2, SumStep
<1>6. /\ t[1] = f[1] + t[0] /\ t[2] = f[2] + t[1] /\ t[3] = f[3] + t[2]
      /\ t[4] = f[4] + t[3] /\ t[5] = f[5] + t[4] /\ t[6] = f[6] + t[5]
  BY <1>4
<1>7. /\ t[7] = f[7] + t[6] /\ t[8] = f[8] + t[7] /\ t[9] = f[9] + t[8]
      /\ t[10] = f[10] + t[9] /\ t[11] = f[11] + t[10] /\ t[12] = f[12] + t[11]
  BY <1>4
<1>8. t[12] = Sum12(f)
  BY <1>1, <1>5, <1>6, <1>7 DEF Sum12
<1>9. F!SumFunction(f) = t[12]
  <2>1. IsFiniteSet(DOMAIN f)
    BY <1>1, IntervalCard
  <2>2. Total(f, 1..12, F!SumFunction(f))
    BY <1>1, <2>1, SumFunctionIsTotal
  <2>3. IsFiniteSet(1..12) /\ Agree(f, f, 1..12) /\ 12 \in 0..12
    <3>1. 12 \in Nat
      OBVIOUS
    <3>2. IsFiniteSet(1..12)
      BY <3>1, IntervalCard
    <3>3. Agree(f, f, 1..12)
      BY DEF Agree
    <3> QED
      BY <3>2, <3>3
  <2>4. Total(f, 1..12, t[12])
    BY <1>3, <2>3
  <2> QED
    BY <2>2, <2>3, <2>4, TotalUnique
<1>10. Sum12(f) \in Nat
  BY <1>1 DEF Sum12
<1> QED
  BY <1>8, <1>9, <1>10

\* What an event spawns.
LEMMA BurstTyped ==
  ASSUME NEW event
  PROVE  /\ F!Sprites(event) \in Amounts /\ F!Numbers(event) \in Amounts
         /\ Sum12(F!Sprites(event)) <= F!LargestBurst
<1>1. F!Lifetime = 1..12
  BY DEF F!Lifetime
<1>2. F!None \in Amounts /\ \A l \in 1..12 : F!None[l] = 0
  BY <1>1 DEF F!None, Amounts
<1>3. /\ F!Spark = 4 /\ F!RingExpand = 6 /\ F!FloatUp = 10 /\ F!Poof = 5 /\ F!LargestBurst = 20
  BY DEF F!Spark, F!RingExpand, F!FloatUp, F!Poof, F!LargestBurst
<1>4. ASSUME NEW l \in 1..12, NEW n \in Nat
      PROVE  /\ [F!None EXCEPT ![l] = n] \in Amounts
             /\ \A k \in 1..12 : [F!None EXCEPT ![l] = n][k] = IF k = l THEN n ELSE 0
  BY <1>1, <1>2 DEF Amounts
<1>5. Sum12(F!None) = 0
  BY <1>2 DEF Sum12
<1>6. ASSUME NEW l \in 1..12, NEW n \in Nat PROVE Sum12([F!None EXCEPT ![l] = n]) = n
  <2>1. PICK f : f = [F!None EXCEPT ![l] = n]
    OBVIOUS
  <2>2. \A k \in 1..12 : f[k] = IF k = l THEN n ELSE 0
    BY <1>4, <2>1
  <2>3. Sum12(f) = n
    BY <2>2 DEF Sum12
  <2> QED
    BY <2>1, <2>3
<1>7. /\ [F!None EXCEPT ![6] = 12, ![10] = 8] \in Amounts
      /\ Sum12([F!None EXCEPT ![6] = 12, ![10] = 8]) = 20
  <2>1. PICK f : f = [F!None EXCEPT ![6] = 12, ![10] = 8]
    OBVIOUS
  <2>2. f \in Amounts /\ \A k \in 1..12 : f[k] = IF k = 6 THEN 12 ELSE IF k = 10 THEN 8 ELSE 0
    BY <1>1, <1>2, <2>1 DEF Amounts
  <2>3. Sum12(f) = 20
    BY <2>2 DEF Sum12
  <2> QED
    BY <2>1, <2>2, <2>3
<1>8. F!Sprites(event) \in Amounts /\ Sum12(F!Sprites(event)) <= 20
  <2>1. CASE event = "AttackSpark"
    BY <1>3, <1>4, <1>6, <2>1 DEF F!Sprites
  <2>2. CASE event = "LevelUp"
    BY <1>3, <1>7, <2>2 DEF F!Sprites
  <2>3. CASE event = "ItemPickup"
    BY <1>3, <1>4, <1>6, <2>3 DEF F!Sprites
  <2>4. CASE event = "DeathPoof"
    BY <1>3, <1>4, <1>6, <2>4 DEF F!Sprites
  <2>5. CASE event = "SpawnGlow"
    BY <1>3, <1>4, <1>6, <2>5 DEF F!Sprites
  <2>6. CASE event \notin {"AttackSpark", "LevelUp", "ItemPickup", "DeathPoof", "SpawnGlow"}
    BY <1>2, <1>5, <2>6 DEF F!Sprites
  <2> QED
    BY <2>1, <2>2, <2>3, <2>4, <2>5, <2>6
<1>9. F!Numbers(event) \in Amounts
  <2>1. CASE event = "DamageNumber"
    BY <1>4, <2>1 DEF F!Numbers
  <2>2. CASE event = "HealNumber"
    BY <1>4, <2>2 DEF F!Numbers
  <2>3. CASE event \notin {"DamageNumber", "HealNumber"}
    BY <1>2, <2>3 DEF F!Numbers
  <2> QED
    BY <2>1, <2>2, <2>3
<1> QED
  BY <1>3, <1>8, <1>9


\* The bursts that a list of events spawns, put together.
Burst(of, list) == F!FoldFunction(F!Add, F!None, [i \in DOMAIN list |-> of[list[i]]])

\* What a list of bursts has of one lifetime.
OfLife(parts, l) == [i \in DOMAIN parts |-> parts[i][l]]

\* Bursts are put together lifetime by lifetime.
LEMMA FoldIsTotals ==
  ASSUME NEW n \in Nat, NEW parts \in [1..n -> Amounts]
  PROVE  /\ F!FoldFunction(F!Add, F!None, parts) \in Amounts
         /\ \A l \in 1..12 :
              Total(OfLife(parts, l), 1..n, F!FoldFunction(F!Add, F!None, parts)[l])
<1>1. PICK v : v = CHOOSE h : h = [s \in SUBSET (1..n) |->
        IF s = {} THEN F!None ELSE F!Add(parts[Pick(s)], h[s \ {Pick(s)}])]
  OBVIOUS
<1>2. F!FoldFunction(F!Add, F!None, parts) = v[1..n]
  <2>1. DOMAIN parts = 1..n
    OBVIOUS
  <2> QED
    BY <1>1, <2>1 DEF F!FoldFunction, F!FoldFunctionOnSet, F!MapThenFoldSet, Pick
<1>3. IsFiniteSet(1..n) /\ F!Lifetime = 1..12
  BY IntervalCard DEF F!Lifetime
<1>4. PICK g : \A l \in 1..12 : SumsOver(g[l], OfLife(parts, l), 1..n)
  <2>1. PICK g : g = [l \in 1..12 |-> CHOOSE h : SumsOver(h, OfLife(parts, l), 1..n)]
    OBVIOUS
  <2>2. \A l \in 1..12 : \E h : SumsOver(h, OfLife(parts, l), 1..n)
    BY <1>3, SumsExist
  <2> QED
    BY <2>1, <2>2
<1>5. PICK h : h = [s \in SUBSET (1..n) |-> [l \in 1..12 |-> g[l][s]]]
  OBVIOUS
<1>6. ASSUME NEW s \in SUBSET (1..n)
      PROVE  h[s] = IF s = {} THEN F!None ELSE F!Add(parts[Pick(s)], h[s \ {Pick(s)}])
  <2>1. ASSUME NEW l \in 1..12
        PROVE  /\ g[l][{}] = 0
               /\ s # {} => g[l][s] = OfLife(parts, l)[Pick(s)] + g[l][s \ {Pick(s)}]
    <3>1. g[l] = [r \in SUBSET (1..n) |->
                    IF r = {} THEN 0 ELSE OfLife(parts, l)[Pick(r)] + g[l][r \ {Pick(r)}]]
      BY <1>4 DEF SumsOver, Sums
    <3> QED
      BY <3>1
  <2>2. CASE s = {}
    <3>1. h[s] = [l \in 1..12 |-> g[l][s]]
      BY <1>5
    <3>2. \A l \in 1..12 : g[l][s] = 0
      BY <2>1, <2>2
    <3>3. h[s] = [l \in 1..12 |-> 0]
      BY <3>1, <3>2
    <3> QED
      BY <1>3, <2>2, <3>3 DEF F!None
  <2>3. CASE s # {}
    <3>1. PICK p, t : p = Pick(s) /\ t = s \ {p}
      OBVIOUS
    <3>2. p \in 1..n /\ t \in SUBSET (1..n)
      <4>1. p \in s
        BY <2>3, <3>1 DEF Pick
      <4> QED
        BY <3>1, <4>1
    <3>3. ASSUME NEW l \in 1..12 PROVE g[l][s] = parts[p][l] + g[l][t]
      <4>1. g[l][s] = OfLife(parts, l)[p] + g[l][t]
        BY <2>1, <2>3, <3>1
      <4>2. DOMAIN parts = 1..n
        OBVIOUS
      <4>3. OfLife(parts, l)[p] = parts[p][l]
        BY <3>2, <4>2 DEF OfLife
      <4> QED
        BY <4>1, <4>3
    <3>4. h[s] = [l \in 1..12 |-> parts[p][l] + h[t][l]]
      <4>1. h[s] = [l \in 1..12 |-> g[l][s]]
        BY <1>5
      <4>2. \A l \in 1..12 : h[t][l] = g[l][t]
        BY <1>5, <3>2
      <4> QED
        BY <3>3, <4>1, <4>2
    <3> QED
      BY <1>3, <2>3, <3>1, <3>4 DEF F!Add
  <2> QED
    BY <2>2, <2>3
<1>7. h = [s \in SUBSET (1..n) |->
             IF s = {} THEN F!None ELSE F!Add(parts[Pick(s)], h[s \ {Pick(s)}])]
  BY <1>5, <1>6
<1>8. v = [s \in SUBSET (1..n) |->
             IF s = {} THEN F!None ELSE F!Add(parts[Pick(s)], v[s \ {Pick(s)}])]
  BY <1>1, <1>7
<1>9. ASSUME NEW l \in 1..12
      PROVE  Total(OfLife(parts, l), 1..n, v[1..n][l])
  <2>1. PICK u : u = [s \in SUBSET (1..n) |-> v[s][l]]
    OBVIOUS
  <2>2. ASSUME NEW s \in SUBSET (1..n)
        PROVE  u[s] = IF s = {} THEN 0 ELSE OfLife(parts, l)[Pick(s)] + u[s \ {Pick(s)}]
    <3>1. CASE s = {}
      BY <1>3, <1>8, <2>1, <3>1 DEF F!None
    <3>2. CASE s # {}
      <4>1. PICK p, t : p = Pick(s) /\ t = s \ {p}
        OBVIOUS
      <4>2. p \in 1..n /\ t \in SUBSET (1..n)
        BY <3>2, <4>1 DEF Pick
      <4>3. v[s] = F!Add(parts[p], v[t])
        BY <1>8, <3>2, <4>1
      <4>4. v[s][l] = parts[p][l] + v[t][l]
        BY <1>3, <4>3 DEF F!Add
      <4> QED
        BY <2>1, <3>2, <4>1, <4>2, <4>4 DEF OfLife
    <3> QED
      BY <3>1, <3>2
  <2>3. SumsOver(u, OfLife(parts, l), 1..n)
    BY <2>1, <2>2 DEF SumsOver, Sums
  <2>4. u[1..n] = v[1..n][l]
    BY <2>1
  <2> QED
    BY <2>3, <2>4 DEF Total
<1>10. v[1..n] \in Amounts
  <2>1. v[1..n] = [l \in 1..12 |-> v[1..n][l]]
    BY <1>3, <1>8 DEF F!None, F!Add
  <2>2. ASSUME NEW l \in 1..12 PROVE v[1..n][l] \in Nat
    <3>1. PICK u : SumsOver(u, OfLife(parts, l), 1..n) /\ v[1..n][l] = u[1..n]
      BY <1>9 DEF Total
    <3>2. Weighs(OfLife(parts, l), 1..n)
      BY <1>3 DEF Weighs, OfLife, Amounts
    <3> QED
      BY <1>3, <3>1, <3>2, SumTyped
  <2> QED
    BY <1>3, <2>1, <2>2 DEF Amounts
<1> QED
  BY <1>2, <1>9, <1>10

\* Each event adds its burst.
LEMMA BurstGrows ==
  ASSUME NEW of \in [STRING -> Amounts], NEW list \in Seq(STRING), NEW k \in Nat, k < Len(list)
  PROVE  /\ Burst(of, SubSeq(list, 1, k)) \in Amounts
         /\ Burst(of, SubSeq(list, 1, k + 1)) \in Amounts
         /\ \A l \in 1..12 : Burst(of, SubSeq(list, 1, k + 1))[l]
                               = of[list[k + 1]][l] + Burst(of, SubSeq(list, 1, k))[l]
<1>1. PICK n \in Nat : n = Len(list)
  OBVIOUS
<1>2. ASSUME NEW m \in Nat, m <= n
      PROVE  /\ SubSeq(list, 1, m) \in Seq(STRING) /\ DOMAIN SubSeq(list, 1, m) = 1..m
             /\ \A i \in 1..m : SubSeq(list, 1, m)[i] = list[i] /\ list[i] \in STRING
  <2>1. \A i \in 1..m : list[i] \in STRING
    BY <1>1, <1>2
  <2>2. /\ SubSeq(list, 1, m) \in Seq(STRING)
        /\ Len(SubSeq(list, 1, m)) = IF 1 <= m THEN m - 1 + 1 ELSE 0
        /\ \A i \in 1..m - 1 + 1 : SubSeq(list, 1, m)[i] = list[1 + i - 1]
    <3>1. 1 \in Int /\ m \in Int
      OBVIOUS
    <3> QED
      BY <2>1, <3>1, SubSeqProperties
  <2>3. Len(SubSeq(list, 1, m)) = m
    BY <2>2
  <2>4. \A i \in 1..m : i \in 1..m - 1 + 1 /\ 1 + i - 1 = i
    OBVIOUS
  <2> QED
    BY <2>1, <2>2, <2>3, <2>4
<1>3. PICK a, b : a = [i \in 1..k |-> of[list[i]]] /\ b = [i \in 1..k + 1 |-> of[list[i]]]
  OBVIOUS
<1>4. k <= n /\ k + 1 \in Nat /\ k + 1 <= n
  BY <1>1
<1>5. /\ Burst(of, SubSeq(list, 1, k)) = F!FoldFunction(F!Add, F!None, a)
      /\ a \in [1..k -> Amounts]
  <2>1. [i \in DOMAIN SubSeq(list, 1, k) |-> of[SubSeq(list, 1, k)[i]]] = a
    BY <1>2, <1>3, <1>4
  <2> QED
    BY <1>2, <1>3, <1>4, <2>1 DEF Burst
<1>6. /\ Burst(of, SubSeq(list, 1, k + 1)) = F!FoldFunction(F!Add, F!None, b)
      /\ b \in [1..k + 1 -> Amounts]
  <2>1. [i \in DOMAIN SubSeq(list, 1, k + 1) |-> of[SubSeq(list, 1, k + 1)[i]]] = b
    BY <1>2, <1>3, <1>4
  <2> QED
    BY <1>2, <1>3, <1>4, <2>1 DEF Burst
<1>7. PICK x, y : x = F!FoldFunction(F!Add, F!None, a) /\ y = F!FoldFunction(F!Add, F!None, b)
  OBVIOUS
<1>8. x \in Amounts /\ \A l \in 1..12 : Total(OfLife(a, l), 1..k, x[l])
  BY <1>5, <1>7, FoldIsTotals
<1>9. y \in Amounts /\ \A l \in 1..12 : Total(OfLife(b, l), 1..k + 1, y[l])
  BY <1>4, <1>6, <1>7, FoldIsTotals
<1>10. ASSUME NEW l \in 1..12 PROVE y[l] = of[list[k + 1]][l] + x[l]
  <2>1. PICK w, z : w = OfLife(a, l) /\ z = OfLife(b, l)
    OBVIOUS
  <2>2. Total(w, 1..k, x[l]) /\ Total(z, 1..k + 1, y[l])
    BY <1>8, <1>9, <2>1
  <2>3. Grown(1..k, k + 1, 1..k + 1)
    <3>1. IsFiniteSet(1..k)
      BY IntervalCard
    <3> QED
      BY <3>1 DEF Grown
  <2>4. Agree(w, z, 1..k)
    BY <1>3, <2>1 DEF Agree, OfLife
  <2>5. Weighs(z, 1..k + 1)
    <3>1. \A i \in 1..k + 1 : b[i] \in Amounts
      BY <1>6
    <3>2. \A i \in 1..k + 1 : b[i][l] \in Nat
      BY <3>1 DEF Amounts, F!Lifetime
    <3>3. \A i \in 1..k + 1 : z[i] = b[i][l]
      BY <1>6, <2>1 DEF OfLife
    <3> QED
      BY <3>2, <3>3 DEF Weighs
  <2>6. y[l] = z[k + 1] + x[l]
    BY <2>2, <2>3, <2>4, <2>5, TotalAdds
  <2>7. z[k + 1] = of[list[k + 1]][l]
    BY <1>3, <2>1 DEF OfLife
  <2> QED
    BY <2>6, <2>7
<1> QED
  BY <1>5, <1>6, <1>7, <1>8, <1>9, <1>10

\* No events, no burst.
LEMMA NoBurst ==
  ASSUME NEW of, NEW list, DOMAIN list = {}
  PROVE  Burst(of, list) \in Amounts /\ \A l \in 1..12 : Burst(of, list)[l] = 0
<1>1. PICK parts : parts = [i \in DOMAIN list |-> of[list[i]]]
  OBVIOUS
<1>2. parts \in [1..0 -> Amounts] /\ 0 \in Nat
  BY <1>1
<1>3. PICK x : x = Burst(of, list)
  OBVIOUS
<1>4. x \in Amounts /\ \A l \in 1..12 : Total(OfLife(parts, l), 1..0, x[l])
  BY <1>1, <1>2, <1>3, FoldIsTotals DEF Burst
<1>5. ASSUME NEW l \in 1..12 PROVE x[l] = 0
  <2>1. PICK g : SumsOver(g, OfLife(parts, l), 1..0) /\ x[l] = g[1..0]
    BY <1>4 DEF Total
  <2>2. 1..0 = {}
    OBVIOUS
  <2> QED
    BY <2>1, <2>2, SumStep
<1> QED
  BY <1>3, <1>4, <1>5

-----------------------------------------------------------------------------
(* The limit on the particles                                              *)

SpritesOf == [e \in STRING |-> F!Sprites(e)]
NumbersOf == [e \in STRING |-> F!Numbers(e)]

\* What the particles and the events handled so far come to leaves room for one more.
Room(list, n) == F!SumFunction(sprites) + F!Spawned(SubSeq(list, 1, n)) < max_particles
Fits(list, n) == \A i \in 1..n : Room(list, i - 1)

\* What has a lifetime left is younger than the last thing spawned.
Fading(f, q) == \A l \in 1..12 : f[l] > 0 => l + q <= 12

ParticleInv ==
  /\ sprites \in Amounts /\ numbers \in Amounts
  /\ unread \in Seq(STRING) /\ quiet \in Nat
  /\ Sum12(sprites) < max_particles + F!LargestBurst
  /\ Fading(sprites, quiet) /\ Fading(numbers, quiet)

\* What a list of events spawns.
LEMMA AllIsBurst ==
  ASSUME NEW list \in Seq(STRING)
  PROVE  /\ F!All(F!Sprites, list) = Burst(SpritesOf, list)
         /\ F!All(F!Numbers, list) = Burst(NumbersOf, list)
<1>1. \A i \in DOMAIN list : list[i] \in STRING
  OBVIOUS
<1>2. [i \in DOMAIN list |-> SpritesOf[list[i]]] = [i \in DOMAIN list |-> F!Sprites(list[i])]
  BY <1>1 DEF SpritesOf
<1>3. [i \in DOMAIN list |-> NumbersOf[list[i]]] = [i \in DOMAIN list |-> F!Numbers(list[i])]
  BY <1>1 DEF NumbersOf
<1> QED
  BY <1>2, <1>3 DEF F!All, Burst

\* The kinds of bursts.
LEMMA BurstsTyped ==
  /\ SpritesOf \in [STRING -> Amounts] /\ NumbersOf \in [STRING -> Amounts]
  /\ \A e \in STRING : Sum12(SpritesOf[e]) <= F!LargestBurst
BY BurstTyped DEF SpritesOf, NumbersOf

\* There is a last place up to which a list fits.
LEMMA LastFit ==
  ASSUME NEW list \in Seq(STRING)
  PROVE  \E n \in 0..Len(list) : Fits(list, n) /\ \A m \in n + 1..Len(list) : ~Fits(list, m)
<1>1. PICK len \in Nat : len = Len(list)
  OBVIOUS
<1>2. PICK short : short = {d \in Nat : d <= len /\ Fits(list, len - d)}
  OBVIOUS
<1>3. len \in short
  <2>1. len - len = 0 /\ \A i \in 1..0 : FALSE
    BY <1>1
  <2>2. Fits(list, len - len)
    BY <2>1 DEF Fits
  <2> QED
    BY <1>1, <1>2, <2>2
<1>4. PICK d \in short : \A e \in short : d <= e
  <2>1. short \in SUBSET Nat /\ short # {}
    BY <1>2, <1>3
  <2> QED
    BY <2>1, LeastElement
<1>5. PICK n \in 0..len : n = len - d /\ Fits(list, n)
  BY <1>1, <1>2, <1>4
<1>6. ASSUME NEW m \in n + 1..len PROVE ~Fits(list, m)
  <2>0. d \in Nat /\ d <= len
    BY <1>2, <1>4
  <2>a. m \in Int /\ n + 1 <= m /\ m <= len /\ n = len - d
    BY <1>5
  <2>b. len - m \in Nat /\ len - m < d
    BY <2>0, <2>a
  <2>1. PICK e \in Nat : e = len - m /\ e < d
    BY <2>b
  <2>2. len - e = m /\ e <= len
    BY <1>1, <1>5, <2>1
  <2>3. e \notin short
    BY <1>4, <2>0, <2>1
  <2> QED
    BY <1>2, <2>1, <2>2, <2>3
<1> QED
  BY <1>1, <1>5, <1>6

\* The events handled fit.
LEMMA AdmittedFits ==
  ASSUME NEW list \in Seq(STRING)
  PROVE  F!Admitted(list) \in 0..Len(list) /\ Fits(list, F!Admitted(list))
<1>1. F!Admitted(list) =
        CHOOSE n \in 0..Len(list) : Fits(list, n) /\ \A m \in n + 1..Len(list) : ~Fits(list, m)
  BY DEF F!Admitted, Fits, Room
<1> QED
  BY <1>1, LastFit


\* Sums of sums.
LEMMA SumAdds ==
  ASSUME NEW f \in Amounts, NEW g \in Amounts, NEW h, \A l \in 1..12 : h[l] = f[l] + g[l]
  PROVE  Sum12(h) = Sum12(f) + Sum12(g)
<1>1. \A l \in 1..12 : f[l] \in Nat /\ g[l] \in Nat
  BY DEF Amounts, F!Lifetime
<1> QED
  BY <1>1 DEF Sum12

\* One more event adds at most the largest burst to what fits.
LEMMA HandledStaysBounded ==
  ASSUME NEW list \in Seq(STRING), NEW n \in 1..Len(list), Fits(list, n),
         sprites \in Amounts, max_particles \in Nat
  PROVE  Sum12(sprites) + Sum12(Burst(SpritesOf, SubSeq(list, 1, n)))
           < max_particles + F!LargestBurst
<1>1. PICK k \in Nat : k = n - 1 /\ k < Len(list) /\ k + 1 = n
  OBVIOUS
<1>2. Room(list, k)
  BY <1>1 DEF Fits
<1>3. SubSeq(list, 1, k) \in Seq(STRING)
  <2>1. \A i \in 1..k : list[i] \in STRING
    BY <1>1
  <2>2. 1 \in Int /\ k \in Int
    OBVIOUS
  <2> QED
    BY <2>1, <2>2, SubSeqProperties
<1>4. PICK a, b, e : /\ a = Burst(SpritesOf, SubSeq(list, 1, k))
                      /\ b = Burst(NumbersOf, SubSeq(list, 1, k))
                      /\ e = SpritesOf[list[k + 1]]
  OBVIOUS
<1>5. PICK c : c = Burst(SpritesOf, SubSeq(list, 1, n))
  OBVIOUS
<1>6. /\ a \in Amounts /\ c \in Amounts
      /\ \A l \in 1..12 : c[l] = e[l] + a[l]
  <2>1. SpritesOf \in [STRING -> Amounts]
    BY BurstsTyped
  <2>2. /\ a \in Amounts /\ Burst(SpritesOf, SubSeq(list, 1, k + 1)) \in Amounts
        /\ \A l \in 1..12 : Burst(SpritesOf, SubSeq(list, 1, k + 1))[l] = e[l] + a[l]
    BY <1>1, <1>4, <2>1, BurstGrows
  <2>3. c = Burst(SpritesOf, SubSeq(list, 1, k + 1))
    BY <1>1, <1>5
  <2> QED
    BY <2>2, <2>3
<1>7. b \in Amounts
  BY <1>1, <1>4, BurstsTyped, BurstGrows
<1>8. e \in Amounts /\ Sum12(e) <= F!LargestBurst
  <2>1. list[k + 1] \in STRING
    BY <1>1
  <2> QED
    BY <1>4, <2>1, BurstsTyped
<1>9. /\ F!Spawned(SubSeq(list, 1, k)) = Sum12(a) + Sum12(b)
      /\ Sum12(a) \in Nat /\ Sum12(b) \in Nat
  <2>1. F!Spawned(SubSeq(list, 1, k)) = F!SumFunction(a) + F!SumFunction(b)
    BY <1>3, <1>4, AllIsBurst DEF F!Spawned
  <2> QED
    BY <1>6, <1>7, <2>1, SumOfAmounts
<1>10. F!SumFunction(sprites) = Sum12(sprites) /\ Sum12(sprites) \in Nat
  BY SumOfAmounts
<1>11. Sum12(sprites) + (Sum12(a) + Sum12(b)) < max_particles
  BY <1>2, <1>9, <1>10 DEF Room
<1>12. Sum12(c) = Sum12(e) + Sum12(a)
  BY <1>6, <1>8, SumAdds
<1>13. Sum12(e) \in Nat /\ F!LargestBurst \in Nat
  BY <1>8, SumOfAmounts DEF F!LargestBurst
<1>14. PICK x \in Nat, y \in Nat, z \in Nat, u \in Nat, w \in Nat :
         /\ x = Sum12(sprites) /\ y = Sum12(a) /\ z = Sum12(b) /\ u = Sum12(e)
         /\ w = F!LargestBurst
  BY <1>9, <1>10, <1>13
<1>15. x + (u + y) < max_particles + w
  <2>1. u <= w
    BY <1>8, <1>14
  <2>2. x + (y + z) < max_particles
    BY <1>11, <1>14
  <2> QED
    BY <2>1, <2>2
<1> QED
  BY <1>5, <1>12, <1>14, <1>15

\* Time takes particles away.
LEMMA AgedShrinks ==
  ASSUME NEW f \in Amounts
  PROVE  /\ F!Aged(f) \in Amounts
         /\ \A l \in 1..12 : F!Aged(f)[l] = IF l = 12 THEN 0 ELSE f[l + 1]
         /\ Sum12(F!Aged(f)) <= Sum12(f) /\ Sum12(f) \in Nat /\ Sum12(F!Aged(f)) \in Nat
<1>1. F!Lifetime = 1..12 /\ DOMAIN f = 1..12 /\ \A l \in 1..12 : f[l] \in Nat
  BY DEF F!Lifetime, Amounts
<1>2. PICK g : g = F!Aged(f)
  OBVIOUS
<1>3. g = [l \in 1..12 |-> IF l + 1 \in 1..12 THEN f[l + 1] ELSE 0]
  BY <1>1, <1>2 DEF F!Aged
<1>4. \A l \in 1..12 : g[l] = IF l = 12 THEN 0 ELSE f[l + 1]
  BY <1>3
<1>5. g \in Amounts
  BY <1>1, <1>3 DEF Amounts
<1>6. /\ g[1] = f[2] /\ g[2] = f[3] /\ g[3] = f[4] /\ g[4] = f[5] /\ g[5] = f[6]
      /\ g[6] = f[7] /\ g[7] = f[8] /\ g[8] = f[9] /\ g[9] = f[10] /\ g[10] = f[11]
      /\ g[11] = f[12] /\ g[12] = 0
  BY <1>4
<1>7. Sum12(g) <= Sum12(f)
  BY <1>1, <1>6 DEF Sum12
<1> QED
  BY <1>2, <1>4, <1>5, <1>7, SumOfAmounts

\* Bursts put together.
LEMMA AddedUp ==
  ASSUME NEW f \in Amounts, NEW g \in Amounts
  PROVE  /\ F!Add(f, g) \in Amounts
         /\ \A l \in 1..12 : F!Add(f, g)[l] = f[l] + g[l]
         /\ Sum12(F!Add(f, g)) = Sum12(f) + Sum12(g)
<1>1. \A l \in 1..12 : f[l] \in Nat /\ g[l] \in Nat
  BY DEF Amounts, F!Lifetime
<1>2. PICK h : h = F!Add(f, g)
  OBVIOUS
<1>3. h = [l \in 1..12 |-> f[l] + g[l]]
  BY <1>2 DEF F!Add, F!Lifetime
<1>4. h \in Amounts /\ \A l \in 1..12 : h[l] = f[l] + g[l]
  BY <1>1, <1>3 DEF Amounts, F!Lifetime
<1>5. Sum12(h) = Sum12(f) + Sum12(g)
  BY <1>4, SumAdds
<1> QED
  BY <1>2, <1>4, <1>5

\* What only ages goes on fading.
LEMMA StillFading ==
  ASSUME NEW f \in Amounts, NEW q \in Nat, Fading(f, q), NEW g,
         \A l \in 1..12 : g[l] = F!Aged(f)[l], NEW r,
         r = IF q < 13 THEN q + 1 ELSE q
  PROVE  Fading(g, r)
<1> SUFFICES ASSUME NEW l \in 1..12, g[l] > 0 PROVE l + r <= 12
  BY DEF Fading
<1>1. g[l] = IF l = 12 THEN 0 ELSE f[l + 1]
  BY AgedShrinks
<1>2. l # 12 /\ f[l + 1] > 0 /\ l + 1 \in 1..12
  BY <1>1
<1>3. l + 1 + q <= 12
  BY <1>2 DEF Fading
<1> QED
  BY <1>3

\* A frame keeps the particles bounded, whatever events it brings.
LEMMA FrameKeepsParticles ==
  ASSUME ParticleInv, NEW batch \in Batches, F!Frame(batch)
  PROVE  ParticleInv'
<1>1. /\ sprites \in Amounts /\ numbers \in Amounts
      /\ unread \in Seq(STRING) /\ quiet \in Nat
      /\ Fading(sprites, quiet) /\ Fading(numbers, quiet)
  BY DEF ParticleInv
<1>2. max_particles \in Nat /\ batch \in Seq(STRING)
  BY ParticleAssumption
<1>3. PICK list : list = unread \o batch
  OBVIOUS
<1>4. list \in Seq(STRING)
  BY <1>1, <1>2, <1>3
<1>5. PICK n : n = F!Admitted(list)
  OBVIOUS
<1>6. n \in 0..Len(list) /\ Fits(list, n)
  BY <1>4, <1>5, AdmittedFits
<1>7. PICK done, rest : /\ done = SubSeq(list, 1, n)
                        /\ rest = SubSeq(list, n + 2, Len(list))
  OBVIOUS
<1>8. PICK s, m : s = Burst(SpritesOf, done) /\ m = Burst(NumbersOf, done)
  OBVIOUS
<1>9. done \in Seq(STRING) /\ rest \in Seq(STRING)
  <2>1. \A i \in 1..Len(list) : list[i] \in STRING
    BY <1>4
  <2>2. n \in Int /\ 1 \in Int /\ n + 2 \in Int /\ Len(list) \in Int
    BY <1>4, <1>6
  <2>3. \A i \in 1..n : list[i] \in STRING
    BY <1>6, <2>1
  <2>4. \A i \in n + 2..Len(list) : list[i] \in STRING
    BY <1>6, <2>1
  <2>5. done \in Seq(STRING)
    BY <1>4, <1>7, <2>2, <2>3, SubSeqProperties
  <2>6. rest \in Seq(STRING)
    BY <1>4, <1>7, <2>2, <2>4, SubSeqProperties
  <2> QED
    BY <2>5, <2>6
<1>10. /\ sprites' = F!Add(F!Aged(sprites), s) /\ numbers' = F!Add(F!Aged(numbers), m)
       /\ unread' \in {rest, <<>>}
       /\ quiet' = IF n > 0 THEN 0 ELSE IF quiet < 13 THEN quiet + 1 ELSE quiet
  <2>1. F!All(F!Sprites, done) = s /\ F!All(F!Numbers, done) = m
    BY <1>8, <1>9, AllIsBurst
  <2> QED
    BY <1>3, <1>5, <1>7, <2>1 DEF F!Frame
<1>11. unread' \in Seq(STRING) /\ quiet' \in Nat
  <2>1. <<>> \in Seq(STRING)
    OBVIOUS
  <2>2. unread' \in Seq(STRING)
    BY <1>9, <1>10, <2>1
  <2>3. quiet' \in Nat
    BY <1>1, <1>10
  <2> QED
    BY <2>2, <2>3
<1>12. s \in Amounts /\ m \in Amounts
  <2>1. CASE n = 0
    <3>1. DOMAIN done = {}
      <4>1. Len(done) = 0
        BY <1>4, <1>7, <2>1
      <4> QED
        BY <1>9, <4>1
    <3> QED
      BY <1>8, <3>1, NoBurst
  <2>2. CASE n > 0
    <3>1. PICK k \in Nat : k < Len(list) /\ k + 1 = n
      <4>1. n - 1 \in Nat /\ n - 1 < Len(list) /\ (n - 1) + 1 = n
        BY <1>4, <1>6, <2>2
      <4> QED
        BY <4>1
    <3>2. SpritesOf \in [STRING -> Amounts] /\ NumbersOf \in [STRING -> Amounts]
      BY BurstsTyped
    <3>3. done = SubSeq(list, 1, k + 1)
      BY <1>7, <3>1
    <3>4. Burst(SpritesOf, done) \in Amounts
      BY <1>4, <3>1, <3>2, <3>3, BurstGrows
    <3>5. Burst(NumbersOf, done) \in Amounts
      BY <1>4, <3>1, <3>2, <3>3, BurstGrows
    <3> QED
      BY <1>8, <3>4, <3>5
  <2> QED
    BY <1>6, <2>1, <2>2
<1>13. sprites' \in Amounts /\ numbers' \in Amounts
  BY <1>1, <1>10, <1>12, AgedShrinks, AddedUp
<1>14. PICK older, olden : older = F!Aged(sprites) /\ olden = F!Aged(numbers)
  OBVIOUS
<1>15. /\ older \in Amounts /\ Sum12(older) <= Sum12(sprites)
       /\ Sum12(older) \in Nat /\ Sum12(sprites) \in Nat
  BY <1>1, <1>14, AgedShrinks
<1>16. olden \in Amounts
  BY <1>1, <1>14, AgedShrinks
<1>17. /\ Sum12(sprites') = Sum12(older) + Sum12(s)
       /\ \A l \in 1..12 : sprites'[l] = older[l] + s[l]
  BY <1>10, <1>12, <1>14, <1>15, AddedUp
<1>18. \A l \in 1..12 : numbers'[l] = olden[l] + m[l]
  BY <1>10, <1>12, <1>14, <1>16, AddedUp
<1>19. CASE n = 0
  <2>1. /\ \A l \in 1..12 : s[l] = 0 /\ m[l] = 0
    <3>1. DOMAIN done = {}
      <4>1. Len(done) = 0
        BY <1>4, <1>7, <1>19
      <4> QED
        BY <1>9, <4>1
    <3> QED
      BY <1>8, <3>1, NoBurst
  <2>2. Sum12(s) = 0
    BY <2>1 DEF Sum12
  <2>3. Sum12(sprites') < max_particles + F!LargestBurst
    <3>1. Sum12(sprites) < max_particles + F!LargestBurst /\ F!LargestBurst \in Nat
      BY DEF ParticleInv, F!LargestBurst
    <3> QED
      BY <1>2, <1>15, <1>17, <2>2, <3>1
  <2>a. quiet' = IF quiet < 13 THEN quiet + 1 ELSE quiet
    BY <1>10, <1>19
  <2>4. Fading(sprites', quiet')
    <3>1. \A l \in 1..12 : sprites'[l] = F!Aged(sprites)[l]
      <4>1. \A l \in 1..12 : older[l] \in Nat
        BY <1>15 DEF Amounts, F!Lifetime
      <4> QED
        BY <1>14, <1>17, <2>1, <4>1
    <3> QED
      BY <1>1, <2>a, <3>1, StillFading
  <2>5. Fading(numbers', quiet')
    <3>1. \A l \in 1..12 : numbers'[l] = F!Aged(numbers)[l]
      <4>1. \A l \in 1..12 : olden[l] \in Nat
        BY <1>16 DEF Amounts, F!Lifetime
      <4> QED
        BY <1>14, <1>18, <2>1, <4>1
    <3> QED
      BY <1>1, <2>a, <3>1, StillFading
  <2> QED
    BY <1>11, <1>13, <2>3, <2>4, <2>5 DEF ParticleInv
<1>20. CASE n > 0
  <2>1. Sum12(sprites) + Sum12(s) < max_particles + F!LargestBurst
    BY <1>1, <1>2, <1>4, <1>6, <1>7, <1>8, <1>20, HandledStaysBounded
  <2>2. Sum12(s) \in Nat /\ F!LargestBurst \in Nat
    BY <1>12, SumOfAmounts DEF F!LargestBurst
  <2>3. Sum12(sprites') < max_particles + F!LargestBurst
    BY <1>2, <1>15, <1>17, <2>1, <2>2, SMTT(30)
  <2>4. quiet' = 0
    BY <1>10, <1>20
  <2>5. Fading(sprites', quiet') /\ Fading(numbers', quiet')
    BY <2>4 DEF Fading
  <2> QED
    BY <1>11, <1>13, <2>3, <2>5 DEF ParticleInv
<1> QED
  BY <1>6, <1>19, <1>20

\* With the effects switched off nothing is spawned.
LEMMA DisabledKeepsParticles ==
  ASSUME ParticleInv, F!Disabled
  PROVE  ParticleInv'
<1>1. /\ sprites \in Amounts /\ numbers \in Amounts /\ quiet \in Nat
      /\ Fading(sprites, quiet) /\ Fading(numbers, quiet)
      /\ Sum12(sprites) < max_particles + F!LargestBurst
  BY DEF ParticleInv
<1>2. /\ sprites' = F!Aged(sprites) /\ numbers' = F!Aged(numbers) /\ unread' = <<>>
      /\ quiet' = IF quiet < 13 THEN quiet + 1 ELSE quiet
  BY DEF F!Disabled
<1>3. unread' \in Seq(STRING) /\ quiet' \in Nat
  BY <1>1, <1>2
<1>4. /\ sprites' \in Amounts /\ Sum12(sprites') <= Sum12(sprites)
      /\ Sum12(sprites') \in Nat /\ Sum12(sprites) \in Nat
  BY <1>1, <1>2, AgedShrinks
<1>5. numbers' \in Amounts
  BY <1>1, <1>2, AgedShrinks
<1>6. Fading(sprites', quiet')
  BY <1>1, <1>2, <1>4, StillFading
<1>7. Fading(numbers', quiet')
  BY <1>1, <1>2, <1>5, StillFading
<1>8. Sum12(sprites') < max_particles + F!LargestBurst
  BY <1>1, <1>4, ParticleAssumption DEF F!LargestBurst
<1> QED
  BY <1>3, <1>4, <1>5, <1>6, <1>7, <1>8 DEF ParticleInv

\* Particles exceed their limit by less than one burst, whatever the events of a
\* frame and of those before it, and all are gone once nothing was spawned for
\* the longest lifetime.
THEOREM ParticlesStayBounded == MCSpec => []ParticlesBounded
<1>1. MCInit => ParticleInv
  <2> SUFFICES ASSUME MCInit PROVE ParticleInv
    OBVIOUS
  <2>1. sprites = F!None /\ numbers = F!None /\ unread = <<>> /\ quiet = 0
    BY DEF MCInit, F!Init
  <2>2. F!None \in Amounts /\ \A l \in 1..12 : F!None[l] = 0
    BY DEF F!None, Amounts, F!Lifetime
  <2>3. Sum12(F!None) = 0
    BY <2>2 DEF Sum12
  <2>4. max_particles \in Nat /\ F!LargestBurst = 20 /\ <<>> \in Seq(STRING)
    BY ParticleAssumption DEF F!LargestBurst
  <2>5. 0 < max_particles + F!LargestBurst
    BY <2>4
  <2>6. Fading(F!None, 0)
    BY <2>2 DEF Fading
  <2> QED
    BY <2>1, <2>2, <2>3, <2>4, <2>5, <2>6 DEF ParticleInv
<1>2. ParticleInv /\ [MCNext]_allvars => ParticleInv'
  <2> SUFFICES ASSUME ParticleInv, [MCNext]_allvars PROVE ParticleInv'
    OBVIOUS
  <2>1. CASE Sparkle
    BY <2>1, FrameKeepsParticles, DisabledKeepsParticles DEF Sparkle, F!Next
  <2>2. CASE UNCHANGED spriteVars
    BY <2>2 DEF spriteVars, ParticleInv, Fading, Sum12
  <2> QED
    BY <2>1, <2>2 DEF MCNext, Trade, Shop, Craft, Quest, Learn, Live, Happen, Touch, Show,
                      Play, allvars, clientVars
<1>3. ParticleInv => ParticlesBounded
  <2> SUFFICES ASSUME ParticleInv PROVE F!ParticlesBounded
    BY DEF ParticlesBounded
  <2>1. /\ sprites \in Amounts /\ numbers \in Amounts /\ quiet \in Nat
        /\ Fading(sprites, quiet) /\ Fading(numbers, quiet)
        /\ Sum12(sprites) < max_particles + F!LargestBurst
    BY DEF ParticleInv
  <2>2. F!SumFunction(sprites) = Sum12(sprites)
    BY <2>1, SumOfAmounts
  <2>3. ASSUME NEW f \in Amounts, Fading(f, quiet), quiet >= 12 PROVE f = F!None
    <3>1. ASSUME NEW l \in 1..12 PROVE f[l] = 0
      <4>1. f[l] \in Nat
        BY DEF Amounts, F!Lifetime
      <4>2. ~(l + quiet <= 12)
        BY <2>1, <2>3
      <4>3. ~(f[l] > 0)
        BY <2>3, <4>2 DEF Fading
      <4> QED
        BY <4>1, <4>3
    <3>2. f = [l \in 1..12 |-> f[l]]
      BY DEF Amounts, F!Lifetime
    <3> QED
      BY <3>1, <3>2 DEF F!None, F!Lifetime
  <2>4. quiet >= 12 => sprites = F!None /\ numbers = F!None
    BY <2>1, <2>3
  <2> QED
    BY <2>1, <2>2, <2>4 DEF F!ParticlesBounded
<1> QED
  BY <1>1, <1>2, <1>3, PTL DEF MCSpec
-----------------------------------------------------------------------------
(* The game world                                                          *)

\* The instance of GameWorld counts as this module does.
LEMMA WorldCounts == \A set : W!Cardinality(set) = Cardinality(set)
BY Zenon DEF W!Cardinality, Cardinality

Places == {"ground", "above", "below", "origin", "patrol"}

\* An entity is dead exactly when its health is gone.
Entity ==
  {e \in [kind : W!Kinds \cup Address, health : Nat, maximum : Nat \ {0},
          is_dead : BOOLEAN, place : Places] : e.is_dead <=> e.health = 0}

\* How a tick that succeeds leaves an entity.
AtPeace(e) == (e.kind \in Address => ~e.is_dead) /\ e.place # "below"

\* The spawn points of the code.
LEMMA SpawnPoints ==
  /\ DOMAIN W!spawn_configs = 1..10
  /\ \A p \in 1..10 : /\ W!archetype(p) \in W!Kinds /\ W!max_count(p) \in Nat
                      /\ W!respawn_cooldown(p) \in Nat
                      /\ W!Npc(p) \in Entity /\ AtPeace(W!Npc(p))
                      /\ W!Npc(p).kind = W!archetype(p)
<1>1. DOMAIN W!spawn_configs = 1..10
  BY DEF W!spawn_configs
<1>2. ASSUME NEW kind \in W!Kinds
      PROVE  /\ W!default_archetypes[kind].max_health \in Nat \ {0}
             /\ W!default_archetypes[kind].respawn_ticks \in Nat
             /\ kind \notin Address
  <2>1. kind \in {"merchant", "guard", "wolf", "rabbit", "dragon", "skeleton"}
    BY DEF W!Kinds, W!default_archetypes
  <2> QED
    BY <2>1, WorldAssumption DEF W!default_archetypes, W!NpcArchetype
<1>3. ASSUME NEW p \in 1..10 PROVE W!archetype(p) \in W!Kinds /\ W!max_count(p) \in Nat
  <2>1. \/ p = 1 \/ p = 2 \/ p = 3 \/ p = 4 \/ p = 5
        \/ p = 6 \/ p = 7 \/ p = 8 \/ p = 9 \/ p = 10
    OBVIOUS
  <2>2. W!Kinds = {"merchant", "guard", "wolf", "rabbit", "dragon", "skeleton"}
    BY DEF W!Kinds, W!default_archetypes
  <2> QED
    BY <2>1, <2>2 DEF W!archetype, W!max_count, W!spawn_configs
<1>4. ASSUME NEW n \in Nat PROVE n \div RespawnUnit \in Nat
  BY WorldAssumption
<1>5. ASSUME NEW p \in 1..10
      PROVE  /\ W!Npc(p) \in Entity /\ AtPeace(W!Npc(p))
             /\ W!Npc(p).kind = W!archetype(p)
  <2>1. PICK kind \in W!Kinds : kind = W!archetype(p)
    BY <1>3
  <2>2. PICK health \in Nat \ {0} : health = W!default_archetypes[kind].max_health
    BY <1>2
  <2>3. W!Npc(p) = [kind |-> kind, health |-> health, maximum |-> health, is_dead |-> FALSE,
                    place |-> "ground"]
    BY <2>1, <2>2 DEF W!Npc
  <2>4. kind \notin Address
    BY <1>2
  <2>5. PICK e : e = W!Npc(p)
    OBVIOUS
  <2>6. e.kind = kind /\ e.health = health /\ e.maximum = health /\ e.is_dead = FALSE
        /\ e.place = "ground" /\ "ground" \in Places /\ "ground" # "below"
    BY <2>3, <2>5 DEF Places
  <2>7. e \in Entity
    BY <2>3, <2>5, <2>6 DEF Entity
  <2>8. AtPeace(e)
    BY <2>4, <2>6 DEF AtPeace
  <2> QED
    BY <2>1, <2>5, <2>6, <2>7, <2>8
<1> QED
  BY <1>1, <1>2, <1>3, <1>4, <1>5 DEF W!respawn_cooldown

\* What is done to an entity keeps its kind.
LEMMA HealedIsEntity ==
  ASSUME NEW e \in Entity
  PROVE  /\ W!Healed(e) \in Entity /\ W!Healed(e).kind = e.kind
         /\ AtPeace(W!Healed(e))
<1>1. e = [kind |-> e.kind, health |-> e.health, maximum |-> e.maximum,
           is_dead |-> e.is_dead, place |-> e.place]
  BY DEF Entity
<1>2. PICK f : f = W!Healed(e)
  OBVIOUS
<1>3. e.kind \in W!Kinds \cup Address /\ e.maximum \in Nat \ {0} /\ e.maximum \in Nat
  BY DEF Entity
<1>4. f = [kind |-> e.kind, health |-> e.maximum, maximum |-> e.maximum,
           is_dead |-> FALSE, place |-> "origin"]
  <2>1. f = [[[e EXCEPT !.health = e.maximum] EXCEPT !.is_dead = FALSE] EXCEPT !.place = "origin"]
    BY <1>2 DEF W!Healed
  <2> QED
    BY <1>1, <2>1
<1>5. /\ f.kind = e.kind /\ f.health = e.maximum /\ f.is_dead = FALSE /\ f.place = "origin"
      /\ "origin" \in Places /\ "origin" # "below"
  BY <1>4 DEF Places
<1>6. f \in Entity
  BY <1>3, <1>4, <1>5 DEF Entity
<1>7. AtPeace(f)
  BY <1>5 DEF AtPeace
<1> QED
  BY <1>2, <1>5, <1>6, <1>7

\* A move.
LEMMA PlacedIsEntity ==
  ASSUME NEW e \in Entity, NEW place \in Places
  PROVE  /\ [e EXCEPT !.place = place] \in Entity
         /\ [e EXCEPT !.place = place].kind = e.kind
         /\ [e EXCEPT !.place = place].place = place
<1>1. PICK f : f = [e EXCEPT !.place = place]
  OBVIOUS
<1>2. f = [kind |-> e.kind, health |-> e.health, maximum |-> e.maximum,
           is_dead |-> e.is_dead, place |-> place]
  BY <1>1 DEF Entity
<1>3. /\ e.kind \in W!Kinds \cup Address /\ e.maximum \in Nat \ {0} /\ e.health \in Nat
      /\ e.is_dead \in BOOLEAN /\ (e.is_dead <=> e.health = 0)
  BY DEF Entity
<1>4. f \in Entity /\ f.kind = e.kind /\ f.place = place
  BY <1>2, <1>3 DEF Entity
<1> QED
  BY <1>1, <1>4

\* A hit.
LEMMA HitIsEntity ==
  ASSUME NEW e \in Entity, NEW times \in Nat
  PROVE  W!Hit(e, times) \in Entity /\ W!Hit(e, times).kind = e.kind
<1>1. /\ e.kind \in W!Kinds \cup Address /\ e.maximum \in Nat \ {0} /\ e.health \in Nat
      /\ e.is_dead \in BOOLEAN /\ (e.is_dead <=> e.health = 0) /\ e.place \in Places
  BY DEF Entity
<1>2. e = [kind |-> e.kind, health |-> e.health, maximum |-> e.maximum,
           is_dead |-> e.is_dead, place |-> e.place]
  BY DEF Entity
<1>3. PICK damage \in Nat : damage = 10 * times
  OBVIOUS
<1>4. CASE e.health <= damage
  <2>1. W!Hit(e, times) = [kind |-> e.kind, health |-> 0, maximum |-> e.maximum,
                           is_dead |-> TRUE, place |-> e.place]
    BY <1>2, <1>3, <1>4 DEF W!Hit
  <2> QED
    BY <1>1, <2>1 DEF Entity
<1>5. CASE ~(e.health <= damage)
  <2>1. W!Hit(e, times) = [kind |-> e.kind, health |-> e.health - damage,
                           maximum |-> e.maximum, is_dead |-> e.is_dead, place |-> e.place]
    BY <1>2, <1>3, <1>5 DEF W!Hit
  <2>2. e.health - damage \in Nat /\ e.health - damage # 0 /\ e.is_dead = FALSE
    BY <1>1, <1>5
  <2> QED
    BY <1>1, <2>1, <2>2 DEF Entity
<1> QED
  BY <1>4, <1>5

\* The systems of a tick.
Ticked(e) == W!RespawnDead(W!Combat(W!NpcAi(W!Physics(e))))

\* They leave every entity at peace.
LEMMA TickedIsEntity ==
  ASSUME NEW e \in Entity
  PROVE  Ticked(e) \in Entity /\ Ticked(e).kind = e.kind /\ AtPeace(Ticked(e))
<1>1. PICK f : f = W!Physics(e)
  OBVIOUS
<1>2. f \in Entity /\ f.kind = e.kind /\ f.place # "below"
  <2>1. CASE e.place = "below"
    <3>1. f = [e EXCEPT !.place = "ground"]
      BY <1>1, <2>1 DEF W!Physics
    <3>2. "ground" \in Places /\ "ground" # "below"
      BY DEF Places
    <3> QED
      BY <3>1, <3>2, PlacedIsEntity
  <2>2. CASE e.place # "below"
    BY <1>1, <2>2 DEF W!Physics
  <2> QED
    BY <2>1, <2>2
<1>3. PICK g : g = W!NpcAi(f)
  OBVIOUS
<1>4. g \in Entity /\ g.kind = e.kind /\ g.place # "below"
  <2>1. g = f \/ g = [f EXCEPT !.place = "patrol"]
    BY <1>3 DEF W!NpcAi
  <2>2. "patrol" \in Places /\ "patrol" # "below"
    BY DEF Places
  <2>3. CASE g = [f EXCEPT !.place = "patrol"]
    BY <1>2, <2>2, <2>3, PlacedIsEntity
  <2> QED
    BY <1>2, <2>1, <2>3
<1>5. W!Combat(g) = g
  <2>1. g.is_dead <=> g.health = 0
    BY <1>4 DEF Entity
  <2> QED
    BY <2>1 DEF W!Combat
<1>6. Ticked(e) = W!RespawnDead(g)
  BY <1>1, <1>3, <1>5 DEF Ticked
<1>7. CASE g.kind \in Address /\ g.is_dead
  BY <1>4, <1>6, <1>7, HealedIsEntity DEF W!RespawnDead
<1>8. CASE ~(g.kind \in Address /\ g.is_dead)
  BY <1>4, <1>6, <1>8 DEF W!RespawnDead, AtPeace
<1> QED
  BY <1>7, <1>8

\* No two entities are one player.
Alone(es) ==
  \A i, j \in DOMAIN es : es[i].kind \in Address /\ es[i].kind = es[j].kind => i = j

\* The NPCs of a kind.
Npcs(es, kind) == {id \in DOMAIN es : es[id].kind = kind}

\* fs has the same NPCs as es, and perhaps another player.
SameNpcs(es, fs) == \A kind \in W!Kinds : Npcs(es, kind) = Npcs(fs, kind)

World(es) == es \in Seq(Entity) /\ Alone(es)
Calm(es) == \A id \in DOMAIN es : AtPeace(es[id])

\* Entities that change without changing their kinds.
LEMMA ChangedWorld ==
  ASSUME NEW es, World(es), NEW fs, DOMAIN fs = DOMAIN es,
         fs = [id \in DOMAIN es |-> fs[id]],
         \A id \in DOMAIN es : fs[id] \in Entity /\ fs[id].kind = es[id].kind
  PROVE  World(fs) /\ SameNpcs(es, fs)
<1>1. PICK n \in Nat : n = Len(es) /\ DOMAIN es = 1..n
  BY DEF World
<1>2. fs \in [1..n -> Entity]
  BY <1>1
<1>3. fs \in Seq(Entity)
  BY <1>2, SeqIntro
<1>4. Alone(fs)
  BY DEF Alone, World
<1>5. SameNpcs(es, fs)
  BY DEF SameNpcs, Npcs
<1> QED
  BY <1>3, <1>4, <1>5 DEF World

\* A new player.
LEMMA JoinedWorld ==
  ASSUME NEW es, World(es), NEW e \in Entity, e.kind \in Address,
         \A id \in DOMAIN es : es[id].kind # e.kind
  PROVE  World(Append(es, e)) /\ SameNpcs(es, Append(es, e))
<1>1. PICK fs : fs = Append(es, e)
  OBVIOUS
<1>2. PICK n \in Nat : n = Len(es) /\ DOMAIN es = 1..n
  BY DEF World
<1>3. es \in Seq(Entity)
  BY DEF World
<1>4. fs \in Seq(Entity) /\ Len(fs) = n + 1
  BY <1>1, <1>2, <1>3
<1>5. DOMAIN fs = 1..n + 1
  BY <1>2, <1>4
<1>6. fs[n + 1] = e /\ \A id \in 1..n : fs[id] = es[id]
  BY <1>1, <1>2, <1>3
<1>7. \A id \in 1..n + 1 : id = n + 1 \/ id \in 1..n
  BY <1>2
<1>8. Alone(fs)
  <2> SUFFICES ASSUME NEW i \in 1..n + 1, NEW j \in 1..n + 1,
                      fs[i].kind \in Address, fs[i].kind = fs[j].kind
               PROVE  i = j
    BY <1>5 DEF Alone
  <2>1. CASE i \in 1..n /\ j \in 1..n
    BY <1>2, <1>6, <2>1 DEF World, Alone
  <2>2. CASE i = n + 1 /\ j \in 1..n
    BY <1>2, <1>6, <2>2
  <2>3. CASE i \in 1..n /\ j = n + 1
    BY <1>2, <1>6, <2>3
  <2> QED
    BY <1>7, <2>1, <2>2, <2>3
<1>9. SameNpcs(es, fs)
  <2> SUFFICES ASSUME NEW kind \in W!Kinds PROVE Npcs(es, kind) = Npcs(fs, kind)
    BY DEF SameNpcs
  <2>1. kind # e.kind
    BY WorldAssumption
  <2>2. \A id \in 1..n : id \in 1..n + 1
    BY <1>2
  <2> QED
    BY <1>2, <1>5, <1>6, <1>7, <2>1, <2>2 DEF Npcs
<1> QED
  BY <1>1, <1>4, <1>8, <1>9 DEF World

\* An action of a player, other than an attack on nobody.
LEMMA ActionKeepsWorld ==
  ASSUME NEW es, World(es), NEW a \in W!Action, ~W!Fails(es, a)
  PROVE  World(W!ProcessAction(es, a)) /\ SameNpcs(es, W!ProcessAction(es, a))
<1>1. \A id \in DOMAIN es : es[id] \in Entity
  BY DEF World
<1>2. PICK fs : fs = W!ProcessAction(es, a)
  OBVIOUS
<1>3. CASE a.do = "Move"
  <2>1. a.by \in Address /\ a.place \in Places
    BY <1>3 DEF W!Action, Places
  <2>2. CASE W!Players(es, a.by) = {}
    <3>1. PICK e : e = W!NewPlayer(a.by, a.place)
      OBVIOUS
    <3>2. fs = Append(es, e)
      BY <1>2, <1>3, <2>2, <3>1 DEF W!ProcessAction
    <3>3. /\ e = [kind |-> a.by, health |-> 100, maximum |-> 100, is_dead |-> FALSE,
                  place |-> a.place]
      BY <3>1 DEF W!NewPlayer
    <3>4. e \in Entity /\ e.kind = a.by
      BY <2>1, <3>3 DEF Entity
    <3>5. \A id \in DOMAIN es : es[id].kind # e.kind
      BY <2>2, <3>4 DEF W!Players
    <3> QED
      BY <1>2, <2>1, <3>2, <3>4, <3>5, JoinedWorld
  <2>3. CASE W!Players(es, a.by) # {}
    <3>1. fs = [id \in DOMAIN es |-> IF id \in W!Players(es, a.by)
                                     THEN [es[id] EXCEPT !.place = a.place] ELSE es[id]]
      BY <1>2, <1>3, <2>3 DEF W!ProcessAction
    <3>2. \A id \in DOMAIN es : fs[id] \in Entity /\ fs[id].kind = es[id].kind
      BY <1>1, <2>1, <3>1, PlacedIsEntity
    <3>3. DOMAIN fs = DOMAIN es /\ fs = [id \in DOMAIN es |-> fs[id]]
      BY <3>1
    <3> QED
      BY <1>2, <3>2, <3>3, ChangedWorld
  <2> QED
    BY <2>2, <2>3
<1>4. CASE a.do = "Respawn"
  <2>1. fs = [id \in DOMAIN es |-> IF id \in W!Players(es, a.by)
                                   THEN W!Healed(es[id]) ELSE es[id]]
    BY <1>2, <1>4 DEF W!ProcessAction
  <2>2. \A id \in DOMAIN es : fs[id] \in Entity /\ fs[id].kind = es[id].kind
    BY <1>1, <2>1, HealedIsEntity
  <2>3. DOMAIN fs = DOMAIN es /\ fs = [id \in DOMAIN es |-> fs[id]]
    BY <2>1
  <2> QED
    BY <1>2, <2>2, <2>3, ChangedWorld
<1>5. CASE a.do = "Attack"
  <2>1. a.target \in DOMAIN es /\ a.times \in Nat
    BY <1>5, WorldAssumption DEF W!Fails, W!Action
  <2>2. PICK target, e : target = a.target /\ e = W!Hit(es[target], a.times)
    OBVIOUS
  <2>3. e \in Entity /\ e.kind = es[target].kind
    BY <1>1, <2>1, <2>2, HitIsEntity
  <2>4. fs = [es EXCEPT ![target] = e]
    BY <1>2, <1>5, <2>2 DEF W!ProcessAction
  <2>5. /\ DOMAIN fs = DOMAIN es /\ fs = [id \in DOMAIN es |-> fs[id]]
        /\ \A id \in DOMAIN es : fs[id] = IF id = target THEN e ELSE es[id]
    <3>1. es \in Seq(Entity)
      BY DEF World
    <3> QED
      BY <2>1, <2>2, <2>4, <3>1
  <2>6. \A id \in DOMAIN es : fs[id] \in Entity /\ fs[id].kind = es[id].kind
    BY <1>1, <2>3, <2>5
  <2> QED
    BY <1>2, <2>5, <2>6, ChangedWorld
<1> QED
  BY <1>3, <1>4, <1>5 DEF W!Action

\* The systems of a tick.
LEMMA SystemsKeepWorld ==
  ASSUME NEW es, World(es)
  PROVE  World(W!RunTick(es)) /\ SameNpcs(es, W!RunTick(es)) /\ Calm(W!RunTick(es))
<1>1. \A id \in DOMAIN es : es[id] \in Entity
  BY DEF World
<1>2. PICK fs : fs = W!RunTick(es)
  OBVIOUS
<1>3. fs = [id \in DOMAIN es |-> Ticked(es[id])]
  BY <1>2 DEF W!RunTick, Ticked
<1>4. \A id \in DOMAIN es : /\ fs[id] \in Entity /\ fs[id].kind = es[id].kind
                            /\ AtPeace(fs[id])
  BY <1>1, <1>3, TickedIsEntity
<1>5. DOMAIN fs = DOMAIN es /\ fs = [id \in DOMAIN es |-> fs[id]]
  BY <1>3
<1>6. World(fs) /\ SameNpcs(es, fs)
  BY <1>4, <1>5, ChangedWorld
<1>7. Calm(fs)
  BY <1>4, <1>5 DEF Calm
<1> QED
  BY <1>2, <1>6, <1>7

\* A state of the loop over the actions of a tick.
Underway(w) ==
  /\ w = [es |-> w.es, ok |-> w.ok] /\ w.ok \in BOOLEAN
  /\ World(w.es) /\ SameNpcs(entities, w.es)

\* One action more.
LEMMA NextKeepsWorld ==
  ASSUME NEW w, Underway(w), NEW a \in W!Action
  PROVE  Underway(W!ProcessNext(w, a))
<1>1. PICK es, ok : es = w.es /\ ok = w.ok
  OBVIOUS
<1>2. w = [es |-> es, ok |-> ok] /\ ok \in BOOLEAN /\ World(es) /\ SameNpcs(entities, es)
  BY <1>1 DEF Underway
<1>3. PICK v : v = W!ProcessNext(w, a)
  OBVIOUS
<1>4. CASE ~ok
  <2>1. v = w
    BY <1>1, <1>3, <1>4 DEF W!ProcessNext
  <2> QED
    BY <1>3, <2>1
<1>5. CASE ok /\ W!Fails(es, a)
  <2>1. v = [es |-> es, ok |-> FALSE]
    BY <1>1, <1>2, <1>3, <1>5 DEF W!ProcessNext
  <2>2. v.es = es /\ v.ok = FALSE /\ FALSE \in BOOLEAN
    BY <2>1
  <2>3. v = [es |-> v.es, ok |-> v.ok]
    BY <2>1, <2>2
  <2>4. v.ok \in BOOLEAN
    BY <2>2
  <2> QED
    BY <1>2, <1>3, <2>2, <2>3, <2>4 DEF Underway
<1>6. CASE ok /\ ~W!Fails(es, a)
  <2>1. PICK fs : fs = W!ProcessAction(es, a)
    OBVIOUS
  <2>2. v = [es |-> fs, ok |-> ok]
    BY <1>1, <1>2, <1>3, <1>6, <2>1 DEF W!ProcessNext
  <2>3. World(fs) /\ SameNpcs(es, fs)
    BY <1>2, <1>6, <2>1, ActionKeepsWorld
  <2>4. SameNpcs(entities, fs)
    BY <1>2, <2>3 DEF SameNpcs
  <2> QED
    BY <1>2, <1>3, <2>2, <2>3, <2>4 DEF Underway
<1> QED
  BY <1>4, <1>5, <1>6

\* The actions of a block.
LEMMA BlockKeepsWorld ==
  ASSUME World(entities), NEW list \in Seq(W!Action), Len(list) \in 1..2
  PROVE  Underway(W!Processed(list))
<1>1. PICK len \in {1, 2} : len = Len(list)
  OBVIOUS
<1>a. \A n \in 1..len : list[n] \in W!Action
  BY <1>1
<1>2. PICK w0, w1, w2 : /\ w0 = [es |-> entities, ok |-> TRUE]
                         /\ w1 = W!ProcessNext(w0, list[1])
                         /\ w2 = W!ProcessNext(w1, list[2])
  OBVIOUS
<1>3. PICK f : f = [n \in 0..len |-> IF n = 0 THEN w0 ELSE IF n = 1 THEN w1 ELSE w2]
  OBVIOUS
<1>4. f = [n \in 0..len |-> IF n = 0 THEN w0 ELSE W!ProcessNext(f[n - 1], list[n])]
  <2>1. ASSUME NEW n \in 0..len
        PROVE  f[n] = IF n = 0 THEN w0 ELSE W!ProcessNext(f[n - 1], list[n])
    <3>1. CASE n = 0
      BY <1>3, <3>1
    <3>2. CASE n = 1
      <4>1. f[n - 1] = w0 /\ f[n] = w1
        BY <1>1, <1>3, <3>2
      <4> QED
        BY <1>2, <3>2, <4>1
    <3>3. CASE n = 2
      <4>1. f[n - 1] = w1 /\ f[n] = w2
        BY <1>1, <1>3, <3>3
      <4> QED
        BY <1>2, <3>3, <4>1
    <3> QED
      BY <1>1, <3>1, <3>2, <3>3
  <2> QED
    BY <1>3, <2>1
<1>5. PICK g : g = CHOOSE h : h = [n \in 0..len |->
                 IF n = 0 THEN w0 ELSE W!ProcessNext(h[n - 1], list[n])]
  OBVIOUS
<1>6. g = [n \in 0..len |-> IF n = 0 THEN w0 ELSE W!ProcessNext(g[n - 1], list[n])]
  BY <1>4, <1>5
<1>7. W!Processed(list) = g[len]
  BY <1>1, <1>2, <1>5 DEF W!Processed
<1>8. Underway(g[0])
  <2>1. g[0] = w0
    BY <1>1, <1>6
  <2>2. SameNpcs(entities, entities)
    BY DEF SameNpcs
  <2> QED
    BY <1>2, <2>1, <2>2 DEF Underway
<1>9. Underway(g[1])
  <2>1. g[1] = W!ProcessNext(g[0], list[1])
    BY <1>1, <1>6
  <2>2. list[1] \in W!Action
    BY <1>1, <1>a
  <2> QED
    BY <1>8, <2>1, <2>2, NextKeepsWorld
<1>10. CASE len = 2
  <2>1. g[2] = W!ProcessNext(g[1], list[2])
    BY <1>6, <1>10
  <2>2. list[2] \in W!Action
    BY <1>a, <1>10
  <2> QED
    BY <1>7, <1>9, <1>10, <2>1, <2>2, NextKeepsWorld
<1> QED
  BY <1>1, <1>7, <1>9, <1>10

\* NPCs that spawn, and their number.
Spawning(points, kind) == {p \in Points : W!Spawns(points, p) /\ W!archetype(p) = kind}

\* The NPCs that spawn are new entities of the kinds of the points they spawn at.
LEMMA SpawnedWorld ==
  ASSUME NEW points
  PROVE  /\ World(W!NewSpawns(points)) /\ Calm(W!NewSpawns(points))
         /\ \A id \in DOMAIN W!NewSpawns(points) : W!NewSpawns(points)[id].kind \in W!Kinds
         /\ \A kind \in W!Kinds :
              Cardinality(Npcs(W!NewSpawns(points), kind))
                = Cardinality(Spawning(points, kind))
<1>1. PICK list, kept : /\ list = [p \in DOMAIN W!spawn_configs |-> W!Npc(p)]
                        /\ kept = {p \in Points : W!Spawns(points, p)}
  OBVIOUS
<1>2. list \in [1..10 -> Entity] /\ \A p \in 1..10 : list[p] = W!Npc(p)
  BY <1>1, SpawnPoints
<1>3. list \in Seq(Entity) /\ Len(list) = 10
  <2>1. PICK n \in Nat : n = 10
    OBVIOUS
  <2>2. list \in [1..n -> Entity]
    BY <1>2, <2>1
  <2>3. list \in Seq(Entity) /\ Len(list) = n
    BY <2>2, SeqIntro
  <2> QED
    BY <2>1, <2>3
<1>4. kept \in SUBSET (1..Len(list)) /\ kept \in SUBSET (1..10)
  BY <1>1, <1>3, WorldAssumption, SpawnPoints
<1>5. PICK out, nth :
        /\ out = Retained(list, kept) /\ out \in Seq(Entity)
        /\ nth \in [1..Len(out) -> kept]
        /\ \A k \in 1..Len(out) : out[k] = list[nth[k]]
        /\ \A k, l \in 1..Len(out) : k < l => nth[k] < nth[l]
        /\ \A i \in kept : \E k \in 1..Len(out) : nth[k] = i
  <2>1. KeepsInOrder(Entity, list, kept)
    BY <1>3, <1>4, KeptFacts, Zenon
  <2> QED
    BY <2>1, Zenon DEF KeepsInOrder, KeptAs
<1>6. W!NewSpawns(points) = out
  <2>1. W!NewSpawns(points) = W!Kept(list, kept)
    BY <1>1 DEF W!NewSpawns
  <2>2. W!Kept(list, kept) = Retained(list, kept)
    BY Zenon DEF W!Kept, W!Cardinality, Retained, Cardinality
  <2> QED
    BY <1>5, <2>1, <2>2
<1>7. PICK n \in Nat : n = Len(out) /\ DOMAIN out = 1..n
  BY <1>5
<1>8. \A k \in 1..n : /\ nth[k] \in kept /\ nth[k] \in 1..10 /\ out[k] = W!Npc(nth[k])
                      /\ out[k].kind = W!archetype(nth[k]) /\ AtPeace(out[k])
                      /\ out[k].kind \in W!Kinds
  <2> SUFFICES ASSUME NEW k \in 1..n
               PROVE  /\ nth[k] \in kept /\ nth[k] \in 1..10 /\ out[k] = W!Npc(nth[k])
                      /\ out[k].kind = W!archetype(nth[k]) /\ AtPeace(out[k])
                      /\ out[k].kind \in W!Kinds
    OBVIOUS
  <2>1. nth[k] \in kept /\ out[k] = list[nth[k]]
    BY <1>5, <1>7
  <2>2. nth[k] \in 1..10
    BY <1>4, <2>1
  <2>3. out[k] = W!Npc(nth[k])
    BY <1>2, <2>1, <2>2
  <2> QED
    BY <2>1, <2>2, <2>3, SpawnPoints
<1>9. Alone(out)
  <2>1. \A i \in 1..n : out[i].kind \notin Address
    BY <1>8, WorldAssumption
  <2> QED
    BY <1>7, <2>1 DEF Alone
<1>10. Calm(out)
  BY <1>7, <1>8 DEF Calm
<1>11. ASSUME NEW kind \in W!Kinds
       PROVE  Cardinality(Npcs(out, kind)) = Cardinality(Spawning(points, kind))
  <2>1. PICK here, there : here = Npcs(out, kind) /\ there = Spawning(points, kind)
    OBVIOUS
  <2>2. here \in SUBSET (1..n) /\ \A k \in 1..n : k \in here <=> W!archetype(nth[k]) = kind
    BY <1>7, <1>8, <2>1 DEF Npcs
  <2>3. there \in SUBSET kept /\ \A p \in kept : p \in there <=> W!archetype(p) = kind
    BY <1>1, <2>1 DEF Spawning
  <2>4. PICK f : f = [k \in here |-> nth[k]]
    OBVIOUS
  <2>5. f \in [here -> there] /\ \A k \in here : f[k] = nth[k]
    BY <1>8, <2>2, <2>3, <2>4
  <2>6. \A k, l \in here : f[k] = f[l] => k = l
    <3> SUFFICES ASSUME NEW k \in here, NEW l \in here, nth[k] = nth[l] PROVE k = l
      BY <2>5
    <3>1. k \in 1..n /\ l \in 1..n
      BY <2>2
    <3>2. nth[k] \in 1..10 /\ nth[l] \in 1..10
      BY <1>8, <3>1
    <3>3. ~(k < l) /\ ~(l < k)
      BY <1>5, <1>7, <3>1, <3>2
    <3> QED
      BY <3>1, <3>3
  <2>7. \A p \in there : \E k \in here : f[k] = p
    <3> SUFFICES ASSUME NEW p \in there PROVE \E k \in here : f[k] = p
      OBVIOUS
    <3>1. p \in kept /\ W!archetype(p) = kind
      BY <2>3
    <3>2. PICK k \in 1..n : nth[k] = p
      BY <1>5, <1>7, <3>1
    <3> QED
      BY <2>2, <2>5, <3>1, <3>2
  <2>8. f \in Bijection(here, there)
    <3>1. f \in Injection(here, there)
      BY <2>5, <2>6 DEF Injection, IsInjective
    <3>2. f \in Surjection(here, there)
      BY <2>5, <2>7 DEF Surjection
    <3> QED
      BY <3>1, <3>2 DEF Bijection
  <2>9. IsFiniteSet(here)
    <3>1. IsFiniteSet(1..n)
      BY IntervalCard
    <3> QED
      BY <2>2, <3>1, FS_Subset
  <2>10. Cardinality(here) = Cardinality(there)
    <3>1. ExistsBijection(here, there)
      BY <2>8 DEF ExistsBijection
    <3> QED
      BY <2>9, <3>1, FS_Bijection
  <2> QED
    BY <2>1, <2>10
<1> QED
  BY <1>5, <1>6, <1>7, <1>8, <1>9, <1>10, <1>11 DEF World

\* New NPCs behind the entities there are.
LEMMA TogetherWorld ==
  ASSUME NEW es, World(es), NEW new, World(new), \A i \in DOMAIN new : new[i].kind \in W!Kinds
  PROVE  /\ World(es \o new) /\ (Calm(es) /\ Calm(new) => Calm(es \o new))
         /\ \A kind \in W!Kinds :
              /\ Cardinality(Npcs(es, kind)) \in Nat /\ Cardinality(Npcs(new, kind)) \in Nat
              /\ Cardinality(Npcs(es \o new, kind))
                   = Cardinality(Npcs(es, kind)) + Cardinality(Npcs(new, kind))
<1>1. PICK n \in Nat, m \in Nat : /\ n = Len(es) /\ DOMAIN es = 1..n
                                  /\ m = Len(new) /\ DOMAIN new = 1..m
  BY DEF World
<1>2. PICK fs : fs = es \o new
  OBVIOUS
<1>3. /\ fs \in Seq(Entity) /\ Len(fs) = n + m /\ DOMAIN fs = 1..n + m
      /\ \A i \in 1..n : fs[i] = es[i]
      /\ \A i \in 1..m : n + i \in 1..n + m /\ fs[n + i] = new[i]
  <2>1. es \in Seq(Entity) /\ new \in Seq(Entity)
    BY DEF World
  <2>2. fs \in Seq(Entity) /\ Len(fs) = n + m
    BY <1>1, <1>2, <2>1
  <2> QED
    BY <1>1, <1>2, <2>1, <2>2
<1>4. \A i \in 1..n + m : i \in 1..n \/ \E j \in 1..m : i = n + j
  <2> SUFFICES ASSUME NEW i \in 1..n + m, i \notin 1..n PROVE \E j \in 1..m : i = n + j
    OBVIOUS
  <2>1. i - n \in 1..m /\ i = n + (i - n)
    BY <1>1
  <2> QED
    BY <2>1
<1>5. \A i \in 1..m : new[i].kind \notin Address
  BY <1>1, WorldAssumption
<1>6. Alone(fs)
  <2> SUFFICES ASSUME NEW i \in 1..n + m, NEW j \in 1..n + m,
                      fs[i].kind \in Address, fs[i].kind = fs[j].kind
               PROVE  i = j
    BY <1>3 DEF Alone
  <2>1. i \in 1..n /\ j \in 1..n
    <3>1. \A k \in 1..m : fs[n + k].kind \notin Address
      BY <1>3, <1>5
    <3>2. i \in 1..n
      BY <1>4, <3>1
    <3>3. j \in 1..n
      BY <1>4, <3>1
    <3> QED
      BY <3>2, <3>3
  <2> QED
    BY <1>1, <1>3, <2>1 DEF World, Alone
<1>7. Calm(es) /\ Calm(new) => Calm(fs)
  <2> SUFFICES ASSUME Calm(es), Calm(new), NEW i \in 1..n + m PROVE AtPeace(fs[i])
    BY <1>3 DEF Calm
  <2>1. \A k \in 1..n : AtPeace(fs[k])
    BY <1>1, <1>3 DEF Calm
  <2>2. \A k \in 1..m : AtPeace(fs[n + k])
    BY <1>1, <1>3 DEF Calm
  <2> QED
    BY <1>4, <2>1, <2>2
<1>8. ASSUME NEW kind \in W!Kinds
      PROVE  /\ Cardinality(Npcs(es, kind)) \in Nat /\ Cardinality(Npcs(new, kind)) \in Nat
             /\ Cardinality(Npcs(fs, kind))
                  = Cardinality(Npcs(es, kind)) + Cardinality(Npcs(new, kind))
  <2>1. PICK a, b, c : a = Npcs(es, kind) /\ b = Npcs(new, kind) /\ c = {n + i : i \in b}
    OBVIOUS
  <2>2. a \in SUBSET (1..n) /\ b \in SUBSET (1..m)
    BY <1>1, <2>1 DEF Npcs
  <2>3. IsFiniteSet(a) /\ IsFiniteSet(b)
    <3>1. IsFiniteSet(1..n) /\ IsFiniteSet(1..m)
      BY IntervalCard
    <3> QED
      BY <2>2, <3>1, FS_Subset
  <2>4. Cardinality(a) \in Nat /\ Cardinality(b) \in Nat
    BY <2>3, FS_CardinalityType
  <2>5. IsFiniteSet(c) /\ Cardinality(c) = Cardinality(b)
    <3>1. PICK f : f = [i \in b |-> n + i]
      OBVIOUS
    <3>2. f \in [b -> c]
      BY <2>1, <3>1
    <3>3. \A i, j \in b : f[i] = f[j] => i = j
      BY <2>2, <3>1
    <3>4. \A x \in c : \E i \in b : f[i] = x
      BY <2>1, <3>1
    <3>5. f \in Injection(b, c)
      BY <3>2, <3>3 DEF Injection, IsInjective
    <3>6. f \in Surjection(b, c)
      BY <3>2, <3>4 DEF Surjection
    <3>7. ExistsBijection(b, c)
      BY <3>5, <3>6 DEF Bijection, ExistsBijection
    <3> QED
      BY <2>3, <3>7, FS_Bijection
  <2>6. Npcs(fs, kind) = a \cup c
    <3>1. /\ \A i \in 1..n + m : i \in Npcs(fs, kind) <=> fs[i].kind = kind
          /\ Npcs(fs, kind) \in SUBSET (1..n + m)
      BY <1>3 DEF Npcs
    <3>2. \A i \in 1..n : i \in 1..n + m /\ (i \in Npcs(fs, kind) <=> i \in a)
      <4>1. \A i \in 1..n : i \in a <=> es[i].kind = kind
        BY <1>1, <2>1 DEF Npcs
      <4>2. \A i \in 1..n : i \in 1..n + m
        BY <1>1
      <4> QED
        BY <1>3, <3>1, <4>1, <4>2
    <3>3. \A i \in 1..m : n + i \in Npcs(fs, kind) <=> i \in b
      <4>1. \A i \in 1..m : i \in b <=> new[i].kind = kind
        BY <1>1, <2>1 DEF Npcs
      <4> QED
        BY <1>3, <3>1, <4>1
    <3>4. ASSUME NEW i \in Npcs(fs, kind) PROVE i \in a \cup c
      <4>1. i \in 1..n + m
        BY <3>1
      <4>2. CASE i \in 1..n
        BY <3>2, <4>2
      <4>3. ASSUME NEW j \in 1..m, i = n + j PROVE i \in c
        BY <2>1, <3>3, <4>3
      <4> QED
        BY <1>4, <4>1, <4>2, <4>3
    <3>5. ASSUME NEW i \in c PROVE i \in Npcs(fs, kind)
      <4>1. PICK j \in b : i = n + j
        BY <2>1
      <4> QED
        BY <2>2, <3>3, <4>1
    <3>6. \A i \in a : i \in Npcs(fs, kind)
      BY <2>2, <3>2
    <3> QED
      BY <3>4, <3>5, <3>6
  <2>7. a \cap c = {}
    <3>1. ASSUME NEW i \in c PROVE i > n
      <4>1. PICK j \in b : i = n + j
        BY <2>1
      <4>2. j \in 1..m
        BY <2>2
      <4> QED
        BY <4>1, <4>2
    <3>2. ASSUME NEW i \in a PROVE i \notin c
      <4>1. i \in 1..n
        BY <2>2
      <4>2. ~(i > n)
        BY <1>1, <4>1
      <4> QED
        BY <3>1, <4>2
    <3> QED
      BY <3>2
  <2>8. Cardinality(a \cup c) = Cardinality(a) + Cardinality(c)
    <3>1. Cardinality(a \cup c) = Cardinality(a) + Cardinality(c) - Cardinality(a \cap c)
      BY <2>3, <2>5, FS_Union
    <3>2. Cardinality(a \cap c) = 0
      BY <2>7, FS_EmptySet
    <3> QED
      BY <2>4, <2>5, <3>1, <3>2
  <2> QED
    BY <2>1, <2>4, <2>5, <2>6, <2>8
<1> QED
  BY <1>2, <1>3, <1>6, <1>7, <1>8 DEF World

\* Some weights grow by one.
Marked(w, v, s, t) == \A x \in s : v[x] = w[x] + (IF x \in t THEN 1 ELSE 0)

\* The total grows by the number of those.
LEMMA TotalsGrow ==
  ASSUME NEW s, IsFiniteSet(s), NEW t \in SUBSET s, NEW w, NEW v, Weighs(w, s),
         Marked(w, v, s, t), NEW n, NEW m, Total(w, s, n), Total(v, s, m)
  PROVE  n \in Nat /\ m = n + Cardinality(t) /\ Cardinality(t) \in Nat
<1>1. PICK g, h : SumsOver(g, w, s) /\ n = g[s] /\ SumsOver(h, v, s) /\ m = h[s]
  BY DEF Total
<1>2. \A u \in SUBSET s : g[u] \in Nat
  BY <1>1, SumTyped
<1>3. \A u \in SUBSET s : IsFiniteSet(u \cap t) /\ Cardinality(u \cap t) \in Nat
  <2> SUFFICES ASSUME NEW u \in SUBSET s
               PROVE  IsFiniteSet(u \cap t) /\ Cardinality(u \cap t) \in Nat
    OBVIOUS
  <2>1. IsFiniteSet(u \cap t)
    <3>1. u \cap t \in SUBSET s
      OBVIOUS
    <3> QED
      BY <3>1, FS_Subset
  <2> QED
    BY <2>1, FS_CardinalityType
<1>4. PICK bad : bad = {u \in SUBSET s : h[u] # g[u] + Cardinality(u \cap t)}
  OBVIOUS
<1>5. bad = {}
  <2> SUFFICES ASSUME bad # {} PROVE FALSE
    OBVIOUS
  <2>1. bad \in SUBSET SUBSET s
    BY <1>4
  <2>2. PICK u \in bad : \A r \in bad : Cardinality(u) <= Cardinality(r)
    BY <2>1, SmallestSet
  <2>3. u \in SUBSET s /\ h[u] # g[u] + Cardinality(u \cap t)
    BY <1>4
  <2>a. /\ g[{}] = 0 /\ h[{}] = 0
        /\ u # {} => /\ Pick(u) \in u /\ g[u] = w[Pick(u)] + g[u \ {Pick(u)}]
                     /\ h[u] = v[Pick(u)] + h[u \ {Pick(u)}]
    <3>1. /\ g[{}] = 0
          /\ u # {} => Pick(u) \in u /\ g[u] = w[Pick(u)] + g[u \ {Pick(u)}]
      BY <1>1, <2>3, SumStep
    <3>2. /\ h[{}] = 0
          /\ u # {} => Pick(u) \in u /\ h[u] = v[Pick(u)] + h[u \ {Pick(u)}]
      BY <1>1, <2>3, SumStep
    <3> QED
      BY <3>1, <3>2
  <2>4. u # {}
    <3>1. {} \cap t = {} /\ Cardinality({}) = 0
      BY FS_EmptySet
    <3> QED
      BY <2>3, <2>a, <3>1
  <2>5. PICK p, r : p = Pick(u) /\ r = u \ {p}
    OBVIOUS
  <2>6. /\ p \in u /\ p \in s /\ r \in SUBSET s
        /\ g[u] = w[p] + g[r] /\ h[u] = v[p] + h[r]
    BY <2>3, <2>4, <2>5, <2>a
  <2>7. r \notin bad
    <3>1. Cardinality(u) \in Nat /\ Cardinality(u \ {p}) = Cardinality(u) - 1
      BY <2>3, <2>6, Smaller
    <3> QED
      BY <2>2, <2>5, <3>1
  <2>8. h[r] = g[r] + Cardinality(r \cap t)
    BY <1>4, <2>6, <2>7
  <2>9. v[p] = w[p] + (IF p \in t THEN 1 ELSE 0) /\ w[p] \in Nat
    BY <2>6 DEF Marked, Weighs
  <2>10. Cardinality(u \cap t) = Cardinality(r \cap t) + (IF p \in t THEN 1 ELSE 0)
    <3>1. CASE p \in t
      <4>1. u \cap t = (r \cap t) \cup {p} /\ p \notin r \cap t
        BY <2>5, <2>6, <3>1
      <4>2. IsFiniteSet(r \cap t)
        BY <1>3, <2>6
      <4>3. Cardinality((r \cap t) \cup {p}) = Cardinality(r \cap t) + 1
        BY <4>1, <4>2, FS_AddElement
      <4> QED
        BY <3>1, <4>1, <4>3
    <3>2. CASE p \notin t
      <4>1. u \cap t = r \cap t
        BY <2>5, <3>2
      <4>2. PICK k \in Nat : k = Cardinality(r \cap t)
        BY <1>3, <2>6
      <4>3. Cardinality(u \cap t) = k
        BY <4>1, <4>2
      <4>4. (IF p \in t THEN 1 ELSE 0) = 0
        BY <3>2
      <4> QED
        BY <4>2, <4>3, <4>4
    <3> QED
      BY <3>1, <3>2
  <2>11. PICK a \in Nat, b \in Nat, c \in Nat :
           a = g[r] /\ b = Cardinality(r \cap t) /\ c = w[p]
    BY <1>2, <1>3, <2>6, <2>9
  <2>12. PICK d \in Nat : d = IF p \in t THEN 1 ELSE 0
    OBVIOUS
  <2>13. g[u] = c + a /\ h[u] = (c + d) + (a + b) /\ Cardinality(u \cap t) = b + d
    BY <2>6, <2>8, <2>9, <2>10, <2>11, <2>12
  <2> QED
    BY <2>3, <2>13
<1>6. s \cap t = t
  OBVIOUS
<1> QED
  BY <1>1, <1>2, <1>3, <1>4, <1>5, <1>6

\* The total of no weights is nothing, and smaller weights have a smaller total.
LEMMA TotalsOrdered ==
  ASSUME NEW s, IsFiniteSet(s), NEW w, NEW v, Weighs(w, s), Weighs(v, s),
         NEW n, NEW m, Total(w, s, n), Total(v, s, m)
  PROVE  /\ (\A x \in s : w[x] <= v[x]) => n <= m
         /\ (\A x \in s : w[x] = 0) => n = 0
<1>1. PICK g, h : SumsOver(g, w, s) /\ n = g[s] /\ SumsOver(h, v, s) /\ m = h[s]
  BY DEF Total
<1>2. \A u \in SUBSET s : g[u] \in Nat /\ h[u] \in Nat
  <2>1. \A u \in SUBSET s : g[u] \in Nat
    BY <1>1, SumTyped
  <2>2. \A u \in SUBSET s : h[u] \in Nat
    BY <1>1, SumTyped
  <2> QED
    BY <2>1, <2>2
<1>3. PICK bad : bad = {u \in SUBSET s :
                          \/ (\A x \in s : w[x] <= v[x]) /\ ~(g[u] <= h[u])
                          \/ (\A x \in s : w[x] = 0) /\ g[u] # 0}
  OBVIOUS
<1>4. bad = {}
  <2> SUFFICES ASSUME bad # {} PROVE FALSE
    OBVIOUS
  <2>1. bad \in SUBSET SUBSET s
    BY <1>3
  <2>2. PICK u \in bad : \A r \in bad : Cardinality(u) <= Cardinality(r)
    BY <2>1, SmallestSet
  <2>3. u \in SUBSET s
    BY <1>3
  <2>a. /\ g[{}] = 0 /\ h[{}] = 0
        /\ u # {} => /\ Pick(u) \in u /\ g[u] = w[Pick(u)] + g[u \ {Pick(u)}]
                     /\ h[u] = v[Pick(u)] + h[u \ {Pick(u)}]
    <3>1. /\ g[{}] = 0
          /\ u # {} => Pick(u) \in u /\ g[u] = w[Pick(u)] + g[u \ {Pick(u)}]
      BY <1>1, <2>3, SumStep
    <3>2. /\ h[{}] = 0
          /\ u # {} => Pick(u) \in u /\ h[u] = v[Pick(u)] + h[u \ {Pick(u)}]
      BY <1>1, <2>3, SumStep
    <3> QED
      BY <3>1, <3>2
  <2>4. u # {}
    <3> SUFFICES ASSUME u = {} PROVE FALSE
      OBVIOUS
    <3>1. g[u] = 0 /\ h[u] = 0 /\ g[u] <= h[u]
      BY <2>a
    <3> QED
      BY <1>3, <3>1
  <2>5. PICK p, r : p = Pick(u) /\ r = u \ {p}
    OBVIOUS
  <2>6. /\ p \in u /\ p \in s /\ r \in SUBSET s
        /\ g[u] = w[p] + g[r] /\ h[u] = v[p] + h[r]
    BY <2>3, <2>4, <2>5, <2>a
  <2>7. r \notin bad
    <3>1. Cardinality(u) \in Nat /\ Cardinality(u \ {p}) = Cardinality(u) - 1
      BY <2>3, <2>6, Smaller
    <3> QED
      BY <2>2, <2>5, <3>1
  <2>8. PICK a \in Nat, b \in Nat, c \in Nat, d \in Nat :
          a = g[r] /\ b = h[r] /\ c = w[p] /\ d = v[p]
    BY <1>2, <2>6 DEF Weighs
  <2>9. g[u] = c + a /\ h[u] = d + b
    BY <2>6, <2>8
  <2>10. CASE (\A x \in s : w[x] <= v[x]) /\ ~(g[u] <= h[u])
    <3>1. a <= b /\ c <= d
      BY <1>3, <2>6, <2>7, <2>8, <2>10
    <3> QED
      BY <2>9, <2>10, <3>1
  <2>11. CASE (\A x \in s : w[x] = 0) /\ g[u] # 0
    <3>1. a = 0 /\ c = 0
      BY <1>3, <2>6, <2>7, <2>8, <2>11
    <3> QED
      BY <2>9, <2>11, <3>1
  <2> QED
    BY <1>3, <2>10, <2>11
<1> QED
  BY <1>1, <1>3, <1>4

\* The spawn points of a kind, what they count, and their maxima.
PointsOf(kind) == {p \in Points : W!archetype(p) = kind}
Counts(points) == [p \in Points |-> points[p].current_count]
Maxima == [p \in Points |-> W!max_count(p)]

Tally(points, kind) == CHOOSE n : Total(Counts(points), PointsOf(kind), n)
Most(kind) == CHOOSE n : Total(Maxima, PointsOf(kind), n)

CountsOk(points) ==
  /\ DOMAIN points = Points
  /\ \A p \in Points :
       /\ points[p] = [current_count |-> points[p].current_count,
                       cooldown_remaining |-> points[p].cooldown_remaining]
       /\ points[p].current_count \in Nat /\ points[p].current_count <= W!max_count(p)
       /\ points[p].cooldown_remaining \in Nat

\* The spawn points in use.
LEMMA PointsFinite ==
  /\ Points \subseteq 1..10
  /\ \A kind : IsFiniteSet(PointsOf(kind)) /\ PointsOf(kind) \subseteq Points
<1>1. Points \subseteq 1..10
  BY WorldAssumption, SpawnPoints
<1>2. IsFiniteSet(1..10)
  <2>1. 10 \in Nat
    OBVIOUS
  <2> QED
    BY <2>1, IntervalCard
<1>3. ASSUME NEW kind PROVE IsFiniteSet(PointsOf(kind)) /\ PointsOf(kind) \subseteq Points
  <2>1. PointsOf(kind) \subseteq Points
    BY DEF PointsOf
  <2>2. PointsOf(kind) \subseteq 1..10
    BY <1>1, <2>1
  <2> QED
    BY <1>2, <2>1, <2>2, FS_Subset
<1> QED
  BY <1>1, <1>3

\* The counts and the maxima have totals, the first no greater than the second.
LEMMA TalliesTotal ==
  ASSUME NEW points, CountsOk(points), NEW kind
  PROVE  /\ Total(Counts(points), PointsOf(kind), Tally(points, kind))
         /\ Total(Maxima, PointsOf(kind), Most(kind))
         /\ Weighs(Counts(points), PointsOf(kind)) /\ Weighs(Maxima, PointsOf(kind))
         /\ Tally(points, kind) <= Most(kind)
         /\ Tally(points, kind) \in Nat /\ Most(kind) \in Nat
<1>1. IsFiniteSet(PointsOf(kind)) /\ PointsOf(kind) \subseteq Points /\ Points \subseteq 1..10
  BY PointsFinite
<1>2. PICK s, w, v : s = PointsOf(kind) /\ w = Counts(points) /\ v = Maxima
  OBVIOUS
<1>3. Total(w, s, Tally(points, kind)) /\ Total(v, s, Most(kind))
  <2>1. (\E n : Total(w, s, n)) /\ (\E n : Total(v, s, n))
    BY <1>1, <1>2, TotalExists
  <2> QED
    BY <1>2, <2>1 DEF Tally, Most
<1>4. \A p \in s : w[p] = points[p].current_count /\ v[p] = W!max_count(p)
  BY <1>1, <1>2 DEF Counts, Maxima
<1>5. \A p \in s : w[p] \in Nat /\ v[p] \in Nat /\ w[p] <= v[p]
  <2>1. \A p \in s : p \in Points /\ p \in 1..10
    BY <1>1, <1>2
  <2>2. \A p \in s : W!max_count(p) \in Nat
    BY <2>1, SpawnPoints
  <2> QED
    BY <1>4, <2>1, <2>2 DEF CountsOk
<1>6. Weighs(w, s) /\ Weighs(v, s)
  BY <1>5 DEF Weighs
<1>7. Tally(points, kind) <= Most(kind)
  BY <1>1, <1>2, <1>3, <1>5, <1>6, TotalsOrdered
<1>8. ASSUME NEW x, Weighs(x, s), NEW n, Total(x, s, n) PROVE n \in Nat
  <2>1. PICK g : SumsOver(g, x, s) /\ n = g[s]
    BY <1>8 DEF Total
  <2>2. s \in SUBSET s /\ IsFiniteSet(s)
    BY <1>1, <1>2
  <2> QED
    BY <1>8, <2>1, <2>2, SumTyped
<1>9. Tally(points, kind) \in Nat
  BY <1>3, <1>6, <1>8
<1>10. Most(kind) \in Nat
  BY <1>3, <1>6, <1>8
<1> QED
  BY <1>2, <1>3, <1>6, <1>7, <1>9, <1>10

\* A spawn point counts an NPC exactly when it spawns one.
LEMMA TickCounts ==
  ASSUME NEW points, CountsOk(points)
  PROVE  /\ CountsOk(W!TickSpawns(points))
         /\ \A kind : /\ Cardinality(Spawning(points, kind)) \in Nat
                      /\ Tally(W!TickSpawns(points), kind)
                           = Tally(points, kind) + Cardinality(Spawning(points, kind))
<1>1. PICK next : next = W!TickSpawns(points)
  OBVIOUS
<1>2. next = [p \in Points |-> W!Counted(points, p)]
  BY <1>1 DEF W!TickSpawns
<1>3. ASSUME NEW p \in Points
      PROVE  /\ next[p] = [current_count |-> next[p].current_count,
                           cooldown_remaining |-> next[p].cooldown_remaining]
             /\ next[p].current_count \in Nat /\ next[p].current_count <= W!max_count(p)
             /\ next[p].cooldown_remaining \in Nat
             /\ next[p].current_count = points[p].current_count
                                          + (IF W!Spawns(points, p) THEN 1 ELSE 0)
  <2>1. W!max_count(p) \in Nat /\ W!respawn_cooldown(p) \in Nat
    BY PointsFinite, SpawnPoints
  <2>2. PICK c \in Nat, d \in Nat : /\ points[p] = [current_count |-> c, cooldown_remaining |-> d]
                                    /\ c = points[p].current_count
                                    /\ d = points[p].cooldown_remaining
                                    /\ c <= W!max_count(p)
    BY DEF CountsOk
  <2>3. PICK top \in Nat, wait \in Nat : top = W!max_count(p) /\ wait = W!respawn_cooldown(p)
    BY <2>1
  <2>4. W!Spawns(points, p) <=> c < top /\ d = 0
    BY <2>2, <2>3 DEF W!Spawns
  <2>5. next[p] = W!Counted(points, p)
    BY <1>2
  <2>6. CASE c >= top
    <3>1. next[p] = points[p]
      BY <2>2, <2>3, <2>5, <2>6 DEF W!Counted
    <3> QED
      BY <2>2, <2>3, <2>4, <2>6, <3>1
  <2>7. CASE c < top /\ d > 0
    <3>1. next[p] = [points[p] EXCEPT !.cooldown_remaining = d - 1]
      BY <2>2, <2>3, <2>5, <2>7 DEF W!Counted
    <3>2. next[p] = [current_count |-> c, cooldown_remaining |-> d - 1] /\ d - 1 \in Nat
      BY <2>2, <2>7, <3>1
    <3> QED
      BY <2>2, <2>3, <2>4, <2>7, <3>2
  <2>8. CASE c < top /\ ~(d > 0)
    <3>1. next[p] = [current_count |-> c + 1, cooldown_remaining |-> wait]
      BY <2>2, <2>3, <2>5, <2>8 DEF W!Counted
    <3>2. d = 0 /\ c + 1 <= top
      BY <2>8
    <3> QED
      BY <2>2, <2>3, <2>4, <2>8, <3>1, <3>2
  <2> QED
    BY <2>6, <2>7, <2>8
<1>4. CountsOk(next)
  BY <1>2, <1>3 DEF CountsOk
<1>5. ASSUME NEW kind
      PROVE  /\ Cardinality(Spawning(points, kind)) \in Nat
             /\ Tally(next, kind) = Tally(points, kind) + Cardinality(Spawning(points, kind))
  <2>1. PICK s, t, w, v : /\ s = PointsOf(kind) /\ t = Spawning(points, kind)
                          /\ w = Counts(points) /\ v = Counts(next)
    OBVIOUS
  <2>2. Total(w, s, Tally(points, kind)) /\ Weighs(w, s)
    BY <2>1, TalliesTotal
  <2>3. Total(v, s, Tally(next, kind))
    BY <1>4, <2>1, TalliesTotal
  <2>4. IsFiniteSet(s) /\ s \subseteq Points
    BY <2>1, PointsFinite
  <2>5. t \in SUBSET s /\ \A p \in s : p \in t <=> W!Spawns(points, p)
    BY <2>1 DEF Spawning, PointsOf
  <2>6. Marked(w, v, s, t)
    <3>1. \A p \in s : /\ w[p] = points[p].current_count /\ v[p] = next[p].current_count
      BY <2>1, <2>4 DEF Counts
    <3>2. \A p \in s : p \in Points
      BY <2>4
    <3> QED
      BY <1>3, <2>5, <3>1, <3>2 DEF Marked
  <2>7. PICK n, m : n = Tally(points, kind) /\ m = Tally(next, kind)
    OBVIOUS
  <2>8. Total(w, s, n) /\ Total(v, s, m) /\ Weighs(w, s) /\ IsFiniteSet(s) /\ t \in SUBSET s
    BY <2>2, <2>3, <2>4, <2>5, <2>7
  <2>9. m = n + Cardinality(t) /\ Cardinality(t) \in Nat
    BY <2>6, <2>8, TotalsGrow
  <2> QED
    BY <2>1, <2>7, <2>9
<1> QED
  BY <1>1, <1>4, <1>5

\* A world that begins counts nothing.
LEMMA FreshCounts ==
  CountsOk(W!FreshPoints) /\ \A kind : Tally(W!FreshPoints, kind) = 0
<1>1. PICK points : points = W!FreshPoints
  OBVIOUS
<1>2. points = [p \in Points |-> [current_count |-> 0, cooldown_remaining |-> 0]]
  BY <1>1 DEF W!FreshPoints
<1>3. \A p \in Points : W!max_count(p) \in Nat
  BY PointsFinite, SpawnPoints
<1>4. CountsOk(points)
  BY <1>2, <1>3 DEF CountsOk
<1>5. ASSUME NEW kind PROVE Tally(points, kind) = 0
  <2>1. PICK s, w : s = PointsOf(kind) /\ w = Counts(points)
    OBVIOUS
  <2>2. Total(w, s, Tally(points, kind)) /\ Weighs(w, s)
    BY <1>4, <2>1, TalliesTotal
  <2>3. IsFiniteSet(s) /\ s \subseteq Points
    BY <2>1, PointsFinite
  <2>4. \A p \in s : w[p] = 0
    BY <1>2, <2>1, <2>3 DEF Counts
  <2> QED
    BY <2>2, <2>3, <2>4, TotalsOrdered
<1> QED
  BY <1>1, <1>4, <1>5

\* Sums over sets of spawn points, as the module writes them.
LEMMA WorldSums ==
  ASSUME NEW kind
  PROVE  /\ Total(Counts(spawn_points), PointsOf(kind),
                  W!MapThenSumSet(LAMBDA p : spawn_points[p].current_count, PointsOf(kind)))
         /\ Total(Maxima, PointsOf(kind), W!MapThenSumSet(W!max_count, PointsOf(kind)))
<1>1. PICK all : all = PointsOf(kind) /\ IsFiniteSet(all) /\ all \subseteq Points
  BY PointsFinite
<1>2. \A s \in SUBSET all : s # {} => Pick(s) \in Points
  BY <1>1 DEF Pick
<1>3. Total(Counts(spawn_points), all,
            W!MapThenSumSet(LAMBDA p : spawn_points[p].current_count, all))
  <2>1. PICK f : f = CHOOSE g : g = [s \in SUBSET all |->
          IF s = {} THEN 0 ELSE spawn_points[Pick(s)].current_count + g[s \ {Pick(s)}]]
    OBVIOUS
  <2>2. W!MapThenSumSet(LAMBDA p : spawn_points[p].current_count, all) = f[all]
    BY <2>1 DEF W!MapThenSumSet, W!MapThenFoldSet, Pick
  <2>3. \A g : SumsOver(g, Counts(spawn_points), all)
          <=> g = [s \in SUBSET all |->
                     IF s = {} THEN 0 ELSE spawn_points[Pick(s)].current_count + g[s \ {Pick(s)}]]
    <3> SUFFICES ASSUME NEW g
                 PROVE  [s \in SUBSET all |-> IF s = {} THEN 0
                           ELSE Counts(spawn_points)[Pick(s)] + g[s \ {Pick(s)}]]
                        = [s \in SUBSET all |-> IF s = {} THEN 0
                           ELSE spawn_points[Pick(s)].current_count + g[s \ {Pick(s)}]]
      BY DEF SumsOver, Sums
    <3> QED
      BY <1>2 DEF Counts
  <2>4. PICK g : SumsOver(g, Counts(spawn_points), all)
    BY <1>1, SumsExist
  <2>5. f = [s \in SUBSET all |->
               IF s = {} THEN 0 ELSE spawn_points[Pick(s)].current_count + f[s \ {Pick(s)}]]
    BY <2>1, <2>3, <2>4
  <2>6. SumsOver(f, Counts(spawn_points), all)
    BY <2>3, <2>5
  <2> QED
    BY <2>2, <2>6 DEF Total
<1>4. Total(Maxima, all, W!MapThenSumSet(W!max_count, all))
  <2>1. PICK f : f = CHOOSE g : g = [s \in SUBSET all |->
          IF s = {} THEN 0 ELSE W!max_count(Pick(s)) + g[s \ {Pick(s)}]]
    OBVIOUS
  <2>2. W!MapThenSumSet(W!max_count, all) = f[all]
    BY <2>1 DEF W!MapThenSumSet, W!MapThenFoldSet, Pick
  <2>3. \A g : SumsOver(g, Maxima, all)
          <=> g = [s \in SUBSET all |->
                     IF s = {} THEN 0 ELSE W!max_count(Pick(s)) + g[s \ {Pick(s)}]]
    <3> SUFFICES ASSUME NEW g
                 PROVE  [s \in SUBSET all |-> IF s = {} THEN 0
                           ELSE Maxima[Pick(s)] + g[s \ {Pick(s)}]]
                        = [s \in SUBSET all |-> IF s = {} THEN 0
                           ELSE W!max_count(Pick(s)) + g[s \ {Pick(s)}]]
      BY DEF SumsOver, Sums
    <3> QED
      BY <1>2 DEF Maxima
  <2>4. PICK g : SumsOver(g, Maxima, all)
    BY <1>1, SumsExist
  <2>5. f = [s \in SUBSET all |->
               IF s = {} THEN 0 ELSE W!max_count(Pick(s)) + f[s \ {Pick(s)}]]
    BY <2>1, <2>3, <2>4
  <2>6. SumsOver(f, Maxima, all)
    BY <2>3, <2>5
  <2> QED
    BY <2>2, <2>6 DEF Total
<1> QED
  BY <1>1, <1>3, <1>4

Count(es, kind) == Cardinality(Npcs(es, kind))

\* n NPCs, of which c are counted, after r restarts; with the maximum m a restart
\* may repeat what the saved world holds.
Populated(n, c, r, m) ==
  /\ n \in Nat /\ c \in Nat /\ m \in Nat
  /\ n <= r * m + c /\ c <= m
  /\ r = 0 => n = c

WorldInv ==
  /\ World(entities) /\ (~failed => Calm(entities))
  /\ World(saved) /\ Calm(saved)
  /\ CountsOk(spawn_points) /\ restarts \in Nat
  /\ \A kind \in W!Kinds :
       /\ Populated(Count(entities, kind), Tally(spawn_points, kind), restarts, Most(kind))
       /\ Count(saved, kind) \in Nat
       /\ Count(saved, kind) <= (restarts + 1) * Most(kind)

\* The invariant after a step.
LEMMA WorldPrimed ==
  ASSUME World(entities'), ~failed' => Calm(entities'), World(saved'), Calm(saved'),
         CountsOk(spawn_points'), restarts' \in Nat,
         \A kind \in W!Kinds :
           /\ Populated(Count(entities', kind), Tally(spawn_points', kind), restarts', Most(kind))
           /\ Count(saved', kind) \in Nat
           /\ Count(saved', kind) <= (restarts' + 1) * Most(kind)
  PROVE  WorldInv'
BY DEF WorldInv

\* The numbers of a tick, and of a restart.
LEMMA PopulationGrows ==
  ASSUME NEW n, NEW c, NEW r \in Nat, NEW m, Populated(n, c, r, m), NEW k \in Nat, c + k <= m
  PROVE  /\ Populated(n + k, c + k, r, m) /\ n + k <= (r + 1) * m
<1>1. n \in Nat /\ c \in Nat /\ m \in Nat /\ n <= r * m + c /\ (r = 0 => n = c)
  BY DEF Populated
<1>2. PICK x \in Nat : x = r * m
  BY <1>1
<1>3. (r + 1) * m = x + m
  BY <1>1, <1>2
<1>4. n + k <= x + (c + k)
  BY <1>1, <1>2
<1> QED
  BY <1>1, <1>2, <1>3, <1>4 DEF Populated

\* A restart from the saved world.
LEMMA PopulationKept ==
  ASSUME NEW n \in Nat, NEW r \in Nat, NEW m \in Nat, n <= (r + 1) * m
  PROVE  Populated(n, 0, r + 1, m) /\ n <= ((r + 1) + 1) * m
<1>1. PICK x \in Nat : x = (r + 1) * m
  OBVIOUS
<1>2. ((r + 1) + 1) * m = x + m
  BY <1>1
<1>3. r + 1 # 0
  OBVIOUS
<1> QED
  BY <1>1, <1>2, <1>3 DEF Populated

\* The world that begins with the first NPCs.
LEMMA FirstWorld ==
  ASSUME NEW es, es = W!NewSpawns(W!FreshPoints),
         NEW points, points = W!TickSpawns(W!FreshPoints), NEW r \in Nat
  PROVE  /\ World(es) /\ Calm(es) /\ CountsOk(points)
         /\ \A kind \in W!Kinds :
              Populated(Count(es, kind), Tally(points, kind), r, Most(kind))
<1>1. World(es) /\ Calm(es)
  BY SpawnedWorld
<1>2. CountsOk(points)
  BY FreshCounts, TickCounts
<1>3. ASSUME NEW kind \in W!Kinds
      PROVE  Populated(Count(es, kind), Tally(points, kind), r, Most(kind))
  <2>1. Count(es, kind) = Cardinality(Spawning(W!FreshPoints, kind))
    BY SpawnedWorld DEF Count
  <2>2. /\ Cardinality(Spawning(W!FreshPoints, kind)) \in Nat
        /\ Tally(points, kind) = 0 + Cardinality(Spawning(W!FreshPoints, kind))
    BY FreshCounts, TickCounts
  <2>3. PICK n \in Nat : n = Count(es, kind) /\ n = Tally(points, kind)
    BY <2>1, <2>2
  <2>4. PICK m \in Nat : m = Most(kind) /\ n <= m
    BY <1>2, <2>3, TalliesTotal
  <2>5. r * m \in Nat
    OBVIOUS
  <2> QED
    BY <2>3, <2>4, <2>5 DEF Populated
<1> QED
  BY <1>1, <1>2, <1>3

\* A block of actions.
LEMMA TickKeepsWorld ==
  ASSUME WorldInv, NEW list \in Seq(W!Action), Len(list) \in 1..2, W!Tick(list)
  PROVE  WorldInv'
<1>1. /\ World(entities) /\ World(saved) /\ Calm(saved)
      /\ CountsOk(spawn_points) /\ restarts \in Nat
  BY DEF WorldInv
<1>2. PICK w : w = W!Processed(list)
  OBVIOUS
<1>3. Underway(w)
  BY <1>1, <1>2, BlockKeepsWorld
<1>4. World(w.es) /\ SameNpcs(entities, w.es) /\ w.ok \in BOOLEAN
  BY <1>3 DEF Underway
<1>5. failed' = ~w.ok /\ restarts' = restarts
  BY <1>2 DEF W!Tick
<1>6. CASE ~w.ok
  <2>1. entities' = w.es /\ spawn_points' = spawn_points /\ saved' = saved
    BY <1>2, <1>6 DEF W!Tick
  <2>2. \A kind \in W!Kinds : Count(entities', kind) = Count(entities, kind)
    BY <1>4, <2>1 DEF SameNpcs, Count
  <2>3. \A kind \in W!Kinds :
          /\ Populated(Count(entities', kind), Tally(spawn_points', kind), restarts', Most(kind))
          /\ Count(saved', kind) \in Nat
          /\ Count(saved', kind) <= (restarts' + 1) * Most(kind)
    BY <1>5, <2>1, <2>2 DEF WorldInv
  <2>4. World(entities') /\ World(saved') /\ Calm(saved') /\ CountsOk(spawn_points')
    BY <1>1, <1>4, <2>1
  <2>5. failed' /\ restarts' \in Nat
    BY <1>1, <1>5, <1>6
  <2> QED
    BY <2>3, <2>4, <2>5, WorldPrimed
<1>7. CASE w.ok
  <2>1. PICK es, new : es = W!RunTick(w.es) /\ new = W!NewSpawns(spawn_points)
    OBVIOUS
  <2>2. /\ entities' = es \o new /\ saved' = es \o new
        /\ spawn_points' = W!TickSpawns(spawn_points)
    BY <1>2, <1>7, <2>1 DEF W!Tick
  <2>3. World(es) /\ Calm(es) /\ SameNpcs(w.es, es)
    BY <1>4, <2>1, SystemsKeepWorld
  <2>4. World(new) /\ Calm(new) /\ \A i \in DOMAIN new : new[i].kind \in W!Kinds
    BY <2>1, SpawnedWorld
  <2>5. World(es \o new) /\ Calm(es \o new)
    BY <2>3, <2>4, TogetherWorld
  <2>6. CountsOk(spawn_points')
    BY <1>1, <2>2, TickCounts
  <2>7. ASSUME NEW kind \in W!Kinds
        PROVE  /\ Populated(Count(es \o new, kind), Tally(spawn_points', kind), restarts,
                            Most(kind))
               /\ Count(es \o new, kind) \in Nat
               /\ Count(es \o new, kind) <= (restarts + 1) * Most(kind)
    <3>1. Npcs(es, kind) = Npcs(entities, kind)
      BY <1>4, <2>3 DEF SameNpcs
    <3>2. PICK k \in Nat : /\ k = Cardinality(Spawning(spawn_points, kind))
                           /\ Tally(spawn_points', kind) = Tally(spawn_points, kind) + k
      BY <1>1, <2>2, TickCounts
    <3>3. Cardinality(Npcs(new, kind)) = k
      BY <2>1, <3>2, SpawnedWorld
    <3>4. Cardinality(Npcs(es \o new, kind))
            = Cardinality(Npcs(es, kind)) + Cardinality(Npcs(new, kind))
      BY <2>3, <2>4, TogetherWorld
    <3>5. Count(es \o new, kind) = Count(entities, kind) + k
      BY <3>1, <3>3, <3>4 DEF Count
    <3>6. PICK n, c, m : /\ n = Count(entities, kind) /\ c = Tally(spawn_points, kind)
                         /\ m = Most(kind)
      OBVIOUS
    <3>7. Populated(n, c, restarts, m)
      BY <3>6 DEF WorldInv
    <3>8. c + k <= m
      <4>1. Tally(spawn_points', kind) <= Most(kind)
        BY <2>6, TalliesTotal
      <4> QED
        BY <3>2, <3>6, <4>1
    <3>9. Populated(n + k, c + k, restarts, m) /\ n + k <= (restarts + 1) * m
      BY <1>1, <3>7, <3>8, PopulationGrows
    <3>10. n + k \in Nat
      BY <3>9 DEF Populated
    <3> QED
      BY <3>2, <3>5, <3>6, <3>9, <3>10
  <2>8. \A kind \in W!Kinds :
          /\ Populated(Count(entities', kind), Tally(spawn_points', kind), restarts', Most(kind))
          /\ Count(saved', kind) \in Nat
          /\ Count(saved', kind) <= (restarts' + 1) * Most(kind)
    BY <1>5, <2>2, <2>7
  <2>9. /\ World(entities') /\ Calm(entities') /\ World(saved') /\ Calm(saved')
        /\ restarts' \in Nat
    BY <1>1, <1>5, <2>2, <2>5
  <2> QED
    BY <2>6, <2>8, <2>9, WorldPrimed
<1> QED
  BY <1>4, <1>6, <1>7

\* A restart of the node.
LEMMA RestartKeepsWorld ==
  ASSUME WorldInv, W!Restart
  PROVE  WorldInv'
<1>1. /\ World(saved) /\ Calm(saved) /\ restarts \in Nat /\ CountsOk(spawn_points)
      /\ \A kind \in W!Kinds : /\ Count(saved, kind) \in Nat
                               /\ Count(saved, kind) <= (restarts + 1) * Most(kind)
  BY DEF WorldInv
<1>2. restarts' = restarts + 1 /\ saved' = saved /\ restarts' \in Nat
  BY <1>1 DEF W!Restart
<1>3. \A kind : Most(kind) \in Nat
  BY <1>1, TalliesTotal
<1>4. ASSUME NEW kind \in W!Kinds
      PROVE  /\ Populated(Count(saved, kind), 0, restarts + 1, Most(kind))
             /\ Count(saved, kind) <= ((restarts + 1) + 1) * Most(kind)
  BY <1>1, <1>3, PopulationKept
<1>5. CASE saved = <<>>
  <2>1. /\ entities' = W!NewSpawns(W!FreshPoints)
        /\ spawn_points' = W!TickSpawns(W!FreshPoints)
    BY <1>5 DEF W!Restart
  <2>2. /\ World(entities') /\ Calm(entities') /\ CountsOk(spawn_points')
        /\ \A kind \in W!Kinds :
             Populated(Count(entities', kind), Tally(spawn_points', kind), restarts', Most(kind))
    BY <1>2, <2>1, FirstWorld
  <2> QED
    BY <1>1, <1>2, <1>4, <2>2, WorldPrimed
<1>6. CASE saved # <<>>
  <2>1. entities' = saved /\ spawn_points' = W!FreshPoints
    BY <1>6 DEF W!Restart
  <2>2. CountsOk(spawn_points') /\ \A kind : Tally(spawn_points', kind) = 0
    BY <2>1, FreshCounts
  <2>3. \A kind \in W!Kinds :
          Populated(Count(entities', kind), Tally(spawn_points', kind), restarts', Most(kind))
    BY <1>2, <1>4, <2>1, <2>2
  <2> QED
    BY <1>1, <1>2, <1>4, <2>1, <2>2, <2>3, WorldPrimed
<1> QED
  BY <1>5, <1>6

\* After a tick that succeeds every player is alive and nobody is below the
\* ground, each address has one entity, an entity is dead exactly when its health
\* is gone, and the NPCs are those the spawn points count; restarts repeat them
\* at most once each.
THEOREM WorldStaysSettled == MCSpec => []WorldSettled
<1>1. MCInit => WorldInv
  <2> SUFFICES ASSUME MCInit PROVE WorldInv
    OBVIOUS
  <2>1. /\ entities = W!NewSpawns(W!FreshPoints)
        /\ spawn_points = W!TickSpawns(W!FreshPoints)
        /\ failed = FALSE /\ saved = <<>> /\ restarts = 0 /\ 0 \in Nat
    BY DEF MCInit, W!Init
  <2>2. /\ World(entities) /\ Calm(entities) /\ CountsOk(spawn_points)
        /\ \A kind \in W!Kinds :
             Populated(Count(entities, kind), Tally(spawn_points, kind), 0, Most(kind))
    BY <2>1, FirstWorld
  <2>3. World(saved) /\ Calm(saved)
    BY <2>1 DEF World, Calm, Alone
  <2>4. ASSUME NEW kind \in W!Kinds
        PROVE  Count(saved, kind) \in Nat /\ Count(saved, kind) <= (0 + 1) * Most(kind)
    <3>1. Npcs(saved, kind) = {}
      BY <2>1 DEF Npcs
    <3>2. Count(saved, kind) = 0
      BY <3>1, FS_EmptySet DEF Count
    <3>3. Most(kind) \in Nat
      BY <2>2, TalliesTotal
    <3> QED
      BY <3>2, <3>3
  <2> QED
    BY <2>1, <2>2, <2>3, <2>4 DEF WorldInv
<1>2. WorldInv /\ [MCNext]_allvars => WorldInv'
  <2> SUFFICES ASSUME WorldInv, [MCNext]_allvars PROVE WorldInv'
    OBVIOUS
  <2>1. CASE Live
    <3>1. ASSUME NEW a \in W!Action, W!Tick(<<a>>) PROVE WorldInv'
      <4>1. <<a>> \in Seq(W!Action) /\ Len(<<a>>) \in 1..2
        OBVIOUS
      <4> QED
        BY <3>1, <4>1, TickKeepsWorld
    <3>2. ASSUME NEW a \in W!Action, NEW b \in W!Action, W!Tick(<<a, b>>) PROVE WorldInv'
      <4>1. <<a, b>> \in Seq(W!Action) /\ Len(<<a, b>>) \in 1..2
        OBVIOUS
      <4> QED
        BY <3>2, <4>1, TickKeepsWorld
    <3> QED
      BY <2>1, <3>1, <3>2, RestartKeepsWorld DEF Live, W!Next
  <2>2. CASE UNCHANGED worldVars
    <3>1. /\ entities' = entities /\ spawn_points' = spawn_points /\ failed' = failed
          /\ saved' = saved /\ restarts' = restarts
      BY <2>2 DEF worldVars
    <3>2. /\ World(entities) /\ World(saved) /\ Calm(saved)
          /\ CountsOk(spawn_points) /\ restarts \in Nat /\ (~failed => Calm(entities))
          /\ \A kind \in W!Kinds :
               /\ Populated(Count(entities, kind), Tally(spawn_points, kind), restarts, Most(kind))
               /\ Count(saved, kind) \in Nat
               /\ Count(saved, kind) <= (restarts + 1) * Most(kind)
      BY DEF WorldInv
    <3> QED
      BY <3>1, <3>2, WorldPrimed
  <2> QED
    BY <2>1, <2>2 DEF MCNext, Trade, Shop, Craft, Quest, Learn, Happen, Touch, Show, Play,
                      Sparkle, allvars, sceneVars
<1>3. WorldInv => WorldSettled
  <2> SUFFICES ASSUME WorldInv PROVE W!WorldSettled /\ W!NpcPopulation
    BY DEF WorldSettled
  <2>1. /\ World(entities) /\ (~failed => Calm(entities))
        /\ CountsOk(spawn_points) /\ restarts \in Nat
    BY DEF WorldInv
  <2>2. ASSUME NEW a \in Address PROVE W!Cardinality(W!Players(entities, a)) <= 1
    <3>1. PICK s : s = W!Players(entities, a)
      OBVIOUS
    <3>2. \A i, j \in s : i = j
      BY <2>1, <3>1 DEF World, Alone, W!Players
    <3>3. s = {} \/ \E i : s = {i}
      BY <3>2
    <3>4. Cardinality({}) = 0 /\ \A i : Cardinality({i}) = 1
      BY FS_EmptySet, FS_Singleton
    <3>5. Cardinality(s) = 0 \/ Cardinality(s) = 1
      BY <3>3, <3>4
    <3> QED
      BY <3>1, <3>5, WorldCounts
  <2>3. ASSUME NEW id \in DOMAIN entities
        PROVE  /\ entities[id].is_dead <=> entities[id].health = 0
               /\ ~failed => /\ entities[id].kind \in Address => ~entities[id].is_dead
                             /\ entities[id].place # "below"
    <3>1. entities[id] \in Entity
      BY <2>1 DEF World
    <3>2. ~failed => AtPeace(entities[id])
      BY <2>1 DEF Calm
    <3> QED
      BY <3>1, <3>2 DEF Entity, AtPeace
  <2>4. W!WorldSettled
    BY <2>2, <2>3 DEF W!WorldSettled
  <2>5. ASSUME NEW kind \in W!Kinds
        PROVE  LET of == {p \in Points : W!archetype(p) = kind}
                   npcs == W!Cardinality({id \in DOMAIN entities : entities[id].kind = kind})
                   counted == W!MapThenSumSet(LAMBDA p : spawn_points[p].current_count, of)
               IN  /\ restarts = 0 => npcs = counted
                   /\ npcs <= (1 + restarts) * W!MapThenSumSet(W!max_count, of)
    <3>1. PICK n, c, m : /\ n = Count(entities, kind) /\ c = Tally(spawn_points, kind)
                         /\ m = Most(kind)
      OBVIOUS
    <3>2. Populated(n, c, restarts, m)
      BY <3>1 DEF WorldInv
    <3>3. n = W!Cardinality({id \in DOMAIN entities : entities[id].kind = kind})
      BY <3>1, WorldCounts DEF Count, Npcs
    <3>4. PICK s : s = PointsOf(kind) /\ IsFiniteSet(s)
      BY PointsFinite
    <3>5. s = {p \in Points : W!archetype(p) = kind}
      BY <3>4 DEF PointsOf
    <3>6. W!MapThenSumSet(LAMBDA p : spawn_points[p].current_count, s) = c
      <4>1. PICK x : x = W!MapThenSumSet(LAMBDA p : spawn_points[p].current_count, s)
        OBVIOUS
      <4>2. Total(Counts(spawn_points), s, x)
        BY <3>4, <4>1, WorldSums
      <4>3. Total(Counts(spawn_points), s, c)
        BY <2>1, <3>1, <3>4, TalliesTotal
      <4>4. Agree(Counts(spawn_points), Counts(spawn_points), s)
        BY DEF Agree
      <4> QED
        BY <3>4, <4>1, <4>2, <4>3, <4>4, TotalUnique
    <3>7. W!MapThenSumSet(W!max_count, s) = m
      <4>1. PICK x : x = W!MapThenSumSet(W!max_count, s)
        OBVIOUS
      <4>2. Total(Maxima, s, x)
        BY <3>4, <4>1, WorldSums
      <4>3. Total(Maxima, s, m)
        BY <2>1, <3>1, <3>4, TalliesTotal
      <4>4. Agree(Maxima, Maxima, s)
        BY DEF Agree
      <4> QED
        BY <3>4, <4>1, <4>2, <4>3, <4>4, TotalUnique
    <3>8. (restarts = 0 => n = c) /\ n <= (1 + restarts) * m
      <4>1. n \in Nat /\ c \in Nat /\ m \in Nat /\ n <= restarts * m + c /\ c <= m
        BY <3>2 DEF Populated
      <4>2. PICK x \in Nat : x = restarts * m
        BY <2>1, <4>1
      <4>3. (1 + restarts) * m = x + m
        BY <2>1, <4>1, <4>2
      <4>4. n <= x + m
        BY <4>1, <4>2
      <4>5. restarts = 0 => n = c
        BY <3>2 DEF Populated
      <4> QED
        BY <4>3, <4>4, <4>5
    <3> QED
      BY <3>3, <3>5, <3>6, <3>7, <3>8
  <2>6. W!NpcPopulation
    BY <2>5 DEF W!NpcPopulation
  <2> QED
    BY <2>4, <2>6
<1> QED
  BY <1>1, <1>2, <1>3, PTL DEF MCSpec
-----------------------------------------------------------------------------
(* Drop tables                                                             *)

\* A table with distinct items, of which at most five can drop at once.
Table(t, n) ==
  /\ n \in Nat /\ DOMAIN t.entries = 1..n /\ Len(t.entries) = n /\ t.nothing_weight \in Nat
  /\ \A k \in 1..n : LET e == t.entries[k] IN
       /\ e.weight \in Nat /\ e.min_quantity \in Nat /\ e.max_quantity \in Nat
       /\ e.min_quantity <= e.max_quantity /\ e.max_quantity <= e.min_quantity + 4
  /\ \A k, l \in 1..n : t.entries[k].item_id = t.entries[l].item_id => k = l

WeightsOf(t) == [k \in DOMAIN t.entries |-> t.entries[k].weight]

\* The cumulative weights of a table start with nothing_weight and grow by one
\* weight per entry.
LEMMA CumulativeGrows ==
  ASSUME NEW t, NEW n, Table(t, n)
  PROVE  /\ C!Cumulative(t, 0) = t.nothing_weight
         /\ \A k \in 0..n : C!Cumulative(t, k) \in Nat
         /\ \A k \in 1..n : C!Cumulative(t, k) = C!Cumulative(t, k - 1) + t.entries[k].weight
<1>1. n \in Nat /\ DOMAIN t.entries = 1..n /\ t.nothing_weight \in Nat
  BY DEF Table
<1>a. PICK w : w = WeightsOf(t)
  OBVIOUS
<1>2. \A k \in 1..n : w[k] = t.entries[k].weight /\ w[k] \in Nat
  <2>1. \A k \in 1..n : t.entries[k].weight \in Nat
    BY DEF Table
  <2>2. \A k \in 1..n : w[k] = t.entries[k].weight
    BY <1>1, <1>a DEF WeightsOf
  <2> QED
    BY <2>1, <2>2
<1>3. PICK sum : sum = [k \in 0..n |->
                 C!MapThenSumSet(LAMBDA j : t.entries[j].weight, 1..k)]
  OBVIOUS
<1>4. \A k \in 0..n : C!Cumulative(t, k) = t.nothing_weight + sum[k]
  BY <1>3 DEF C!Cumulative
<1>5. ASSUME NEW k \in 0..n PROVE Total(w, 1..k, sum[k])
  <2>1. PICK all : all = 1..k /\ IsFiniteSet(all) /\ all \subseteq 1..n
    <3>1. k \in Nat /\ 1..k \subseteq 1..n
      BY <1>1
    <3> QED
      BY <3>1, IntervalCard
  <2>2. PICK f : f = CHOOSE g : g = [s \in SUBSET all |->
          IF s = {} THEN 0 ELSE t.entries[Pick(s)].weight + g[s \ {Pick(s)}]]
    OBVIOUS
  <2>3. C!MapThenSumSet(LAMBDA j : t.entries[j].weight, all) = f[all]
    BY <2>2 DEF C!MapThenSumSet, C!MapThenFoldSet, Pick
  <2>4. \A g : SumsOver(g, w, all)
          <=> g = [s \in SUBSET all |->
                     IF s = {} THEN 0 ELSE t.entries[Pick(s)].weight + g[s \ {Pick(s)}]]
    <3> SUFFICES ASSUME NEW g
                 PROVE  [s \in SUBSET all |-> IF s = {} THEN 0
                           ELSE w[Pick(s)] + g[s \ {Pick(s)}]]
                        = [s \in SUBSET all |-> IF s = {} THEN 0
                           ELSE t.entries[Pick(s)].weight + g[s \ {Pick(s)}]]
      BY DEF SumsOver, Sums
    <3>1. \A s \in SUBSET all : s # {} => Pick(s) \in 1..n
      BY <2>1 DEF Pick
    <3> QED
      BY <1>2, <3>1
  <2>5. PICK g : SumsOver(g, w, all)
    BY <2>1, SumsExist
  <2>6. f = [s \in SUBSET all |->
               IF s = {} THEN 0 ELSE t.entries[Pick(s)].weight + f[s \ {Pick(s)}]]
    BY <2>2, <2>4, <2>5
  <2>7. SumsOver(f, w, all)
    BY <2>4, <2>6
  <2>8. sum[k] = f[all]
    BY <1>3, <2>1, <2>3
  <2> QED
    BY <2>1, <2>7, <2>8 DEF Total
<1>6. ASSUME NEW k \in 0..n PROVE sum[k] \in Nat
  <2>1. PICK g, all : all = 1..k /\ SumsOver(g, w, all) /\ sum[k] = g[all]
    BY <1>5 DEF Total
  <2>2. k \in Nat
    BY <1>1
  <2>3. IsFiniteSet(all) /\ all \subseteq 1..n
    BY <1>1, <2>1, <2>2, IntervalCard
  <2>4. Weighs(w, all)
    BY <1>2, <2>3 DEF Weighs
  <2> QED
    BY <2>1, <2>3, <2>4, SumTyped
<1>7. ASSUME NEW k \in 1..n PROVE sum[k] = t.entries[k].weight + sum[k - 1]
  <2>1. PICK l \in Nat : l = k - 1 /\ l + 1 = k /\ l \in 0..n /\ k \in 0..n
    <3>1. k - 1 \in Nat /\ k - 1 + 1 = k /\ k - 1 \in 0..n /\ k \in 0..n
      BY <1>1
    <3> QED
      BY <3>1
  <2>2. Total(w, 1..l, sum[l]) /\ Total(w, 1..l + 1, sum[l + 1])
    BY <1>5, <2>1
  <2>3. Weighs(w, 1..l + 1)
    <3>1. \A j \in 1..l + 1 : j \in 1..n
      BY <1>1, <2>1
    <3> QED
      BY <1>2, <3>1 DEF Weighs
  <2>4. PICK a, b : a = sum[l] /\ b = sum[l + 1]
    OBVIOUS
  <2>5. b = w[l + 1] + a
    BY <2>2, <2>3, <2>4, TotalUpTo
  <2> QED
    BY <1>2, <2>1, <2>4, <2>5
<1>8. sum[0] = 0
  <2>1. PICK g, all : all = 1..0 /\ SumsOver(g, w, all) /\ sum[0] = g[all]
    BY <1>1, <1>5 DEF Total
  <2>2. all = {}
    BY <2>1
  <2> QED
    BY <2>1, <2>2, SumStep
<1>9. C!Cumulative(t, 0) = t.nothing_weight
  BY <1>1, <1>4, <1>8
<1>10. \A k \in 0..n : C!Cumulative(t, k) \in Nat
  BY <1>1, <1>4, <1>6
<1>11. ASSUME NEW k \in 1..n
       PROVE  C!Cumulative(t, k) = C!Cumulative(t, k - 1) + t.entries[k].weight
  <2>1. k \in 0..n /\ k - 1 \in 0..n
    BY <1>1
  <2>2. PICK a \in Nat, b \in Nat, c \in Nat :
          a = sum[k - 1] /\ b = t.entries[k].weight /\ c = t.nothing_weight
    BY <1>1, <1>2, <1>6, <2>1
  <2>3. C!Cumulative(t, k) = c + (b + a) /\ C!Cumulative(t, k - 1) = c + a
    BY <1>4, <1>7, <2>1, <2>2
  <2> QED
    BY <2>2, <2>3
<1> QED
  BY <1>9, <1>10, <1>11

\* The weights of a table up to its entries, as a list of boundaries.
Boundaries(b, t, n) ==
  /\ b \in [0..n -> Nat] /\ b[0] = t.nothing_weight
  /\ \A k \in 0..n : b[k] = C!Cumulative(t, k)
  /\ \A k \in 1..n : b[k] = b[k - 1] + t.entries[k].weight

\* They rise.
LEMMA BoundariesRise ==
  ASSUME NEW n \in Nat, NEW b \in [0..n -> Nat], \A k \in 1..n : b[k - 1] <= b[k]
  PROVE  \A k, l \in 0..n : k <= l => b[k] <= b[l]
<1> SUFFICES ASSUME NEW k \in 0..n, \E l \in 0..n : k <= l /\ ~(b[k] <= b[l]) PROVE FALSE
  OBVIOUS
<1>1. PICK bad : bad = {l \in 0..n : k <= l /\ ~(b[k] <= b[l])}
  OBVIOUS
<1>2. bad \in SUBSET Nat /\ bad # {}
  <2>1. bad \in SUBSET Nat
    BY <1>1
  <2>2. PICK l \in 0..n : k <= l /\ ~(b[k] <= b[l])
    OBVIOUS
  <2>3. l \in bad
    BY <1>1, <2>2
  <2> QED
    BY <2>1, <2>3
<1>3. PICK l \in bad : \A m \in bad : l <= m
  BY <1>2, LeastElement
<1>4. l \in 0..n /\ k <= l /\ ~(b[k] <= b[l]) /\ k \in Nat /\ l \in Nat
  BY <1>1, <1>3
<1>5. k # l
  <2>1. b[k] \in Nat
    OBVIOUS
  <2> QED
    BY <1>4, <2>1
<1>6. PICK m \in 0..n : m = l - 1 /\ k <= m /\ m < l /\ l \in 1..n
  <2>1. l - 1 \in 0..n /\ k <= l - 1 /\ l - 1 < l /\ l \in 1..n
    BY <1>4, <1>5
  <2> QED
    BY <2>1
<1>7. m \notin bad
  BY <1>3, <1>4, <1>6
<1>8. b[k] <= b[m] /\ b[m] <= b[l]
  BY <1>1, <1>6, <1>7
<1>9. b[k] \in Nat /\ b[m] \in Nat /\ b[l] \in Nat
  BY <1>4
<1> QED
  BY <1>4, <1>8, <1>9

\* A residue below nothing_weight falls on no entry, each other one on the entry
\* between whose boundaries it lies.
LEMMA HitBetween ==
  ASSUME NEW t, NEW n, Table(t, n), NEW b, Boundaries(b, t, n), NEW r \in Nat
  PROVE  /\ r < b[0] => C!Hit(t, r) = {}
         /\ \A k \in 1..n : b[k - 1] <= r /\ r < b[k] => C!Hit(t, r) = {k}
         /\ b[0] <= r /\ r < b[n] => \E k \in 1..n : b[k - 1] <= r /\ r < b[k]
<1>1. n \in Nat /\ DOMAIN t.entries = 1..n
  BY DEF Table
<1>2. b \in [0..n -> Nat] /\ \A k \in 0..n : b[k] = C!Cumulative(t, k)
  BY DEF Boundaries
<1>3. \A k \in 1..n : k \in 0..n /\ k - 1 \in 0..n
  BY <1>1
<1>4. \A k, l \in 0..n : k <= l => b[k] <= b[l]
  <2>1. \A k \in 1..n : b[k - 1] <= b[k]
    <3> SUFFICES ASSUME NEW k \in 1..n PROVE b[k - 1] <= b[k]
      OBVIOUS
    <3>1. t.entries[k].weight \in Nat /\ b[k] = b[k - 1] + t.entries[k].weight
      BY DEF Table, Boundaries
    <3>2. b[k - 1] \in Nat
      BY <1>2, <1>3
    <3> QED
      BY <3>1, <3>2
  <2> QED
    BY <1>1, <1>2, <2>1, BoundariesRise
<1>5. C!Hit(t, r) = {k \in 1..n : b[k - 1] <= r /\ r < b[k]}
  BY <1>1, <1>2, <1>3 DEF C!Hit
<1>6. \A k \in 0..n : b[k] \in Nat
  BY <1>2
<1>7. ASSUME r < b[0] PROVE C!Hit(t, r) = {}
  <2>1. ASSUME NEW k \in 1..n, b[k - 1] <= r PROVE FALSE
    <3>1. 0 \in 0..n /\ k - 1 \in 0..n /\ 0 <= k - 1
      BY <1>1
    <3>2. b[0] <= b[k - 1]
      BY <1>4, <3>1
    <3>3. b[0] \in Nat /\ b[k - 1] \in Nat
      BY <1>6, <3>1
    <3> QED
      BY <1>7, <2>1, <3>2, <3>3
  <2> QED
    BY <1>5, <2>1
<1>8. ASSUME NEW k \in 1..n, b[k - 1] <= r, r < b[k] PROVE C!Hit(t, r) = {k}
  <2>1. ASSUME NEW l \in 1..n, b[l - 1] <= r, r < b[l] PROVE l = k
    <3>1. ASSUME NEW i \in 1..n, NEW j \in 1..n, r < b[i], b[j - 1] <= r PROVE ~(i < j)
      <4> SUFFICES ASSUME i < j PROVE FALSE
        OBVIOUS
      <4>1. i \in 0..n /\ j - 1 \in 0..n /\ i <= j - 1
        BY <1>1
      <4>2. b[i] <= b[j - 1] /\ b[i] \in Nat /\ b[j - 1] \in Nat
        BY <1>4, <1>6, <4>1
      <4> QED
        BY <3>1, <4>2
    <3>2. ~(l < k) /\ ~(k < l)
      BY <1>8, <2>1, <3>1
    <3> QED
      BY <1>1, <3>2
  <2> QED
    BY <1>5, <1>8, <2>1
<1>9. ASSUME b[0] <= r, r < b[n] PROVE \E k \in 1..n : b[k - 1] <= r /\ r < b[k]
  <2>1. PICK above : above = {k \in 0..n : r < b[k]}
    OBVIOUS
  <2>2. above \in SUBSET Nat /\ n \in above
    BY <1>1, <1>9, <2>1
  <2>3. PICK k \in above : \A l \in above : k <= l
    BY <2>2, LeastElement
  <2>4. k \in 0..n /\ r < b[k] /\ k \in Nat
    BY <2>1, <2>3
  <2>5. k # 0
    <3>1. b[0] \in Nat
      BY <1>1, <1>6
    <3> QED
      BY <1>9, <2>4, <3>1
  <2>6. k \in 1..n /\ k - 1 \in 0..n /\ k - 1 < k
    BY <1>1, <2>4, <2>5
  <2>7. k - 1 \notin above
    BY <2>3, <2>4, <2>6
  <2>8. b[k - 1] <= r
    BY <1>6, <2>1, <2>6, <2>7
  <2> QED
    BY <2>4, <2>6, <2>8
<1> QED
  BY <1>7, <1>8, <1>9

DropsOf(e) == {[item_id |-> e.item_id, quantity |-> q] : q \in e.min_quantity..e.max_quantity}

\* The second hash gives every quantity of an entry, and no other.
LEMMA TakenBetween ==
  ASSUME NEW e, NEW min \in Nat, NEW max \in Nat, min <= max, max <= min + 4,
         min = e.min_quantity, max = e.max_quantity
  PROVE  {C!Taken(e, extra) : extra \in 0..4} = DropsOf(e)
<1>1. PICK d \in Nat : d = max - min + 1 /\ d \in 1..5
  <2>1. max - min + 1 \in Nat /\ max - min + 1 \in 1..5
    OBVIOUS
  <2> QED
    BY <2>1
<1>2. \A extra : C!Taken(e, extra) = [item_id |-> e.item_id, quantity |-> min + (extra % d)]
  BY <1>1 DEF C!Taken
<1>3. \A extra \in 0..4 : extra % d \in 0..d - 1
  <2>1. d = 1 \/ d = 2 \/ d = 3 \/ d = 4 \/ d = 5
    BY <1>1
  <2> QED
    BY <2>1
<1>4. \A extra \in 0..d - 1 : extra \in 0..4 /\ extra % d = extra
  <2>1. d = 1 \/ d = 2 \/ d = 3 \/ d = 4 \/ d = 5
    BY <1>1
  <2> QED
    BY <2>1
<1>5. ASSUME NEW extra \in 0..4 PROVE C!Taken(e, extra) \in DropsOf(e)
  <2>a. PICK x \in Int : x = extra % d /\ 0 <= x /\ x <= d - 1
    <3>1. PICK x \in 0..d - 1 : x = extra % d
      BY <1>3
    <3>2. x \in Int /\ 0 <= x /\ x <= d - 1
      BY <3>1
    <3> QED
      BY <3>1, <3>2
  <2>5. min + x \in min..max
    <3>1. min + x \in Int /\ min <= min + x
      BY <2>a
    <3>2. x <= max - min
      BY <1>1, <2>a
    <3>3. min + x <= max
      BY <3>2
    <3> QED
      BY <3>1, <3>3
  <2>1. min + (extra % d) \in min..max
    BY <2>a, <2>5
  <2> QED
    BY <1>2, <2>1 DEF DropsOf
<1>6. ASSUME NEW q \in min..max
      PROVE  \E extra \in 0..4 : C!Taken(e, extra) = [item_id |-> e.item_id, quantity |-> q]
  <2>1. PICK extra \in 0..d - 1 : extra = q - min
    <3>a. q \in Int /\ min <= q /\ q <= max
      OBVIOUS
    <3>2. q - min \in Int /\ 0 <= q - min
      BY <3>a
    <3>3. q - min <= d - 1
      BY <1>1, <3>a
    <3>4. d - 1 \in Int
      BY <1>1
    <3>1. q - min \in 0..d - 1
      BY <3>2, <3>3, <3>4
    <3> QED
      BY <3>1
  <2>2. extra \in 0..4 /\ min + (extra % d) = q
    BY <1>4, <2>1
  <2> QED
    BY <1>2, <2>2
<1> QED
  BY <1>5, <1>6 DEF DropsOf

\* What a residue drops depends on the entry it falls on.
LEMMA RollOfHit ==
  ASSUME NEW t, NEW n, Table(t, n), NEW r
  PROVE  /\ C!Hit(t, r) = {} => C!Roll(t, r) = {}
         /\ \A k \in 1..n : C!Hit(t, r) = {k} => C!Roll(t, r) = DropsOf(t.entries[k])
         /\ \A k \in 1..n : DropsOf(t.entries[k]) # {}
         /\ \A k, l \in 1..n : DropsOf(t.entries[k]) = DropsOf(t.entries[l]) => k = l
<1>1. C!Hit(t, r) = {} => C!Roll(t, r) = {}
  BY DEF C!Roll
<1>2. ASSUME NEW k \in 1..n, C!Hit(t, r) = {k} PROVE C!Roll(t, r) = DropsOf(t.entries[k])
  <2>1. C!Roll(t, r) = {C!Taken(t.entries[k], extra) : extra \in 0..4}
    BY <1>2 DEF C!Roll
  <2>2. PICK e : e = t.entries[k]
    OBVIOUS
  <2>3. /\ e.min_quantity \in Nat /\ e.max_quantity \in Nat
        /\ e.min_quantity <= e.max_quantity /\ e.max_quantity <= e.min_quantity + 4
    BY <2>2 DEF Table
  <2>4. {C!Taken(e, extra) : extra \in 0..4} = DropsOf(e)
    BY <2>3, TakenBetween
  <2> QED
    BY <2>1, <2>2, <2>4
<1>3. ASSUME NEW k \in 1..n
      PROVE  /\ \E drop : drop \in DropsOf(t.entries[k])
             /\ \A drop \in DropsOf(t.entries[k]) : drop.item_id = t.entries[k].item_id
  <2>1. PICK e : e = t.entries[k]
    OBVIOUS
  <2>2. e.min_quantity \in Nat /\ e.max_quantity \in Nat /\ e.min_quantity <= e.max_quantity
    BY <2>1 DEF Table
  <2>3. e.min_quantity \in e.min_quantity..e.max_quantity
    BY <2>2
  <2>4. PICK drop : drop = [item_id |-> e.item_id, quantity |-> e.min_quantity]
    OBVIOUS
  <2>5. drop \in DropsOf(e)
    BY <2>3, <2>4 DEF DropsOf
  <2>6. \A other \in DropsOf(e) : other.item_id = e.item_id
    BY DEF DropsOf
  <2> QED
    BY <2>1, <2>5, <2>6
<1>4. ASSUME NEW k \in 1..n, NEW l \in 1..n, DropsOf(t.entries[k]) = DropsOf(t.entries[l])
      PROVE  k = l
  <2>1. t.entries[k].item_id = t.entries[l].item_id
    BY <1>3, <1>4
  <2> QED
    BY <2>1 DEF Table
<1> QED
  BY <1>1, <1>2, <1>3, <1>4

\* The residues between two boundaries.
LEMMA Residues ==
  ASSUME NEW a \in Nat, NEW b \in Nat, NEW w \in Nat, b = a + w
  PROVE  C!Cardinality(a..b - 1) = w
<1>1. C!Cardinality(a..b - 1) = Cardinality(a..b - 1)
  BY Zenon DEF C!Cardinality, Cardinality
<1>2. a \in Int /\ b - 1 \in Int
  OBVIOUS
<1>3. Cardinality(a..b - 1) = IF a > b - 1 THEN 0 ELSE b - 1 - a + 1
  BY <1>2, FS_Interval
<1> QED
  BY <1>1, <1>3

Odds(t) ==
  LET all == 0..C!TotalWeight(t) - 1 IN
  /\ C!Quantify(all, LAMBDA r : C!Roll(t, r) = {}) = t.nothing_weight
  /\ \A e \in C!Range(t.entries) : C!Quantify(all, LAMBDA r : C!Roll(t, r) = DropsOf(e)) = e.weight

\* Every table gives each of its entries the residues of its weight.
LEMMA TableIsFair ==
  ASSUME NEW t, NEW n, Table(t, n)
  PROVE  Odds(t)
<1>1. n \in Nat /\ DOMAIN t.entries = 1..n /\ Len(t.entries) = n /\ t.nothing_weight \in Nat
  BY DEF Table
<1>2. PICK b : b = [k \in 0..n |-> C!Cumulative(t, k)]
  OBVIOUS
<1>3. Boundaries(b, t, n)
  <2>1. /\ C!Cumulative(t, 0) = t.nothing_weight
        /\ \A k \in 0..n : C!Cumulative(t, k) \in Nat
        /\ \A k \in 1..n : C!Cumulative(t, k) = C!Cumulative(t, k - 1) + t.entries[k].weight
    BY CumulativeGrows
  <2>2. \A k \in 1..n : k \in 0..n /\ k - 1 \in 0..n
    BY <1>1
  <2>3. 0 \in 0..n
    BY <1>1
  <2> QED
    BY <1>2, <2>1, <2>2, <2>3 DEF Boundaries
<1>4. b \in [0..n -> Nat] /\ b[0] = t.nothing_weight /\ n \in 0..n /\ 0 \in 0..n
  BY <1>1, <1>3 DEF Boundaries
<1>5. C!TotalWeight(t) = b[n]
  BY <1>1, <1>2, <1>4 DEF C!TotalWeight
<1>6. PICK all : all = 0..b[n] - 1 /\ all \subseteq Nat
  BY <1>4
<1>7. ASSUME NEW r \in all
      PROVE  \/ r < b[0] /\ C!Roll(t, r) = {}
             \/ ~(r < b[0]) /\ \E k \in 1..n : /\ b[k - 1] <= r /\ r < b[k]
                                               /\ C!Roll(t, r) = DropsOf(t.entries[k])
  <2>1. r \in Nat /\ r < b[n] /\ b[0] \in Nat
    BY <1>4, <1>6
  <2>2. CASE r < b[0]
    BY <1>3, <2>1, <2>2, HitBetween, RollOfHit
  <2>3. CASE ~(r < b[0])
    <3>1. b[0] <= r
      BY <2>1, <2>3
    <3>2. PICK k \in 1..n : b[k - 1] <= r /\ r < b[k]
      BY <1>3, <2>1, <3>1, HitBetween
    <3>3. C!Hit(t, r) = {k}
      BY <1>3, <2>1, <3>2, HitBetween
    <3>4. C!Roll(t, r) = DropsOf(t.entries[k])
      BY <3>3, RollOfHit
    <3> QED
      BY <2>3, <3>2, <3>4
  <2> QED
    BY <2>2, <2>3
<1>8. \A k, l \in 0..n : k <= l => b[k] <= b[l]
  <2>1. ASSUME NEW k \in 1..n PROVE b[k - 1] <= b[k]
    <3>1. t.entries[k].weight \in Nat /\ b[k] = b[k - 1] + t.entries[k].weight
      BY <1>3 DEF Table, Boundaries
    <3>2. b[k - 1] \in Nat
      BY <1>1, <1>4
    <3> QED
      BY <3>1, <3>2
  <2> QED
    BY <1>1, <1>4, <2>1, BoundariesRise
<1>9. C!Quantify(all, LAMBDA r : C!Roll(t, r) = {}) = t.nothing_weight
  <2>1. \A r \in all : C!Roll(t, r) = {} <=> r < b[0]
    BY <1>7, RollOfHit
  <2>2. b[0] <= b[n] /\ b[0] \in Nat /\ b[n] \in Nat
    BY <1>1, <1>4, <1>8
  <2>3. {r \in all : C!Roll(t, r) = {}} = 0..b[0] - 1
    BY <1>6, <2>1, <2>2
  <2>4. C!Cardinality(0..b[0] - 1) = b[0]
    <3>1. 0 \in Nat /\ b[0] = 0 + b[0]
      BY <2>2
    <3> QED
      BY <2>2, <3>1, Residues
  <2> QED
    BY <1>4, <2>3, <2>4 DEF C!Quantify
<1>10. ASSUME NEW k \in 1..n
       PROVE  C!Quantify(all, LAMBDA r : C!Roll(t, r) = DropsOf(t.entries[k]))
                = t.entries[k].weight
  <2>1. k \in 0..n /\ k - 1 \in 0..n /\ 0 <= k - 1 /\ k <= n
    BY <1>1
  <2>2. PICK low \in Nat, high \in Nat, w \in Nat :
          low = b[k - 1] /\ high = b[k] /\ w = t.entries[k].weight /\ high = low + w
    <3>1. b[k - 1] \in Nat /\ b[k] \in Nat
      BY <1>4, <2>1
    <3>2. t.entries[k].weight \in Nat
      BY DEF Table
    <3>3. b[k] = b[k - 1] + t.entries[k].weight
      BY <1>3 DEF Boundaries
    <3> QED
      BY <3>1, <3>2, <3>3
  <2>3. high <= b[n] /\ b[n] \in Nat
    BY <1>1, <1>4, <1>8, <2>1, <2>2
  <2>4. ASSUME NEW r \in all
        PROVE  C!Roll(t, r) = DropsOf(t.entries[k]) <=> low <= r /\ r < high
    <3>1. ASSUME low <= r, r < high PROVE C!Roll(t, r) = DropsOf(t.entries[k])
      <4>1. r \in Nat
        BY <1>6
      <4>2. b[k - 1] <= r /\ r < b[k]
        BY <2>2, <3>1
      <4>3. C!Hit(t, r) = {k}
        BY <1>3, <4>1, <4>2, HitBetween
      <4> QED
        BY <4>3, RollOfHit
    <3>2. ASSUME C!Roll(t, r) = DropsOf(t.entries[k]) PROVE low <= r /\ r < high
      <4>1. C!Roll(t, r) # {}
        BY <3>2, RollOfHit
      <4>2. PICK l \in 1..n : /\ b[l - 1] <= r /\ r < b[l]
                              /\ C!Roll(t, r) = DropsOf(t.entries[l])
        BY <1>7, <4>1
      <4>3. l = k
        BY <3>2, <4>2, RollOfHit
      <4> QED
        BY <2>2, <4>2, <4>3
    <3> QED
      BY <3>1, <3>2
  <2>5. {r \in all : C!Roll(t, r) = DropsOf(t.entries[k])} = low..high - 1
    <3>1. \A r \in low..high - 1 : r \in all /\ low <= r /\ r < high
      BY <1>6, <2>2, <2>3
    <3>2. \A r \in all : low <= r /\ r < high => r \in low..high - 1
      BY <1>6, <2>2
    <3> QED
      BY <2>4, <3>1, <3>2
  <2>6. C!Cardinality(low..high - 1) = w
    BY <2>2, Residues
  <2> QED
    BY <2>2, <2>5, <2>6 DEF C!Quantify
<1>11. ASSUME NEW e \in C!Range(t.entries)
       PROVE  C!Quantify(all, LAMBDA r : C!Roll(t, r) = DropsOf(e)) = e.weight
  <2>1. PICK k \in 1..n : e = t.entries[k]
    BY <1>1 DEF C!Range
  <2>2. C!Cardinality({r \in all : C!Roll(t, r) = DropsOf(t.entries[k])}) = t.entries[k].weight
    BY <1>10 DEF C!Quantify
  <2>3. C!Cardinality({r \in all : C!Roll(t, r) = DropsOf(e)}) = e.weight
    BY <2>1, <2>2
  <2> QED
    BY <2>3 DEF C!Quantify
<1>12. all = 0..C!TotalWeight(t) - 1
  BY <1>5, <1>6
<1> QED
  BY <1>9, <1>11, <1>12 DEF Odds

\* The tables of the code.
LEMMA TablesRegistered == \A npc \in DOMAIN C!drop_tables : \E n : Table(C!drop_tables[npc], n)
<1> USE DEF Table, C!DropTable, C!DropEntry
<1>1. Table(C!MerchantDrops, 2)
  BY DEF C!MerchantDrops
<1>2. Table(C!GuardDrops, 4)
  BY DEF C!GuardDrops
<1>3. Table(C!WolfDrops, 2)
  BY DEF C!WolfDrops
<1>4. Table(C!DragonDrops, 4)
  BY DEF C!DragonDrops
<1>5. ASSUME NEW npc \in DOMAIN C!drop_tables
      PROVE  C!drop_tables[npc] \in {C!MerchantDrops, C!GuardDrops, C!WolfDrops, C!DragonDrops}
  BY DEF C!drop_tables
<1>6. \A npc \in DOMAIN C!drop_tables :
        Table(C!drop_tables[npc], 2) \/ Table(C!drop_tables[npc], 4)
  <2> HIDE DEF Table, C!DropTable, C!DropEntry
  <2> QED
    BY <1>1, <1>2, <1>3, <1>4, <1>5
<1> HIDE DEF Table, C!DropTable, C!DropEntry
<1> QED
  BY <1>6

\* DropTable::roll gives nothing, and every entry, exactly its share of the sum of
\* the weights, in every table (not the percentage that a comment promises).
THEOREM DropsAreFair == MCSpec => []DropOdds
<1>1. C!DropOdds
  <2>1. ASSUME NEW npc \in DOMAIN C!drop_tables PROVE Odds(C!drop_tables[npc])
    BY TablesRegistered, TableIsFair
  <2> QED
    BY <2>1 DEF C!DropOdds, Odds, DropsOf
<1>2. DropOdds
  BY <1>1 DEF DropOdds
<1> QED
  BY <1>2, PTL
=============================================================================
