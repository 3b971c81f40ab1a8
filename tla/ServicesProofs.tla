--------------------------- MODULE ServicesProofs ---------------------------
(***************************************************************************)
(* Theorems about the six services of MCServices, for every value of the   *)
(* constants.  The services share no state, so each has an inductive       *)
(* invariant of its own, kept by its own steps and untouched by the rest.  *)
(***************************************************************************)
EXTENDS MCServices, FiniteSetTheorems, NaturalsInduction, WellFoundedInduction, TLAPS

-----------------------------------------------------------------------------
(* Finite sets and numbers                                                 *)

\* A subset is finite and no larger.
LEMMA SubsetCard ==
  ASSUME NEW S, NEW T \in SUBSET S, IsFiniteSet(S)
  PROVE  /\ IsFiniteSet(T) /\ Cardinality(T) \in Nat /\ Cardinality(S) \in Nat
         /\ Cardinality(T) <= Cardinality(S)
<1>1. IsFiniteSet(T) /\ Cardinality(T) <= Cardinality(S)
  BY FS_Subset
<1> QED
  BY <1>1, FS_CardinalityType

\* One more element.
LEMMA AddedCard ==
  ASSUME NEW S, NEW x, IsFiniteSet(S)
  PROVE  /\ IsFiniteSet(S \cup {x}) /\ Cardinality(S) \in Nat /\ Cardinality(S \cup {x}) \in Nat
         /\ Cardinality(S \cup {x}) <= Cardinality(S) + 1
<1>1. IsFiniteSet(S \cup {x}) /\ Cardinality(S) \in Nat
  BY FS_AddElement, FS_CardinalityType
<1>2. Cardinality(S \cup {x}) \in Nat
  BY <1>1, FS_CardinalityType
<1>3. Cardinality(S \cup {x}) = IF x \in S THEN Cardinality(S) ELSE Cardinality(S) + 1
  BY FS_AddElement
<1> QED
  BY <1>1, <1>2, <1>3

\* A set of naturals that is not empty has a least element.
LEMMA LeastElement ==
  ASSUME NEW T \in SUBSET Nat, T # {}
  PROVE  \E x \in T : \A y \in T : x <= y
<1>1. IsWellFoundedOn(OpToRel(<, Nat), Nat)
  BY NatLessThanWellFounded
<1>2. \E x \in T : \A y \in T : ~(<<y, x>> \in OpToRel(<, Nat))
  BY <1>1, WFMin
<1>3. \A x, y \in Nat : y < x => <<y, x>> \in OpToRel(<, Nat)
  BY Zenon DEF OpToRel
<1>4. \E x \in T : \A y \in T : ~(y < x)
  BY <1>2, <1>3, Zenon
<1> QED
  BY <1>4

\* A bounded one has a greatest element.
LEMMA GreatestElement ==
  ASSUME NEW n \in Nat, NEW T \in SUBSET (0..n), T # {}
  PROVE  \E x \in T : \A y \in T : y <= x
<1>1. PICK bounds : bounds = {b \in Nat : \A y \in T : y <= b}
  OBVIOUS
<1>2. n \in bounds /\ bounds \in SUBSET Nat
  BY <1>1
<1>3. PICK x \in bounds : \A y \in bounds : x <= y
  BY <1>2, LeastElement
<1>4. x \in Nat /\ \A y \in T : y <= x
  BY <1>1, <1>3
<1>5. x \in T
  <2> SUFFICES ASSUME x \notin T PROVE FALSE
    OBVIOUS
  <2>1. PICK y \in T : TRUE
    OBVIOUS
  <2>2. \A z \in T : z \in Nat /\ z < x
    BY <1>4
  <2>3. x - 1 \in Nat /\ \A z \in T : z <= x - 1
    BY <1>4, <2>1, <2>2
  <2>4. x - 1 \in bounds
    BY <1>1, <2>3
  <2> QED
    BY <1>3, <1>4, <2>4
<1> QED
  BY <1>4, <1>5

-----------------------------------------------------------------------------
(* The table of peers                                                      *)

\* The instance of PeerManager counts as this module does.
LEMMA PeersCount == \A S : P!Cardinality(S) = Cardinality(S)
BY Zenon DEF P!Cardinality, Cardinality

\* Entries keep their types, the table is finite and within its limits, and the
\* entry of a banned peer is marked for disconnection.
PeerInv ==
  /\ peers \in [DOMAIN peers -> P!PeerInfo] /\ IsFiniteSet(DOMAIN peers)
  /\ P!WithinLimits
  /\ \A p \in banned \cap DOMAIN peers : peers[p].disconnect_pending

\* A smaller table is within the limits.
LEMMA SmallerTable ==
  ASSUME PeerInv, NEW table, NEW S \in SUBSET DOMAIN peers, table = [q \in S |-> peers[q]]
  PROVE  /\ table \in [DOMAIN table -> P!PeerInfo] /\ DOMAIN table = S
         /\ IsFiniteSet(DOMAIN table) /\ Cardinality(S) <= Cardinality(DOMAIN peers)
         /\ \A d \in P!Direction : /\ P!Of(table, d) \subseteq P!Of(peers, d)
                                   /\ IsFiniteSet(P!Of(table, d))
                                   /\ Cardinality(P!Of(table, d)) <= P!Limit(d)
         /\ Cardinality(DOMAIN table) <= max_peers
<1>1. table \in [DOMAIN table -> P!PeerInfo] /\ DOMAIN table = S
  BY DEF PeerInv
<1>2. IsFiniteSet(DOMAIN peers) /\ Cardinality(DOMAIN peers) <= max_peers
  BY PeersCount DEF PeerInv, P!WithinLimits
<1>3. IsFiniteSet(S) /\ Cardinality(S) <= Cardinality(DOMAIN peers)
      /\ Cardinality(S) \in Nat /\ Cardinality(DOMAIN peers) \in Nat
  BY <1>2, SubsetCard
<1>4. ASSUME NEW d \in P!Direction
      PROVE  /\ P!Of(table, d) \subseteq P!Of(peers, d) /\ IsFiniteSet(P!Of(table, d))
             /\ Cardinality(P!Of(table, d)) <= P!Limit(d)
  <2>1. P!Of(table, d) \subseteq P!Of(peers, d) /\ P!Of(peers, d) \subseteq DOMAIN peers
    BY <1>1 DEF P!Of
  <2>2. IsFiniteSet(P!Of(peers, d))
    BY <1>2, <2>1, SubsetCard
  <2>3. /\ IsFiniteSet(P!Of(table, d)) /\ Cardinality(P!Of(table, d)) \in Nat
        /\ Cardinality(P!Of(peers, d)) \in Nat
        /\ Cardinality(P!Of(table, d)) <= Cardinality(P!Of(peers, d))
    BY <2>1, <2>2, SubsetCard
  <2>4. Cardinality(P!Of(peers, d)) <= P!Limit(d) /\ P!Limit(d) \in Nat
    BY PeersCount, PeerAssumption DEF PeerInv, P!WithinLimits, P!Limit
  <2> QED
    BY <2>1, <2>3, <2>4
<1>5. Cardinality(S) <= max_peers
  BY <1>2, <1>3, PeerAssumption
<1> QED
  BY <1>1, <1>3, <1>4, <1>5

\* Where a new entry may go there is room for it.
LEMMA RoomIsLeft ==
  ASSUME PeerInv, NEW table \in P!Room
  PROVE  \E S \in SUBSET DOMAIN peers :
           table = [q \in S |-> peers[q]] /\ Cardinality(S) < max_peers
<1>1. IsFiniteSet(DOMAIN peers) /\ Cardinality(DOMAIN peers) <= max_peers
  BY PeersCount DEF PeerInv, P!WithinLimits
<1>2. Cardinality(DOMAIN peers) \in Nat /\ max_peers \in Nat
  BY <1>1, FS_CardinalityType, PeerAssumption
<1>3. CASE Cardinality(DOMAIN peers) >= max_peers
  <2>1. PICK w \in DOMAIN peers : table = P!Without(peers, w)
    BY <1>3, PeersCount DEF P!Room, P!Evicted
  <2>2. Cardinality(DOMAIN peers \ {w}) = Cardinality(DOMAIN peers) - 1
    BY <1>1, FS_RemoveElement
  <2>3. table = [q \in DOMAIN peers \ {w} |-> peers[q]]
    BY <2>1 DEF P!Without
  <2> QED
    BY <1>1, <1>2, <2>2, <2>3
<1>4. CASE ~(Cardinality(DOMAIN peers) >= max_peers)
  <2>1. table = peers
    BY <1>4, PeersCount DEF P!Room
  <2>2. peers = [q \in DOMAIN peers |-> peers[q]]
    BY DEF PeerInv
  <2> QED
    BY <1>2, <1>4, <2>1, <2>2
<1> QED
  BY <1>3, <1>4

\* A new entry, where its direction has room too.
LEMMA EntryKeepsLimits ==
  ASSUME PeerInv, NEW S \in SUBSET DOMAIN peers, Cardinality(S) < max_peers,
         NEW table, table = [q \in S |-> peers[q]],
         NEW p, NEW direction \in P!Direction,
         Cardinality(P!Of(table, direction)) < P!Limit(direction),
         NEW new, new = [q \in S \cup {p} |-> IF q = p THEN P!NewPeer(direction) ELSE table[q]]
  PROVE  /\ new \in [DOMAIN new -> P!PeerInfo] /\ DOMAIN new = S \cup {p}
         /\ IsFiniteSet(DOMAIN new) /\ Cardinality(DOMAIN new) <= max_peers
         /\ \A d \in P!Direction : Cardinality(P!Of(new, d)) <= P!Limit(d)
<1>1. P!NewPeer(direction) \in P!PeerInfo /\ P!NewPeer(direction).direction = direction
  BY DEF P!NewPeer, P!PeerInfo, P!INITIAL_SCORE, P!MAX_SCORE
<1>2. /\ table \in [S -> P!PeerInfo] /\ DOMAIN table = S /\ IsFiniteSet(S)
      /\ \A d \in P!Direction : /\ IsFiniteSet(P!Of(table, d))
                                /\ Cardinality(P!Of(table, d)) <= P!Limit(d)
  BY SmallerTable
<1>3. new \in [DOMAIN new -> P!PeerInfo] /\ DOMAIN new = S \cup {p}
  BY <1>1, <1>2
<1>4. /\ IsFiniteSet(S \cup {p}) /\ Cardinality(S) \in Nat /\ Cardinality(S \cup {p}) \in Nat
      /\ Cardinality(S \cup {p}) <= Cardinality(S) + 1
  BY <1>2, AddedCard
<1>5. Cardinality(S \cup {p}) <= max_peers
  BY <1>4, PeerAssumption
<1>6. ASSUME NEW d \in P!Direction PROVE Cardinality(P!Of(new, d)) <= P!Limit(d)
  <2>1. P!Limit(d) \in Nat /\ IsFiniteSet(P!Of(table, d)) /\ Cardinality(P!Of(table, d)) <= P!Limit(d)
    BY <1>2, PeerAssumption DEF P!Limit
  <2>2. CASE d = direction
    <3>1. P!Of(new, d) \subseteq P!Of(table, d) \cup {p}
      BY <1>2, <1>3 DEF P!Of
    <3>2. /\ IsFiniteSet(P!Of(table, d) \cup {p}) /\ Cardinality(P!Of(table, d)) \in Nat
          /\ Cardinality(P!Of(table, d) \cup {p}) \in Nat
          /\ Cardinality(P!Of(table, d) \cup {p}) <= Cardinality(P!Of(table, d)) + 1
      BY <2>1, AddedCard
    <3>3. /\ Cardinality(P!Of(new, d)) \in Nat
          /\ Cardinality(P!Of(new, d)) <= Cardinality(P!Of(table, d) \cup {p})
      BY <3>1, <3>2, SubsetCard
    <3>4. Cardinality(P!Of(table, d)) < P!Limit(d)
      BY <2>2
    <3> QED
      BY <2>1, <3>2, <3>3, <3>4
  <2>3. CASE d # direction
    <3>1. P!Of(new, d) \subseteq P!Of(table, d)
      BY <1>1, <1>2, <1>3, <2>3 DEF P!Of
    <3>2. /\ Cardinality(P!Of(new, d)) \in Nat /\ Cardinality(P!Of(table, d)) \in Nat
          /\ Cardinality(P!Of(new, d)) <= Cardinality(P!Of(table, d))
      BY <2>1, <3>1, SubsetCard
    <3> QED
      BY <2>1, <3>2
  <2> QED
    BY <2>2, <2>3
<1> QED
  BY <1>3, <1>4, <1>5, <1>6

\* An entry that replaces another of the same direction, in every peer of the
\* table: the limits do not see it.
LEMMA SameDirections ==
  ASSUME PeerInv, peers' \in [DOMAIN peers -> P!PeerInfo],
         \A p \in DOMAIN peers : peers'[p].direction = peers[p].direction
  PROVE  /\ peers' \in [DOMAIN peers' -> P!PeerInfo] /\ IsFiniteSet(DOMAIN peers')
         /\ P!WithinLimits'
<1>1. DOMAIN peers' = DOMAIN peers
  OBVIOUS
<1>2. \A d \in P!Direction : P!Of(peers', d) = P!Of(peers, d)
  BY <1>1 DEF P!Of
<1> QED
  BY <1>1, <1>2 DEF PeerInv, P!WithinLimits, P!Limit

\* Scores stay between the extremes.
LEMMA ScoresBounded ==
  /\ \A s \in Int : P!Clamp(s) \in (-P!MAX_SCORE)..P!MAX_SCORE
  /\ \A s \in (-P!MAX_SCORE)..P!MAX_SCORE : P!Decayed(s) \in (-P!MAX_SCORE)..P!MAX_SCORE
  /\ \A e \in Events : P!ScoreDelta[e] \in Int
<1>1. \A s \in Int : P!Clamp(s) \in (-P!MAX_SCORE)..P!MAX_SCORE
  BY DEF P!Clamp, P!MAX_SCORE
<1>2. \A s \in (-P!MAX_SCORE)..P!MAX_SCORE : P!Decayed(s) \in (-P!MAX_SCORE)..P!MAX_SCORE
  BY PeerAssumption DEF P!Decayed, P!MAX_SCORE, P!INITIAL_SCORE
<1>3. \A e \in Events : P!ScoreDelta[e] \in Int
  BY PeerAssumption DEF P!ScoreDelta
<1> QED
  BY <1>1, <1>2, <1>3

\* Every operation of the peer manager keeps the invariant.
LEMMA PeerInvKept == PeerInv /\ P!Next => PeerInv'
<1> SUFFICES ASSUME PeerInv, P!Next PROVE PeerInv'
  OBVIOUS
<1>1. ASSUME NEW p \in Peer, NEW direction \in P!Direction, P!OnPeerConnected(p, direction)
      PROVE  PeerInv'
  <2>1. PICK table \in P!Room :
          peers' = IF Cardinality(P!Of(table, direction)) >= P!Limit(direction)
                   THEN table
                   ELSE [q \in DOMAIN table \cup {p} |->
                           IF q = p THEN P!NewPeer(direction) ELSE table[q]]
    BY <1>1, PeersCount DEF P!OnPeerConnected
  <2>2. p \notin banned /\ banned' = banned
    BY <1>1 DEF P!OnPeerConnected, P!MayConnect
  <2>3. PICK S \in SUBSET DOMAIN peers : table = [q \in S |-> peers[q]] /\ Cardinality(S) < max_peers
    BY RoomIsLeft
  <2>4. /\ table \in [DOMAIN table -> P!PeerInfo] /\ DOMAIN table = S
        /\ IsFiniteSet(DOMAIN table) /\ Cardinality(DOMAIN table) <= max_peers
        /\ \A d \in P!Direction : /\ IsFiniteSet(P!Of(table, d))
                                  /\ Cardinality(P!Of(table, d)) <= P!Limit(d)
    BY <2>3, SmallerTable
  <2>5. CASE peers' = table
    <3>1. P!WithinLimits'
      BY <2>4, <2>5, PeersCount DEF P!WithinLimits, P!Limit
    <3>2. \A q \in banned' \cap DOMAIN peers' : peers'[q].disconnect_pending
      BY <2>2, <2>3, <2>4, <2>5 DEF PeerInv
    <3> QED
      BY <2>4, <2>5, <3>1, <3>2 DEF PeerInv
  <2>6. CASE /\ ~(Cardinality(P!Of(table, direction)) >= P!Limit(direction))
             /\ peers' = [q \in DOMAIN table \cup {p} |->
                            IF q = p THEN P!NewPeer(direction) ELSE table[q]]
    <3>1. Cardinality(P!Of(table, direction)) < P!Limit(direction)
      <4>1. Cardinality(P!Of(table, direction)) \in Nat /\ P!Limit(direction) \in Nat
        BY <2>4, FS_CardinalityType, PeerAssumption DEF P!Limit
      <4> QED
        BY <2>6, <4>1
    <3>2. /\ peers' \in [DOMAIN peers' -> P!PeerInfo] /\ DOMAIN peers' = S \cup {p}
          /\ IsFiniteSet(DOMAIN peers') /\ Cardinality(DOMAIN peers') <= max_peers
          /\ \A d \in P!Direction : Cardinality(P!Of(peers', d)) <= P!Limit(d)
      BY <2>3, <2>4, <2>6, <3>1, EntryKeepsLimits
    <3>3. P!WithinLimits'
      BY <3>2, PeersCount DEF P!WithinLimits, P!Limit
    <3>4. \A q \in banned' \cap DOMAIN peers' : peers'[q].disconnect_pending
      BY <2>2, <2>3, <2>4, <2>6 DEF PeerInv
    <3> QED
      BY <3>2, <3>3, <3>4 DEF PeerInv
  <2> QED
    BY <2>1, <2>5, <2>6
<1>2. ASSUME NEW p \in Peer, P!OnPeerDisconnected(p) PROVE PeerInv'
  <2>1. peers' = [q \in DOMAIN peers \ {p} |-> peers[q]] /\ banned' = banned
    BY <1>2 DEF P!OnPeerDisconnected, P!Without
  <2>2. /\ peers' \in [DOMAIN peers' -> P!PeerInfo]
        /\ IsFiniteSet(DOMAIN peers') /\ Cardinality(DOMAIN peers') <= max_peers
        /\ \A d \in P!Direction : Cardinality(P!Of(peers', d)) <= P!Limit(d)
    BY <2>1, SmallerTable
  <2>3. P!WithinLimits'
    BY <2>2, PeersCount DEF P!WithinLimits, P!Limit
  <2>4. \A q \in banned' \cap DOMAIN peers' : peers'[q].disconnect_pending
    BY <2>1 DEF PeerInv
  <2> QED
    BY <2>2, <2>3, <2>4 DEF PeerInv
<1>3. ASSUME NEW p \in Peer, P!UpdatePeerStatus(p) PROVE PeerInv'
  <2>1. p \in DOMAIN peers /\ peers' = [peers EXCEPT ![p].idle = 0] /\ banned' = banned
    BY <1>3 DEF P!UpdatePeerStatus
  <2>2. /\ peers' \in [DOMAIN peers -> P!PeerInfo]
        /\ \A q \in DOMAIN peers : /\ peers'[q].direction = peers[q].direction
                                   /\ peers'[q].disconnect_pending = peers[q].disconnect_pending
    BY <2>1 DEF PeerInv, P!PeerInfo
  <2>3. /\ peers' \in [DOMAIN peers' -> P!PeerInfo] /\ IsFiniteSet(DOMAIN peers')
        /\ P!WithinLimits'
    BY <2>2, SameDirections
  <2> QED
    BY <2>1, <2>2, <2>3 DEF PeerInv
<1>4. ASSUME NEW p \in Peer, NEW e \in Events, P!RecordEvent(p, e) PROVE PeerInv'
  <2>1. PICK score : score = P!Clamp(peers[p].score + P!ScoreDelta[e])
    OBVIOUS
  <2>2. /\ p \in DOMAIN peers
        /\ peers' = [peers EXCEPT ![p].score = score, ![p].idle = 0,
                       ![p].disconnect_pending = @ \/ score <= P!DISCONNECT_THRESHOLD]
        /\ banned' = IF score <= P!BAN_THRESHOLD THEN banned \cup {p} ELSE banned
    BY <1>4, <2>1 DEF P!RecordEvent
  <2>3. peers[p] \in P!PeerInfo
    BY <2>2 DEF PeerInv
  <2>4. score \in (-P!MAX_SCORE)..P!MAX_SCORE
    <3>1. peers[p].score \in Int /\ P!ScoreDelta[e] \in Int
      <4>1. peers[p].score \in (-P!MAX_SCORE)..P!MAX_SCORE
        BY <2>3 DEF P!PeerInfo
      <4>2. \A s \in (-P!MAX_SCORE)..P!MAX_SCORE : s \in Int
        BY DEF P!MAX_SCORE
      <4> QED
        BY <4>1, <4>2, ScoresBounded
    <3> QED
      BY <2>1, <3>1, ScoresBounded
  <2>5. PICK mark : mark = (peers[p].disconnect_pending \/ score <= P!DISCONNECT_THRESHOLD)
    OBVIOUS
  <2>6. mark \in BOOLEAN
    BY <2>5
  <2>7. PICK entry : entry = [peers[p] EXCEPT !.score = score, !.idle = 0, !.disconnect_pending = mark]
    OBVIOUS
  <2>8. peers' = [peers EXCEPT ![p] = entry]
    BY <2>2, <2>3, <2>5, <2>7 DEF PeerInv, P!PeerInfo
  <2>9. /\ entry \in P!PeerInfo /\ entry.direction = peers[p].direction
        /\ entry.disconnect_pending = mark
    BY <2>3, <2>4, <2>6, <2>7 DEF P!PeerInfo
  <2>10. /\ peers' \in [DOMAIN peers -> P!PeerInfo]
         /\ \A q \in DOMAIN peers : peers'[q].direction = peers[q].direction
    BY <2>2, <2>8, <2>9 DEF PeerInv
  <2>11. /\ peers' \in [DOMAIN peers' -> P!PeerInfo] /\ IsFiniteSet(DOMAIN peers')
         /\ P!WithinLimits'
    BY <2>10, SameDirections
  <2>12. ASSUME NEW q \in banned' \cap DOMAIN peers' PROVE peers'[q].disconnect_pending
    <3>1. q \in DOMAIN peers
      BY <2>8
    <3>2. CASE q # p
      BY <2>2, <2>8, <3>1, <3>2 DEF PeerInv
    <3>3. CASE q = p
      <4>1. peers'[q].disconnect_pending = mark
        BY <2>2, <2>8, <2>9, <3>3
      <4>2. score <= P!BAN_THRESHOLD => score <= P!DISCONNECT_THRESHOLD
        BY <2>4 DEF P!BAN_THRESHOLD, P!DISCONNECT_THRESHOLD, P!MAX_SCORE
      <4>3. p \in banned => peers[p].disconnect_pending
        BY <2>2 DEF PeerInv
      <4> QED
        BY <2>2, <2>5, <3>3, <4>1, <4>2, <4>3
    <3> QED
      BY <3>2, <3>3
  <2> QED
    BY <2>11, <2>12 DEF PeerInv
<1>5. CASE P!Tick
  <2>1. PICK decay : decay = (since_decay + 1 >= decay_interval_ticks)
    OBVIOUS
  <2>2. banned' = banned /\ peers' = [q \in DOMAIN peers |-> [peers[q] EXCEPT
          !.idle = IF @ > idle_timeout_ticks THEN @ ELSE @ + 1,
          !.score = IF decay THEN P!Decayed(@) ELSE @]]
    BY <1>5, <2>1 DEF P!Tick
  <2>3. ASSUME NEW q \in DOMAIN peers
        PROVE  /\ peers'[q] \in P!PeerInfo /\ peers'[q].direction = peers[q].direction
               /\ peers'[q].disconnect_pending = peers[q].disconnect_pending
    <3>1. peers[q] \in P!PeerInfo
      BY DEF PeerInv
    <3>2. peers[q].idle \in Nat /\ peers[q].score \in (-P!MAX_SCORE)..P!MAX_SCORE
      BY <3>1 DEF P!PeerInfo
    <3>3. PICK i, s : /\ i = IF peers[q].idle > idle_timeout_ticks THEN peers[q].idle ELSE peers[q].idle + 1
                      /\ s = IF decay THEN P!Decayed(peers[q].score) ELSE peers[q].score
      OBVIOUS
    <3>4. i \in Nat /\ s \in (-P!MAX_SCORE)..P!MAX_SCORE
      BY <3>2, <3>3, ScoresBounded
    <3>5. peers'[q] = [peers[q] EXCEPT !.idle = i, !.score = s]
      BY <2>2, <3>3
    <3> QED
      BY <3>1, <3>4, <3>5 DEF P!PeerInfo
  <2>4. peers' \in [DOMAIN peers -> P!PeerInfo]
    BY <2>2, <2>3
  <2>5. /\ peers' \in [DOMAIN peers' -> P!PeerInfo] /\ IsFiniteSet(DOMAIN peers')
        /\ P!WithinLimits'
    BY <2>3, <2>4, SameDirections
  <2> QED
    BY <2>2, <2>3, <2>4, <2>5 DEF PeerInv
<1> QED
  BY <1>1, <1>2, <1>3, <1>4, <1>5 DEF P!Next

\* on_peer_connected, record_event, the timer and the disconnections keep the
\* table of peers within max_peers and each direction within its own limit, and
\* every banned peer that is still connected listed for disconnection.
THEOREM PeersStaySound == MCSpec => []PeersSound
<1>1. MCInit => PeerInv
  <2> SUFFICES ASSUME MCInit PROVE PeerInv
    OBVIOUS
  <2>1. peers = [p \in {} |-> p] /\ banned = {}
    BY DEF MCInit, P!Init
  <2>2. DOMAIN peers = {} /\ peers \in [DOMAIN peers -> P!PeerInfo]
    BY <2>1
  <2>3. IsFiniteSet({}) /\ Cardinality({}) = 0
    BY FS_EmptySet
  <2>4. \A d \in P!Direction : P!Of(peers, d) = {} /\ P!Limit(d) \in Nat
    BY <2>2, PeerAssumption DEF P!Of, P!Limit
  <2>5. P!WithinLimits
    <3>1. P!Cardinality({}) = 0
      BY <2>3, PeersCount
    <3>2. 0 <= max_peers /\ \A d \in P!Direction : 0 <= P!Limit(d)
      BY <2>4, PeerAssumption
    <3> QED
      BY <2>2, <2>4, <3>1, <3>2 DEF P!WithinLimits
  <2> QED
    BY <2>1, <2>2, <2>3, <2>5 DEF PeerInv
<1>2. PeerInv /\ [MCNext]_allvars => PeerInv'
  <2> SUFFICES ASSUME PeerInv, [MCNext]_allvars PROVE PeerInv'
    OBVIOUS
  <2>1. CASE ManagePeers
    BY <2>1, PeerInvKept DEF ManagePeers
  <2>2. CASE peers' = peers /\ banned' = banned
    BY <2>2 DEF PeerInv, P!WithinLimits, P!Of, P!Limit
  <2> QED
    BY <2>1, <2>2 DEF MCNext, Synchronise, Prune, MoveSnapshots, Broadcast, ShutDown, peerVars, allvars
<1>3. PeerInv => PeersSound
  BY DEF PeerInv, PeersSound, P!BannedIsLeaving, P!PeersToDisconnect
<1> QED
  BY <1>1, <1>2, <1>3, PTL DEF MCSpec

\* A ban lasts: nothing takes a peer off the ban list, and no connection brings a
\* banned peer back into the table.
THEOREM BansLast == MCSpec => BanIsFinal
<1> DEFINE Lasts == \A p \in banned : p \in banned' /\ (p \in DOMAIN peers' => p \in DOMAIN peers)
<1>1. [MCNext]_allvars => [Lasts]_P!vars
  <2> SUFFICES ASSUME [MCNext]_allvars PROVE [Lasts]_P!vars
    OBVIOUS
  <2>1. CASE ManagePeers
    BY <2>1 DEF ManagePeers, P!Next, P!OnPeerConnected, P!OnPeerDisconnected, P!UpdatePeerStatus,
                P!RecordEvent, P!Tick, P!MayConnect, P!Room, P!Evicted, P!Without
  <2>2. CASE UNCHANGED peerVars
    BY <2>2 DEF peerVars, P!vars
  <2> QED
    BY <2>1, <2>2 DEF MCNext, Synchronise, Prune, MoveSnapshots, Broadcast, ShutDown, allvars
<1> QED
  BY <1>1, PTL DEF MCSpec, BanIsFinal, P!BanIsFinal

-----------------------------------------------------------------------------
(* Snapshots                                                               *)

\* Blocks above the fork are of a branch; an import has copied what is below its
\* next write, and until it sets the latest number an import that fits only
\* writes what is there already; the file of a node that mixed no chains is one
\* chain.
SnapInv ==
  /\ index \in [0..MaxBlock -> Branches \cup {"trunk", N!None}]
  /\ latest \in 0..MaxBlock /\ file.height \in 0..MaxBlock
  /\ importing \in 0..N!Idle /\ (importing \in 0..MaxBlock => importing <= file.height)
  /\ fits \in BOOLEAN /\ mixed \in BOOLEAN /\ done \in BOOLEAN
  /\ \A n \in 0..file.height : file.blocks[n] \in Branches \cup {"trunk", N!None}
  /\ \A n \in ForkAt + 1..MaxBlock : index[n] # "trunk"
  /\ \A n \in ForkAt + 1..file.height : file.blocks[n] # "trunk"
  /\ importing # N!Idle =>
       /\ ~done
       /\ \A n \in 0..file.height : n < importing => index[n] = file.blocks[n]
  /\ importing <= N!LatestStep /\ fits =>
       \A n \in 0..file.height : n <= latest => index[n] = file.blocks[n]
  /\ importing = N!WorldStep => latest = file.height
  /\ ~mixed => N!OneChain(file.blocks, file.height)
  /\ RestoreSound

\* Chains that agree up to a height are one chain up to it, or both are not.
LEMMA SameChain ==
  ASSUME NEW height \in Nat, NEW chain, NEW other,
         \A n \in 0..height : chain[n] = other[n], N!OneChain(chain, height)
  PROVE  N!OneChain(other, height)
<1>1. \A n \in ForkAt + 1..height : n \in 0..height
  BY SyncConfig
<1> QED
  BY <1>1 DEF N!OneChain

\* A node of one chain that applies a block on its head has one chain.
LEMMA GrownChain ==
  ASSUME SnapInv, NEW branch \in Branches, latest < MaxBlock,
         index[latest] \in {"trunk", branch}, N!OneChain(index, latest)
  PROVE  N!OneChain([index EXCEPT ![latest + 1] = N!Block(latest + 1, branch)], latest + 1)
<1> USE SyncConfig
<1>1. PICK new : new = [index EXCEPT ![latest + 1] = N!Block(latest + 1, branch)]
  OBVIOUS
<1>2. /\ latest \in Nat /\ latest + 1 \in 0..MaxBlock /\ new[latest + 1] = N!Block(latest + 1, branch)
      /\ \A n \in 0..latest : new[n] = index[n] /\ n \in 0..MaxBlock
  BY <1>1 DEF SnapInv
<1>3. N!Block(latest + 1, branch) # N!None
  BY SnapshotAssumption DEF N!Block, N!None
<1>4. \A n \in 0..latest + 1 : new[n] # N!None
  BY <1>2, <1>3 DEF N!OneChain
<1>5. \A n \in ForkAt + 1..latest : new[n] = branch
  <2> SUFFICES ASSUME NEW n \in ForkAt + 1..latest PROVE index[n] = branch
    BY <1>2
  <2>1. latest \in ForkAt + 1..latest /\ latest \in ForkAt + 1..MaxBlock
    BY <1>2
  <2>2. index[latest] = branch
    BY <2>1 DEF SnapInv
  <2> QED
    BY <2>1, <2>2 DEF N!OneChain
<1>6. latest + 1 > ForkAt => new[latest + 1] = branch
  BY <1>2 DEF N!Block
<1>7. \A n \in ForkAt + 1..latest + 1 : new[n] = branch
  <2> SUFFICES ASSUME NEW n \in ForkAt + 1..latest + 1 PROVE new[n] = branch
    OBVIOUS
  <2>1. n \in ForkAt + 1..latest \/ n = latest + 1
    BY <1>2
  <2> QED
    BY <1>2, <1>5, <1>6, <2>1
<1> QED
  BY <1>1, <1>4, <1>7 DEF N!OneChain

\* The chains of the initial states.
LEMMA BranchChain ==
  ASSUME NEW branch \in Branches, NEW height \in 0..MaxBlock, NEW chain,
         \A n \in 0..height : chain[n] = N!Block(n, branch)
  PROVE  N!OneChain(chain, height) /\ \A n \in ForkAt + 1..height : chain[n] # "trunk"
<1>1. \A n \in 0..height : N!Block(n, branch) # N!None
  BY SnapshotAssumption DEF N!Block, N!None
<1>2. \A n \in ForkAt + 1..height : n \in 0..height /\ N!Block(n, branch) = branch
  BY SyncConfig DEF N!Block
<1> QED
  BY <1>1, <1>2, SnapshotAssumption DEF N!OneChain

\* Every write of an import, every crash, export and block keeps the invariant.
LEMMA SnapInvKept == SnapInv /\ N!Next => SnapInv'
<1> SUFFICES ASSUME SnapInv, N!Next PROVE SnapInv'
  OBVIOUS
<1> USE SyncConfig DEF N!Idle, N!LatestStep, N!WorldStep
<1>a. /\ latest \in 0..MaxBlock /\ file.height \in 0..MaxBlock /\ importing \in 0..N!Idle
      /\ fits \in BOOLEAN /\ mixed \in BOOLEAN /\ done \in BOOLEAN
  BY DEF SnapInv
<1>1. ASSUME NEW branch \in Branches, N!Grow(branch) PROVE SnapInv'
  <2>1. /\ importing = N!Idle /\ latest < MaxBlock /\ index[latest] \in {"trunk", branch}
        /\ index' = [index EXCEPT ![latest + 1] = N!Block(latest + 1, branch)]
        /\ latest' = latest + 1 /\ done' = FALSE
        /\ UNCHANGED <<file, importing, fits, mixed>>
    BY <1>1 DEF N!Grow
  <2>2. /\ N!Block(latest + 1, branch) \in Branches \cup {"trunk", N!None}
        /\ latest + 1 > ForkAt => N!Block(latest + 1, branch) # "trunk"
    BY <1>a, SnapshotAssumption DEF N!Block
  <2>3. /\ index' \in [0..MaxBlock -> Branches \cup {"trunk", N!None}]
        /\ \A n \in ForkAt + 1..MaxBlock : index'[n] # "trunk"
    BY <1>a, <2>1, <2>2 DEF SnapInv
  <2>4. RestoreSound'
    <3>1. CASE mixed
      BY <2>1, <3>1 DEF RestoreSound, N!RestoreSound
    <3>2. CASE ~mixed
      <4>1. N!OneChain(index, latest)
        BY <2>1, <3>2 DEF SnapInv, RestoreSound, N!RestoreSound
      <4>2. N!OneChain([index EXCEPT ![latest + 1] = N!Block(latest + 1, branch)], latest + 1)
        BY <2>1, <4>1, GrownChain
      <4>3. N!OneChain(index', latest')
        BY <2>1, <4>2
      <4> QED
        BY <2>1, <4>3 DEF RestoreSound, N!RestoreSound, N!OneChain
    <3> QED
      BY <3>1, <3>2
  <2>5. ~mixed' => N!OneChain(file'.blocks, file'.height)
    BY <2>1 DEF SnapInv
  <2>6. /\ importing' = N!Idle /\ importing' \in 0..N!Idle /\ importing' \notin 0..MaxBlock
        /\ ~(importing' <= N!LatestStep) /\ importing' # N!WorldStep /\ latest' \in 0..MaxBlock
    BY <1>a, <2>1
  <2> QED
    BY <1>a, <2>1, <2>3, <2>4, <2>5, <2>6 DEF SnapInv
<1>2. CASE N!ExportSnapshot
  <2>1. PICK complete \in BOOLEAN :
          file' = [complete |-> complete, blocks |-> [n \in 0..latest |-> index[n]],
                   height |-> latest, world |-> world]
    BY <1>2 DEF N!ExportSnapshot
  <2>2. importing = N!Idle /\ done' = FALSE /\ UNCHANGED <<index, latest, world, importing, fits, mixed>>
    BY <1>2 DEF N!ExportSnapshot
  <2>3. file'.height = latest /\ file'.blocks = [n \in 0..latest |-> index[n]]
    BY <2>1
  <2>4. /\ \A n \in 0..file'.height : file'.blocks[n] = index[n] /\ n \in 0..MaxBlock
        /\ \A n \in ForkAt + 1..file'.height : n \in ForkAt + 1..MaxBlock /\ n \in 0..file'.height
    BY <1>a, <2>3
  <2>5. ~mixed => N!OneChain(file'.blocks, file'.height)
    <3> SUFFICES ASSUME ~mixed PROVE N!OneChain(file'.blocks, file'.height)
      OBVIOUS
    <3>1. N!OneChain(index, latest)
      BY <2>2 DEF SnapInv, RestoreSound, N!RestoreSound
    <3>2. latest \in Nat /\ \A n \in 0..latest : index[n] = file'.blocks[n]
      BY <1>a, <2>3
    <3>3. N!OneChain(file'.blocks, latest)
      BY <3>1, <3>2, SameChain
    <3> QED
      BY <2>3, <3>3
  <2>6. RestoreSound'
    BY <2>2 DEF SnapInv, RestoreSound, N!RestoreSound, N!OneChain
  <2>7. /\ importing' = N!Idle /\ importing' \in 0..N!Idle /\ importing' \notin 0..MaxBlock
        /\ ~(importing' <= N!LatestStep) /\ importing' # N!WorldStep /\ file'.height \in 0..MaxBlock
    BY <1>a, <2>2, <2>3
  <2>8. /\ \A n \in 0..file'.height : file'.blocks[n] \in Branches \cup {"trunk", N!None}
        /\ \A n \in ForkAt + 1..file'.height : file'.blocks[n] # "trunk"
    BY <2>4 DEF SnapInv
  <2> QED
    BY <1>a, <2>2, <2>5, <2>6, <2>7, <2>8 DEF SnapInv
<1>3. CASE N!ImportSnapshot
  <2>1. /\ importing = N!Idle /\ importing' = 0 /\ done' = FALSE
        /\ fits' = \A n \in 0..file.height : n <= latest => index[n] = file.blocks[n]
        /\ UNCHANGED <<index, latest, world, file, mixed>>
    BY <1>3 DEF N!ImportSnapshot
  <2>2. RestoreSound'
    BY <1>a, <2>1 DEF SnapInv, RestoreSound, N!RestoreSound, N!OneChain
  <2>3. /\ importing' # N!Idle /\ importing' \in 0..N!Idle /\ importing' <= file'.height
        /\ fits' \in BOOLEAN /\ importing' # N!WorldStep
        /\ \A n \in 0..file.height : ~(n < importing')
    BY <1>a, <2>1
  <2>4. fits' => \A n \in 0..file'.height : n <= latest' => index'[n] = file'.blocks[n]
    BY <2>1
  <2> QED
    BY <1>a, <2>1, <2>2, <2>3, <2>4 DEF SnapInv, N!OneChain
<1>4. CASE N!PutBlock
  <2>1. /\ importing \in 0..MaxBlock
        /\ index' = [index EXCEPT ![importing] = file.blocks[importing]]
        /\ importing' = IF importing = file.height THEN N!LatestStep ELSE importing + 1
        /\ UNCHANGED <<latest, world, file, fits, mixed, done>>
    BY <1>4 DEF N!PutBlock
  <2>2. importing \in 0..file.height /\ importing # N!Idle /\ importing <= N!LatestStep
    BY <1>a, <2>1 DEF SnapInv
  <2>3. /\ importing' \in 0..N!LatestStep /\ importing' # N!WorldStep /\ importing' # N!Idle
        /\ importing' \in 0..MaxBlock => importing' <= file.height
        /\ \A n \in 0..file.height : n < importing' => n < importing \/ n = importing
    BY <1>a, <2>1, <2>2
  <2>4. /\ index' \in [0..MaxBlock -> Branches \cup {"trunk", N!None}]
        /\ \A n \in ForkAt + 1..MaxBlock : index'[n] # "trunk"
    <3>1. file.blocks[importing] \in Branches \cup {"trunk", N!None}
      BY <2>2 DEF SnapInv
    <3>2. importing > ForkAt => file.blocks[importing] # "trunk"
      BY <1>a, <2>2 DEF SnapInv
    <3> QED
      BY <2>1, <3>1, <3>2 DEF SnapInv
  <2>5. \A n \in 0..file.height : n < importing' => index'[n] = file.blocks[n]
    BY <1>a, <2>1, <2>2, <2>3 DEF SnapInv
  <2>6. fits => \A n \in 0..file.height : n <= latest => index'[n] = file.blocks[n]
    BY <1>a, <2>1, <2>2 DEF SnapInv
  <2>7. RestoreSound'
    <3>1. ~done
      BY <2>2 DEF SnapInv
    <3>2. ASSUME fits, ~mixed PROVE N!OneChain(index', latest)
      <4>1. N!OneChain(index, latest)
        BY <2>2, <3>2 DEF SnapInv, RestoreSound, N!RestoreSound
      <4>2. \A n \in 0..latest : index'[n] = index[n]
        BY <1>a, <2>1, <2>2, <3>2 DEF SnapInv
      <4>3. latest \in Nat
        BY <1>a
      <4> QED
        BY <4>1, <4>2, <4>3, SameChain
    <3> QED
      BY <2>1, <2>3, <3>1, <3>2 DEF RestoreSound, N!RestoreSound
  <2> QED
    BY <1>a, <2>1, <2>2, <2>3, <2>4, <2>5, <2>6, <2>7 DEF SnapInv, N!OneChain
<1>5. CASE N!PutLatest
  <2>1. /\ importing = N!LatestStep /\ importing' = N!WorldStep /\ latest' = file.height
        /\ UNCHANGED <<index, world, file, fits, mixed, done>>
    BY <1>5 DEF N!PutLatest
  <2>2. importing # N!Idle /\ \A n \in 0..file.height : n < importing /\ index[n] = file.blocks[n]
    BY <1>a, <2>1 DEF SnapInv
  <2>3. RestoreSound'
    <3>1. ~done
      BY <2>2 DEF SnapInv
    <3>2. ASSUME ~mixed PROVE N!OneChain(index, file.height)
      <4>1. N!OneChain(file.blocks, file.height) /\ file.height \in Nat
        BY <1>a, <3>2 DEF SnapInv
      <4>2. \A n \in 0..file.height : file.blocks[n] = index[n]
        BY <2>2
      <4> QED
        BY <4>1, <4>2, SameChain
    <3> QED
      BY <2>1, <3>1, <3>2 DEF RestoreSound, N!RestoreSound
  <2>4. /\ importing' # N!Idle /\ importing' \in 0..N!Idle /\ importing' \notin 0..MaxBlock
        /\ ~(importing' <= N!LatestStep) /\ \A n \in 0..file.height : n < importing'
    BY <1>a, <2>1
  <2> QED
    BY <1>a, <2>1, <2>2, <2>3, <2>4 DEF SnapInv, N!OneChain
<1>6. CASE N!PutGameState
  <2>1. /\ importing = N!WorldStep /\ importing' = N!Idle /\ world' = file.world /\ done' = TRUE
        /\ mixed' = ~N!OneChain(file.blocks, file.height)
        /\ UNCHANGED <<index, latest, file, fits>>
    BY <1>6 DEF N!PutGameState
  <2>2. /\ latest = file.height /\ importing # N!Idle
        /\ \A n \in 0..file.height : n < importing /\ index[n] = file.blocks[n]
    BY <1>a, <2>1 DEF SnapInv
  <2>3. RestoreSound'
    <3>1. ASSUME ~mixed' PROVE N!OneChain(index, latest)
      <4>1. N!OneChain(file.blocks, file.height) /\ file.height \in Nat
        <5>1. N!OneChain(file.blocks, file.height)
          BY <2>1, <3>1, Zenon
        <5> QED
          BY <1>a, <5>1
      <4>2. \A n \in 0..file.height : file.blocks[n] = index[n]
        BY <2>2
      <4>3. N!OneChain(index, file.height)
        BY <4>1, <4>2, SameChain
      <4> QED
        BY <2>2, <4>3
    <3> QED
      BY <2>1, <2>2, <3>1 DEF RestoreSound, N!RestoreSound
  <2>4. /\ importing' \in 0..N!Idle /\ importing' \notin 0..MaxBlock /\ mixed' \in BOOLEAN
        /\ ~(importing' <= N!LatestStep) /\ importing' # N!WorldStep
    BY <1>a, <2>1
  <2>5. ~mixed' => N!OneChain(file'.blocks, file'.height)
    BY <2>1
  <2> QED
    BY <1>a, <2>1, <2>2, <2>3, <2>4, <2>5 DEF SnapInv
<1>7. CASE N!Crash
  <2>1. /\ importing # N!Idle /\ importing' = N!Idle /\ mixed' = (mixed \/ ~fits)
        /\ UNCHANGED <<index, latest, world, file, fits, done>>
    BY <1>7 DEF N!Crash
  <2>2. ~done
    BY <2>1 DEF SnapInv
  <2>3. RestoreSound'
    BY <2>1, <2>2 DEF SnapInv, RestoreSound, N!RestoreSound, N!OneChain
  <2>4. /\ importing' \in 0..N!Idle /\ importing' \notin 0..MaxBlock /\ mixed' \in BOOLEAN
        /\ ~(importing' <= N!LatestStep) /\ importing' # N!WorldStep
    BY <1>a, <2>1
  <2>5. ~mixed' => N!OneChain(file'.blocks, file'.height)
    BY <2>1 DEF SnapInv
  <2> QED
    BY <1>a, <2>1, <2>3, <2>4, <2>5 DEF SnapInv
<1> QED
  BY <1>1, <1>2, <1>3, <1>4, <1>5, <1>6, <1>7 DEF N!Next

\* import_snapshot restores exactly the chain and the world of the file, whatever
\* was stored before and however often it was cut off; and an import that
\* continues the stored chain leaves a whole chain when it is cut off between any
\* two writes: for all branches, heights and fork points.
THEOREM RestoresAreSound == MCSpec => []RestoreSound
<1>1. MCInit => SnapInv
  <2> SUFFICES ASSUME MCInit PROVE SnapInv
    OBVIOUS
  <2> USE SyncConfig DEF N!Idle, N!LatestStep, N!WorldStep
  <2>1. PICK branch \in Branches, other \in Branches, height \in 0..MaxBlock, at \in 0..MaxBlock :
          /\ index = [n \in 0..MaxBlock |-> IF n <= height THEN N!Block(n, branch) ELSE N!None]
          /\ latest = height
          /\ file = [complete |-> TRUE, blocks |-> [n \in 0..at |-> N!Block(n, other)],
                     height |-> at, world |-> <<at, N!Block(at, other)>>]
          /\ importing = N!Idle /\ fits = FALSE /\ mixed = FALSE /\ done = FALSE
    BY DEF MCInit, N!Init
  <2>2. file.height = at /\ \A n \in 0..at : file.blocks[n] = N!Block(n, other)
    BY <2>1
  <2>3. \A n \in 0..height : index[n] = N!Block(n, branch)
    BY <2>1
  <2>4. /\ N!OneChain(index, latest) /\ N!OneChain(file.blocks, file.height)
        /\ \A n \in ForkAt + 1..height : index[n] # "trunk"
        /\ \A n \in ForkAt + 1..file.height : file.blocks[n] # "trunk"
    BY <2>1, <2>2, <2>3, BranchChain
  <2>5. \A n \in ForkAt + 1..MaxBlock : index[n] # "trunk"
    BY <2>1, <2>4 DEF N!None
  <2>6. \A n, b : b \in Branches => N!Block(n, b) \in Branches \cup {"trunk", N!None}
    BY DEF N!Block
  <2>7. index \in [0..MaxBlock -> Branches \cup {"trunk", N!None}]
    BY <2>1, <2>6
  <2>8. \A n \in 0..file.height : file.blocks[n] \in Branches \cup {"trunk", N!None}
    BY <2>2, <2>6
  <2>9. RestoreSound
    BY <2>1, <2>4 DEF RestoreSound, N!RestoreSound
  <2>10. /\ importing \in 0..N!Idle /\ importing \notin 0..MaxBlock
         /\ ~(importing <= N!LatestStep) /\ importing # N!WorldStep
    BY <2>1
  <2>11. file.height \in 0..MaxBlock /\ latest \in 0..MaxBlock
    BY <2>1, <2>2
  <2> QED
    BY <2>1, <2>4, <2>5, <2>7, <2>8, <2>9, <2>10, <2>11 DEF SnapInv
<1>2. SnapInv /\ [MCNext]_allvars => SnapInv'
  <2> SUFFICES ASSUME SnapInv, [MCNext]_allvars PROVE SnapInv'
    OBVIOUS
  <2>1. CASE MoveSnapshots
    BY <2>1, SnapInvKept DEF MoveSnapshots
  <2>2. CASE UNCHANGED snapshotVars
    BY <2>2 DEF snapshotVars, SnapInv, RestoreSound, N!RestoreSound, N!OneChain
  <2> QED
    BY <2>1, <2>2 DEF MCNext, Synchronise, ManagePeers, Prune, Broadcast, ShutDown, allvars
<1>3. SnapInv => RestoreSound
  BY DEF SnapInv
<1> QED
  BY <1>1, <1>2, <1>3, PTL DEF MCSpec

-----------------------------------------------------------------------------
(* Subscriptions                                                           *)

TaskRecord ==
  [state : {"idle", "open", "closed"}, topic : Topics \cup {"none"}, from : Nat, next : Nat,
   lost : SUBSET Nat]

\* What a subscription k has passed of the events ev and did not lag over.
Passed(ev, k) ==
  {n \in k.from..k.next - 1 : n \notin k.lost /\ U!Wanted(k.topic, ev[n])}

\* The client of subscription k has s, of the events ev.
Served(ev, k, s) ==
  /\ k.from \in 1..k.next /\ k.next \in 1..Len(ev) + 1 /\ k.lost \subseteq 1..k.next - 1
  /\ {s[i] : i \in 1..Len(s)} = Passed(ev, k)
  /\ \A i, j \in 1..Len(s) : i < j => s[i] < s[j]
  /\ \A n \in k.lost : n + capacity <= Len(ev)

StreamInv ==
  /\ events \in Seq(Kind) /\ task \in [Task -> TaskRecord] /\ sink \in [Task -> Seq(Nat)]
  /\ \A t \in Task : IF task[t].state = "idle" THEN sink[t] = <<>>
                                               ELSE Served(events, task[t], sink[t])

\* A new event changes nothing for a subscription that has not reached it.
LEMMA ServedAfterSend ==
  ASSUME NEW ev \in Seq(Kind), NEW kind \in Kind, NEW k \in TaskRecord, NEW s \in Seq(Nat),
         Served(ev, k, s)
  PROVE  Served(Append(ev, kind), k, s)
<1>1. PICK new : new = Append(ev, kind)
  OBVIOUS
<1>2. Len(new) = Len(ev) + 1 /\ Len(ev) \in Nat /\ \A n \in 1..Len(ev) : new[n] = ev[n]
  BY <1>1
<1>3. k.from \in 1..k.next /\ k.next \in 1..Len(ev) + 1
  BY DEF Served
<1>4. \A n \in k.from..k.next - 1 : n \in 1..Len(ev)
  BY <1>2, <1>3
<1>5. Passed(new, k) = Passed(ev, k)
  BY <1>2, <1>4 DEF Passed
<1>6. k.next \in 1..Len(new) + 1
  BY <1>2, <1>3
<1>7. \A n \in k.lost : n \in Nat
  BY DEF TaskRecord
<1>8. \A n \in k.lost : n + capacity <= Len(new)
  BY <1>2, <1>7, StreamAssumption DEF Served
<1> QED
  BY <1>1, <1>5, <1>6, <1>8 DEF Served

\* A subscription that starts has passed nothing.
LEMMA ServedAtFirst ==
  ASSUME NEW ev \in Seq(Kind), NEW topic
  PROVE  Served(ev, [state |-> "open", topic |-> topic, from |-> Len(ev) + 1,
                     next |-> Len(ev) + 1, lost |-> {}], <<>>)
<1>1. PICK k : k = [state |-> "open", topic |-> topic, from |-> Len(ev) + 1,
                    next |-> Len(ev) + 1, lost |-> {}]
  OBVIOUS
<1>2. k.from = Len(ev) + 1 /\ k.next = Len(ev) + 1 /\ k.lost = {}
  BY <1>1
<1>3. Passed(ev, k) = {}
  BY <1>2 DEF Passed
<1>4. PICK s : s = <<>>
  OBVIOUS
<1>5. s = <<>> /\ Len(s) = 0 /\ 1..Len(s) = {}
  BY <1>4
<1>6. {s[i] : i \in 1..Len(s)} = {}
  BY <1>5
<1>7. k.from \in 1..k.next /\ k.next \in 1..Len(ev) + 1
  BY <1>2
<1>8. Served(ev, k, s)
  BY <1>2, <1>3, <1>5, <1>6, <1>7 DEF Served
<1> QED
  BY <1>1, <1>4, <1>8

\* An event that is read: forwarded when it is wanted, passed over when not.
LEMMA ServedAfterRecv ==
  ASSUME NEW ev \in Seq(Kind), NEW k \in TaskRecord, NEW s \in Seq(Nat),
         Served(ev, k, s), k.next <= Len(ev), NEW new, new = [k EXCEPT !.next = k.next + 1]
  PROVE  IF U!Wanted(k.topic, ev[k.next]) THEN Served(ev, new, Append(s, k.next))
                                          ELSE Served(ev, new, s)
<1>1. /\ k.from \in 1..k.next /\ k.next \in 1..Len(ev) + 1 /\ k.lost \subseteq 1..k.next - 1
      /\ Len(ev) \in Nat /\ Len(s) \in Nat
  BY DEF Served
<1>2. /\ new.from = k.from /\ new.next = k.next + 1 /\ new.lost = k.lost /\ new.topic = k.topic
  BY DEF TaskRecord
<1>3. k.next \notin k.lost
  BY <1>1
<1>4. k.from..new.next - 1 = (k.from..k.next - 1) \cup {k.next}
  BY <1>1, <1>2
<1>5. Passed(ev, new) = Passed(ev, k) \cup (IF U!Wanted(k.topic, ev[k.next]) THEN {k.next} ELSE {})
  BY <1>2, <1>3, <1>4 DEF Passed
<1>6. /\ new.from \in 1..new.next /\ new.next \in 1..Len(ev) + 1 /\ new.lost \subseteq 1..new.next - 1
      /\ \A n \in new.lost : n + capacity <= Len(ev)
  BY <1>1, <1>2 DEF Served
<1>7. CASE U!Wanted(k.topic, ev[k.next])
  <2>1. PICK r : r = Append(s, k.next)
    OBVIOUS
  <2>2. /\ Len(r) = Len(s) + 1 /\ r[Len(s) + 1] = k.next /\ \A i \in 1..Len(s) : r[i] = s[i]
    BY <1>1, <2>1
  <2>3. 1..Len(r) = (1..Len(s)) \cup {Len(s) + 1}
    BY <1>1, <2>2
  <2>4. {r[i] : i \in 1..Len(r)} = {s[i] : i \in 1..Len(s)} \cup {k.next}
    BY <2>2, <2>3
  <2>5. {r[i] : i \in 1..Len(r)} = Passed(ev, new)
    BY <1>5, <1>7, <2>4 DEF Served
  <2>6. \A i \in 1..Len(s) : s[i] < k.next
    <3>1. \A i \in 1..Len(s) : s[i] \in Passed(ev, k)
      BY DEF Served
    <3>2. \A n \in Passed(ev, k) : n < k.next
      BY <1>1 DEF Passed
    <3> QED
      BY <3>1, <3>2
  <2>7. \A i, j \in 1..Len(r) : i < j => r[i] < r[j]
    <3> SUFFICES ASSUME NEW i \in 1..Len(r), NEW j \in 1..Len(r), i < j PROVE r[i] < r[j]
      OBVIOUS
    <3>1. i \in 1..Len(s) /\ (j \in 1..Len(s) \/ j = Len(s) + 1)
      BY <1>1, <2>2
    <3>2. CASE j \in 1..Len(s)
      BY <2>2, <3>1, <3>2 DEF Served
    <3>3. CASE j = Len(s) + 1
      BY <2>2, <2>6, <3>1, <3>3
    <3> QED
      BY <3>1, <3>2, <3>3
  <2> QED
    BY <1>6, <1>7, <2>1, <2>5, <2>7 DEF Served
<1>8. CASE ~U!Wanted(k.topic, ev[k.next])
  <2>1. Passed(ev, new) = Passed(ev, k)
    BY <1>5, <1>8
  <2> QED
    BY <1>6, <1>8, <2>1 DEF Served
<1> QED
  BY <1>7, <1>8

\* A lagging subscription loses only what the channel has overwritten.
LEMMA ServedAfterLag ==
  ASSUME NEW ev \in Seq(Kind), NEW k \in TaskRecord, NEW s \in Seq(Nat), Served(ev, k, s),
         Len(ev) > capacity, NEW oldest, oldest = Len(ev) - capacity + 1, k.next < oldest,
         NEW new, new = [k EXCEPT !.next = oldest, !.lost = k.lost \cup k.next..oldest - 1]
  PROVE  Served(ev, new, s) /\ new \in TaskRecord
<1> USE StreamAssumption
<1>1. /\ k.from \in 1..k.next /\ k.next \in 1..Len(ev) + 1 /\ k.lost \subseteq 1..k.next - 1
      /\ Len(ev) \in Nat /\ oldest \in Nat
  BY DEF Served
<1>2. /\ new.from = k.from /\ new.next = oldest /\ new.topic = k.topic
      /\ new.lost = k.lost \cup k.next..oldest - 1
  BY DEF TaskRecord
<1>3. k.next..oldest - 1 \subseteq Nat
  BY <1>1
<1>4. new \in TaskRecord
  BY <1>1, <1>3 DEF TaskRecord
<1>5. Passed(ev, new) = Passed(ev, k)
  <2>1. k.from..oldest - 1 = (k.from..k.next - 1) \cup (k.next..oldest - 1)
    <3>1. \A f, x, o \in Nat : f <= x /\ x < o => f..o - 1 = (f..x - 1) \cup (x..o - 1)
      OBVIOUS
    <3>2. k.from \in Nat /\ k.next \in Nat /\ k.from <= k.next
      BY <1>1
    <3> QED
      BY <1>1, <3>1, <3>2
  <2>2. \A n \in k.from..k.next - 1 : n \notin k.next..oldest - 1
    BY <1>1
  <2> QED
    BY <1>2, <2>1, <2>2 DEF Passed
<1>6. \A n \in new.lost : n + capacity <= Len(ev)
  <2>1. \A n \in k.next..oldest - 1 : n + capacity <= Len(ev)
    BY <1>1
  <2> QED
    BY <1>2, <2>1 DEF Served
<1>7. new.from \in 1..new.next /\ new.next \in 1..Len(ev) + 1
  BY <1>1, <1>2
<1>8. new.lost \subseteq 1..new.next - 1
  <2>1. \A x, o \in Nat : 1 <= x /\ x < o => 1..x - 1 \subseteq 1..o - 1 /\ x..o - 1 \subseteq 1..o - 1
    OBVIOUS
  <2>2. k.next \in Nat /\ 1 <= k.next /\ k.next < oldest
    BY <1>1
  <2>3. 1..k.next - 1 \subseteq 1..oldest - 1 /\ k.next..oldest - 1 \subseteq 1..oldest - 1
    BY <1>1, <2>1, <2>2
  <2> QED
    BY <1>1, <1>2, <2>3
<1> QED
  BY <1>4, <1>5, <1>6, <1>7, <1>8 DEF Served

\* Broadcasts, subscriptions, reads and lags keep the invariant.
LEMMA StreamInvKept == StreamInv /\ U!Next => StreamInv'
<1> SUFFICES ASSUME StreamInv, U!Next PROVE StreamInv'
  OBVIOUS
<1>a. /\ events \in Seq(Kind) /\ task \in [Task -> TaskRecord] /\ sink \in [Task -> Seq(Nat)]
      /\ \A t \in Task : IF task[t].state = "idle" THEN sink[t] = <<>>
                                                   ELSE Served(events, task[t], sink[t])
  BY DEF StreamInv
<1>1. ASSUME NEW kind \in Kind, U!Send(kind) PROVE StreamInv'
  <2>1. events' = Append(events, kind) /\ task' = task /\ sink' = sink
    BY <1>1 DEF U!Send
  <2>2. events' \in Seq(Kind)
    BY <1>a, <2>1
  <2>3. ASSUME NEW t \in Task, task[t].state # "idle" PROVE Served(events', task[t], sink[t])
    <3>1. task[t] \in TaskRecord /\ sink[t] \in Seq(Nat) /\ Served(events, task[t], sink[t])
      BY <1>a, <2>3
    <3> QED
      BY <1>a, <2>1, <3>1, ServedAfterSend
  <2> QED
    BY <1>a, <2>1, <2>2, <2>3 DEF StreamInv
<1>2. ASSUME NEW t \in Task, NEW k \in TaskRecord, NEW s \in Seq(Nat),
             k.state # "idle", Served(events, k, s), events' = events,
             task' = [task EXCEPT ![t] = k], sink' = [sink EXCEPT ![t] = s]
      PROVE  StreamInv'
  BY <1>a, <1>2 DEF StreamInv
<1>3. ASSUME NEW t \in Task, NEW topic \in Topics, U!Subscribe(t, topic) PROVE StreamInv'
  <2>1. PICK k : k = [state |-> "open", topic |-> topic, from |-> Len(events) + 1,
                      next |-> Len(events) + 1, lost |-> {}]
    OBVIOUS
  <2>2. /\ task[t].state = "idle" /\ task' = [task EXCEPT ![t] = k]
        /\ events' = events /\ sink' = sink
    BY <1>3, <2>1 DEF U!Subscribe
  <2>3. sink[t] = <<>> /\ <<>> \in Seq(Nat) /\ sink' = [sink EXCEPT ![t] = <<>>]
    BY <1>a, <2>2
  <2>4. k \in TaskRecord /\ k.state # "idle"
    <3>1. Len(events) + 1 \in Nat
      BY <1>a
    <3> QED
      BY <2>1, <3>1 DEF TaskRecord
  <2>5. Served(events, k, <<>>)
    BY <1>a, <2>1, ServedAtFirst
  <2> QED
    BY <1>2, <2>2, <2>3, <2>4, <2>5
<1>4. ASSUME NEW t \in Task, U!Recv(t) PROVE StreamInv'
  <2>1. PICK k, s : k = task[t] /\ s = sink[t]
    OBVIOUS
  <2>2. /\ k.state = "open" /\ k.next \in U!Oldest..Len(events) /\ events' = events
        /\ \/ /\ U!Wanted(k.topic, events[k.next])
              /\ sink' = [sink EXCEPT ![t] = Append(s, k.next)]
              /\ task' = [task EXCEPT ![t] = [k EXCEPT !.next = k.next + 1]]
           \/ /\ U!Wanted(k.topic, events[k.next])
              /\ sink' = sink
              /\ task' = [task EXCEPT ![t] = [k EXCEPT !.state = "closed"]]
           \/ /\ ~U!Wanted(k.topic, events[k.next])
              /\ sink' = sink
              /\ task' = [task EXCEPT ![t] = [k EXCEPT !.next = k.next + 1]]
    BY <1>a, <1>4, <2>1 DEF U!Recv
  <2>3. k \in TaskRecord /\ s \in Seq(Nat) /\ Served(events, k, s)
    BY <1>a, <2>1, <2>2
  <2>4. k.next \in Nat /\ k.next <= Len(events)
    BY <2>2, <2>3 DEF TaskRecord
  <2>5. PICK new : new = [k EXCEPT !.next = k.next + 1]
    OBVIOUS
  <2>6. new \in TaskRecord /\ new.state = "open"
    <3>1. k.next + 1 \in Nat
      BY <2>4
    <3> QED
      BY <2>2, <2>3, <2>5, <3>1 DEF TaskRecord
  <2>7. sink = [sink EXCEPT ![t] = s]
    BY <1>a, <2>1
  <2>8. IF U!Wanted(k.topic, events[k.next]) THEN Served(events, new, Append(s, k.next))
                                             ELSE Served(events, new, s)
    BY <1>a, <2>3, <2>4, <2>5, ServedAfterRecv
  <2>9. CASE /\ U!Wanted(k.topic, events[k.next])
             /\ sink' = [sink EXCEPT ![t] = Append(s, k.next)]
             /\ task' = [task EXCEPT ![t] = [k EXCEPT !.next = k.next + 1]]
    <3>1. Append(s, k.next) \in Seq(Nat)
      BY <2>3, <2>4
    <3>2. Served(events, new, Append(s, k.next))
      BY <2>8, <2>9
    <3>3. task' = [task EXCEPT ![t] = new]
      BY <2>5, <2>9
    <3> QED
      BY <1>2, <2>2, <2>6, <2>9, <3>1, <3>2, <3>3
  <2>10. CASE sink' = sink /\ task' = [task EXCEPT ![t] = [k EXCEPT !.state = "closed"]]
    <3>1. PICK closed : closed = [k EXCEPT !.state = "closed"]
      OBVIOUS
    <3>2. /\ closed \in TaskRecord /\ closed.state = "closed" /\ closed.from = k.from
          /\ closed.next = k.next /\ closed.lost = k.lost /\ closed.topic = k.topic
      BY <2>3, <3>1 DEF TaskRecord
    <3>3. Served(events, closed, s)
      BY <2>3, <3>2 DEF Served, Passed
    <3>4. task' = [task EXCEPT ![t] = closed] /\ sink' = [sink EXCEPT ![t] = s]
      BY <2>7, <2>10, <3>1
    <3> QED
      BY <1>2, <2>2, <2>3, <3>2, <3>3, <3>4
  <2>11. CASE /\ ~U!Wanted(k.topic, events[k.next])
              /\ sink' = sink
              /\ task' = [task EXCEPT ![t] = [k EXCEPT !.next = k.next + 1]]
    <3>1. Served(events, new, s)
      BY <2>8, <2>11
    <3>2. task' = [task EXCEPT ![t] = new] /\ sink' = [sink EXCEPT ![t] = s]
      BY <2>5, <2>7, <2>11
    <3> QED
      BY <1>2, <2>2, <2>3, <2>6, <3>1, <3>2
  <2> QED
    BY <2>2, <2>9, <2>10, <2>11
<1>5. ASSUME NEW t \in Task, U!Lagged(t) PROVE StreamInv'
  <2>1. PICK k, s, oldest : k = task[t] /\ s = sink[t] /\ oldest = U!Oldest
    OBVIOUS
  <2>2. PICK new : new = [k EXCEPT !.next = oldest, !.lost = k.lost \cup k.next..oldest - 1]
    OBVIOUS
  <2>3. /\ k.state = "open" /\ k.next < oldest /\ events' = events /\ sink' = sink
        /\ task' = [task EXCEPT ![t] = new]
    BY <1>a, <1>5, <2>1, <2>2 DEF U!Lagged
  <2>4. k \in TaskRecord /\ s \in Seq(Nat) /\ Served(events, k, s)
    BY <1>a, <2>1, <2>3
  <2>5. Len(events) > capacity /\ oldest = Len(events) - capacity + 1
    <3>1. k.next >= 1 /\ k.next \in Nat
      BY <2>4 DEF Served, TaskRecord
    <3> QED
      BY <2>1, <2>3, <3>1 DEF U!Oldest
  <2>6. Served(events, new, s) /\ new \in TaskRecord
    BY <1>a, <2>2, <2>3, <2>4, <2>5, ServedAfterLag
  <2>7. new.state = "open"
    BY <2>2, <2>3, <2>4 DEF TaskRecord
  <2>8. sink' = [sink EXCEPT ![t] = s]
    BY <1>a, <2>1, <2>3
  <2> QED
    BY <1>2, <2>3, <2>4, <2>6, <2>7, <2>8
<1> QED
  BY <1>1, <1>3, <1>4, <1>5 DEF U!Next

\* What a client has received is exactly what its subscription task passed of its
\* kind and did not lag over, each event once and in order, and only events the
\* channel has overwritten are lagged over: for any number of clients, of events
\* and any capacity of the channel.
THEOREM StreamsAreFaithful == MCSpec => []StreamsFaithful
<1>1. MCInit => StreamInv
  <2> SUFFICES ASSUME MCInit PROVE StreamInv
    OBVIOUS
  <2>1. events = <<>> /\ task = [t \in Task |-> U!Idle] /\ sink = [t \in Task |-> <<>>]
    BY DEF MCInit, U!Init
  <2>2. U!Idle \in TaskRecord /\ U!Idle.state = "idle"
    BY DEF U!Idle, TaskRecord
  <2>3. \A S : <<>> \in Seq(S)
    OBVIOUS
  <2>4. events \in Seq(Kind) /\ sink \in [Task -> Seq(Nat)] /\ task \in [Task -> TaskRecord]
    BY <2>1, <2>2, <2>3
  <2> QED
    BY <2>1, <2>2, <2>4 DEF StreamInv
<1>2. StreamInv /\ [MCNext]_allvars => StreamInv'
  <2> SUFFICES ASSUME StreamInv, [MCNext]_allvars PROVE StreamInv'
    OBVIOUS
  <2>1. CASE Broadcast
    BY <2>1, StreamInvKept DEF Broadcast
  <2>2. CASE UNCHANGED streamVars
    BY <2>2 DEF streamVars, StreamInv
  <2> QED
    BY <2>1, <2>2 DEF MCNext, Synchronise, ManagePeers, Prune, MoveSnapshots, ShutDown, allvars
<1>3. StreamInv => StreamsFaithful
  <2> SUFFICES ASSUME StreamInv, NEW t \in Task, task[t].state # "idle"
               PROVE  /\ U!ToSet(sink[t]) = Passed(events, task[t])
                      /\ \A i, j \in DOMAIN sink[t] : i < j => sink[t][i] < sink[t][j]
                      /\ \A n \in task[t].lost : n + capacity <= Len(events)
    BY DEF StreamsFaithful, U!StreamsFaithful, Passed
  <2>1. sink[t] \in Seq(Nat) /\ Served(events, task[t], sink[t])
    BY DEF StreamInv
  <2>2. DOMAIN sink[t] = 1..Len(sink[t])
    BY <2>1
  <2>3. U!ToSet(sink[t]) = {sink[t][i] : i \in 1..Len(sink[t])}
    BY <2>2 DEF U!ToSet
  <2> QED
    BY <2>1, <2>2, <2>3 DEF Served
<1> QED
  BY <1>1, <1>2, <1>3, PTL DEF MCSpec

-----------------------------------------------------------------------------
(* Pruning                                                                 *)

\* The queue holds consecutive blocks, the last one enqueued at its end, and all
\* that was enqueued before its first has been handed out.
PruneInv ==
  /\ chain_head \in Nat /\ highest \in Nat /\ lowest_block \in Nat /\ next_queued \in Nat
  /\ pending_queue \in Seq(Nat)
  /\ \A i \in 1..Len(pending_queue) : pending_queue[i] = next_queued - 1 - Len(pending_queue) + i
  /\ \A b \in First..next_queued - Len(pending_queue) - 1 : b \in targeted
  /\ targeted \subseteq Nat
  /\ R!PrunedPrefix

\* What a run of the loop leaves: every block below the new lowest_block, and every
\* block that has left the queue, is handed out; only blocks below the cutoff are.
LEMMA TargetsFacts ==
  ASSUME PruneInv, NEW cutoff \in Nat, NEW w, w = R!Targets(cutoff)
  PROVE  /\ w.lowest \in Nat /\ w.queue \in Seq(Nat)
         /\ \A i \in 1..Len(w.queue) : w.queue[i] = next_queued - 1 - Len(w.queue) + i
         /\ \A b \in First..next_queued - Len(w.queue) - 1 : b \in targeted \cup w.targets
         /\ \A b \in First..w.lowest - 1 : b \in targeted \cup w.targets
         /\ \A b \in w.targets : b \in Nat /\ b < cutoff
<1> USE PruneAssumption
<1>1. PICK q : q = pending_queue
  OBVIOUS
<1>2. /\ q \in Seq(Nat) /\ Len(q) \in Nat /\ next_queued \in Nat /\ lowest_block \in Nat
      /\ \A i \in 1..Len(q) : q[i] = next_queued - 1 - Len(q) + i /\ q[i] \in Nat
      /\ \A b \in First..next_queued - Len(q) - 1 : b \in targeted
      /\ \A b \in First..lowest_block - 1 : b \in targeted
  BY <1>1 DEF PruneInv, R!PrunedPrefix
<1>3. PICK taken, low, made : /\ taken = R!Taken(cutoff) /\ low = R!LowestAfter(taken)
                             /\ made = R!MadeUp(cutoff)
  OBVIOUS
<1>4. taken \in R!Ready(cutoff)
  <2>1. 0 \in R!Ready(cutoff) /\ R!Ready(cutoff) \in SUBSET (0..Len(q))
    BY <1>1, <1>2 DEF R!Ready
  <2>2. \E m \in R!Ready(cutoff) : \A n \in R!Ready(cutoff) : n <= m
    BY <1>2, <2>1, GreatestElement
  <2> QED
    BY <1>3, <2>2 DEF R!Taken
<1>5. taken \in 0..Len(q) /\ taken \in Nat /\ taken <= batch_size /\ \A j \in 1..taken : q[j] < cutoff
  BY <1>1, <1>2, <1>4 DEF R!Ready
<1>6. low = IF taken = 0 THEN lowest_block ELSE q[taken] + 1
  BY <1>1, <1>3 DEF R!LowestAfter
<1>7. low \in Nat
  BY <1>2, <1>5, <1>6
<1>8. PICK left : left = IF low < cutoff THEN cutoff - low ELSE 0
  OBVIOUS
<1>9. made = IF taken < Len(q) THEN 0
             ELSE IF left < batch_size - taken THEN left ELSE batch_size - taken
  BY <1>1, <1>3, <1>8 DEF R!MadeUp
<1>10. PICK T, L, Q : /\ T = {q[j] : j \in 1..taken} \cup low..low + made - 1
                      /\ L = low + made /\ Q = SubSeq(q, taken + 1, Len(q))
  OBVIOUS
<1>11. w = [targets |-> T, lowest |-> L, queue |-> Q]
  BY <1>1, <1>3, <1>10 DEF R!Targets
<1>12. w.targets = T /\ w.lowest = L /\ w.queue = Q
  BY <1>11
<1>13. /\ w.targets = {q[j] : j \in 1..taken} \cup low..low + made - 1
       /\ w.lowest = low + made /\ w.queue = SubSeq(q, taken + 1, Len(q))
  BY <1>10, <1>12
<1>14. left \in Nat /\ (left > 0 => low + left = cutoff)
  BY <1>7, <1>8
<1>15. made \in Nat /\ made <= left /\ (made > 0 => taken = Len(q))
  BY <1>2, <1>5, <1>9, <1>14
<1>16. /\ w.queue \in Seq(Nat) /\ Len(w.queue) = Len(q) - taken
       /\ \A i \in 1..Len(w.queue) : w.queue[i] = q[taken + i]
  <2>1. PICK from : from = taken + 1 /\ from \in Int /\ from >= 1 /\ from <= Len(q) + 1
    BY <1>2, <1>5
  <2>2. PICK n : n = Len(q) - taken /\ n \in Nat
    BY <1>2, <1>5
  <2>3. SubSeq(q, from, Len(q)) = [i \in 1..n |-> q[taken + i]]
    BY <1>2, <1>5, <2>1, <2>2
  <2>4. \A i \in 1..n : q[taken + i] \in Nat
    <3>1. \A i \in 1..n : taken + i \in 1..Len(q)
      BY <1>2, <1>5, <2>2
    <3> QED
      BY <1>2, <3>1
  <2>5. w.queue = [i \in 1..n |-> q[taken + i]]
    BY <1>13, <2>1, <2>3
  <2>6. w.queue \in Seq(Nat) /\ Len(w.queue) = n
    BY <2>2, <2>4, <2>5
  <2> QED
    BY <2>2, <2>5, <2>6
<1>17. \A i \in 1..Len(w.queue) : w.queue[i] = next_queued - 1 - Len(w.queue) + i
  <2>1. \A i \in 1..Len(w.queue) : taken + i \in 1..Len(q)
    BY <1>2, <1>5, <1>16
  <2>2. \A i \in 1..Len(w.queue) : w.queue[i] = next_queued - 1 - Len(q) + (taken + i)
    BY <1>2, <1>16, <2>1
  <2>a. Len(q) \in Nat /\ taken \in Nat /\ taken <= Len(q) /\ Len(w.queue) = Len(q) - taken
    BY <1>2, <1>5, <1>16
  <2>b. PICK n, l : n = Len(w.queue) /\ l = Len(q)
    OBVIOUS
  <2>3. n = Len(w.queue) /\ l = Len(q) /\ n \in Nat /\ l \in Nat /\ n = l - taken
    BY <2>a, <2>b
  <2> SUFFICES ASSUME NEW i \in 1..n PROVE w.queue[i] = next_queued - 1 - n + i
    BY <2>3
  <2>4. w.queue[i] = next_queued - 1 - l + (taken + i)
    BY <2>2, <2>3
  <2>5. i \in Int /\ next_queued \in Int /\ taken \in Int
    BY <1>2, <1>5, <2>3
  <2>6. next_queued - 1 - l + (taken + i) = next_queued - 1 - n + i
    BY <2>3, <2>5
  <2> QED
    BY <2>4, <2>6
<1>18. ASSUME NEW b \in First..next_queued - Len(w.queue) - 1 PROVE b \in targeted \cup w.targets
  <2>1. CASE b <= next_queued - Len(q) - 1
    BY <1>2, <2>1
  <2>2. CASE b > next_queued - Len(q) - 1
    <3>1. PICK j : j = b - (next_queued - 1 - Len(q))
      OBVIOUS
    <3>2. j \in 1..taken
      BY <1>2, <1>5, <1>16, <2>2, <3>1
    <3>3. q[j] = b
      BY <1>2, <1>5, <3>1, <3>2
    <3> QED
      BY <1>13, <3>2, <3>3
  <2> QED
    BY <1>2, <2>1, <2>2
<1>19. ASSUME NEW b \in First..w.lowest - 1 PROVE b \in targeted \cup w.targets
  <2>1. CASE b >= low
    <3>1. b \in low..low + made - 1
      BY <1>13, <1>7, <1>14, <1>15, <2>1
    <3> QED
      BY <1>13, <3>1
  <2>2. CASE b < low /\ taken = 0
    BY <1>2, <1>6, <2>2
  <2>3. CASE b < low /\ taken # 0
    <3>1. low = next_queued - Len(q) + taken
      BY <1>2, <1>5, <1>6, <2>3
    <3>2. b \in First..next_queued - Len(w.queue) - 1
      BY <1>2, <1>5, <1>16, <2>3, <3>1
    <3> QED
      BY <1>18, <3>2
  <2> QED
    BY <1>7, <2>1, <2>2, <2>3
<1>20. ASSUME NEW b \in w.targets PROVE b \in Nat /\ b < cutoff
  <2>1. CASE b \in {q[j] : j \in 1..taken}
    BY <1>2, <1>5, <2>1
  <2>2. CASE b \in low..low + made - 1
    BY <1>7, <1>14, <1>15, <2>2
  <2> QED
    BY <1>13, <2>1, <2>2
<1>21. w.lowest \in Nat
  BY <1>13, <1>7, <1>14, <1>15
<1> QED
  BY <1>16, <1>17, <1>18, <1>19, <1>20, <1>21

\* A new head and a queued block keep the invariant.
LEMMA PruneInvKept == PruneInv /\ R!Next => PruneInv'
<1> SUFFICES ASSUME PruneInv, R!Next PROVE PruneInv'
  OBVIOUS
<1> USE PruneAssumption
<1>1. ASSUME NEW head \in Nat, R!OnNewBlock(head) PROVE PruneInv'
  <2>1. chain_head' = head /\ next_queued' = next_queued /\ mode' = mode
        /\ highest' = IF head > highest THEN head ELSE highest
    BY <1>1 DEF R!OnNewBlock
  <2>2. highest' \in Nat /\ highest' >= highest /\ highest' >= head
    BY <2>1 DEF PruneInv
  <2>3. CASE UNCHANGED <<lowest_block, pending_queue, targeted>>
    <3>1. R!PrunedPrefix'
      BY <2>1, <2>2, <2>3 DEF PruneInv, R!PrunedPrefix
    <3> QED
      BY <2>1, <2>2, <2>3, <3>1 DEF PruneInv
  <2>4. CASE mode # "Archive" /\ ~UNCHANGED <<lowest_block, pending_queue, targeted>>
    <3>1. PICK cutoff : cutoff = IF head > keep THEN head - keep ELSE 0
      OBVIOUS
    <3>2. cutoff \in Nat /\ \A b \in Nat : b < cutoff => b + keep < head
      BY <3>1
    <3>3. PICK w : w = R!Targets(cutoff)
      OBVIOUS
    <3>4. lowest_block' = w.lowest /\ pending_queue' = w.queue /\ targeted' = targeted \cup w.targets
      BY <1>1, <2>4, <3>1, <3>3 DEF R!OnNewBlock, R!GeneratePruneTargets
    <3>5. /\ w.lowest \in Nat /\ w.queue \in Seq(Nat)
          /\ \A i \in 1..Len(w.queue) : w.queue[i] = next_queued - 1 - Len(w.queue) + i
          /\ \A b \in First..next_queued - Len(w.queue) - 1 : b \in targeted \cup w.targets
          /\ \A b \in First..w.lowest - 1 : b \in targeted \cup w.targets
          /\ \A b \in w.targets : b \in Nat /\ b < cutoff
      BY <3>2, <3>3, TargetsFacts
    <3>6. ASSUME NEW b \in targeted' PROVE b \in Nat /\ mode' # "Archive" /\ b + keep < highest'
      <4>1. CASE b \in w.targets
        <5>1. b \in Nat /\ b + keep < head
          BY <3>2, <3>5, <4>1
        <5>2. b + keep < highest'
          BY <2>2, <5>1
        <5> QED
          BY <2>1, <2>4, <5>1, <5>2
      <4>2. CASE b \in targeted
        <5>1. b \in Nat /\ mode # "Archive" /\ b + keep < highest /\ highest \in Nat
          BY <4>2 DEF PruneInv, R!PrunedPrefix
        <5> QED
          BY <2>1, <2>2, <5>1
      <4> QED
        BY <3>4, <4>1, <4>2
    <3>7. R!PrunedPrefix'
      BY <3>4, <3>5, <3>6 DEF R!PrunedPrefix
    <3> QED
      BY <2>1, <2>2, <3>4, <3>5, <3>6, <3>7 DEF PruneInv
  <2> QED
    BY <1>1, <2>3, <2>4 DEF R!OnNewBlock
<1>2. CASE R!EnqueueBlock
  <2>1. /\ pending_queue' = Append(pending_queue, next_queued) /\ next_queued' = next_queued + 1
        /\ UNCHANGED <<mode, chain_head, lowest_block, targeted, highest>>
    BY <1>2 DEF R!EnqueueBlock
  <2>2. PICK q, r, n : q = pending_queue /\ r = Append(pending_queue, next_queued) /\ n = next_queued
    OBVIOUS
  <2>3. q \in Seq(Nat) /\ n \in Nat /\ \A i \in 1..Len(q) : q[i] = n - 1 - Len(q) + i
    BY <2>2 DEF PruneInv
  <2>4. /\ r \in Seq(Nat) /\ Len(r) = Len(q) + 1 /\ Len(q) \in Nat /\ r[Len(q) + 1] = n
        /\ \A i \in 1..Len(q) : r[i] = q[i]
    BY <2>2, <2>3
  <2>5. \A i \in 1..Len(r) : r[i] = (n + 1) - 1 - Len(r) + i
    <3> SUFFICES ASSUME NEW i \in 1..Len(r) PROVE r[i] = (n + 1) - 1 - Len(r) + i
      OBVIOUS
    <3>1. i \in 1..Len(q) \/ i = Len(q) + 1
      BY <2>4
    <3> QED
      BY <2>3, <2>4, <3>1
  <2>6. \A b \in First..(n + 1) - Len(r) - 1 : b \in targeted
    <3>1. (n + 1) - Len(r) - 1 = n - Len(q) - 1
      BY <2>3, <2>4
    <3> QED
      BY <2>2, <3>1 DEF PruneInv
  <2>7. R!PrunedPrefix'
    BY <2>1 DEF PruneInv, R!PrunedPrefix
  <2>8. pending_queue' = r /\ next_queued' = n + 1
    BY <2>1, <2>2
  <2>9. n + 1 \in Nat
    BY <2>3
  <2> QED
    BY <2>1, <2>4, <2>5, <2>6, <2>7, <2>8, <2>9 DEF PruneInv
<1>3. ASSUME NEW head \in (chain_head + 1)..MaxHead, R!OnNewBlock(head) PROVE head \in Nat
  BY DEF PruneInv
<1>4. chain_head > First => chain_head - 1 \in Nat
  BY DEF PruneInv
<1> QED
  BY <1>1, <1>2, <1>3, <1>4 DEF R!Next

\* on_new_block prunes without holes, every block below lowest_block having been
\* handed out though queued and made-up targets mix, and never hands out a block
\* of the window it keeps: for every window, batch size and start of the database.
THEOREM PrunesAPrefix == MCSpec => []PrunedPrefix
<1>1. MCInit => PruneInv
  <2> SUFFICES ASSUME MCInit PROVE PruneInv
    OBVIOUS
  <2>1. /\ chain_head = First /\ lowest_block = First /\ highest = First
        /\ pending_queue = <<>> /\ next_queued = First /\ targeted = {}
    BY DEF MCInit, R!Init
  <2>2. <<>> \in Seq(Nat) /\ Len(<<>>) = 0
    OBVIOUS
  <2>3. R!PrunedPrefix
    BY <2>1, PruneAssumption DEF R!PrunedPrefix
  <2> QED
    BY <2>1, <2>2, <2>3, PruneAssumption DEF PruneInv
<1>2. PruneInv /\ [MCNext]_allvars => PruneInv'
  <2> SUFFICES ASSUME PruneInv, [MCNext]_allvars PROVE PruneInv'
    OBVIOUS
  <2>1. CASE Prune
    BY <2>1, PruneInvKept DEF Prune
  <2>2. CASE UNCHANGED pruneVars
    BY <2>2 DEF pruneVars, PruneInv, R!PrunedPrefix
  <2> QED
    BY <2>1, <2>2 DEF MCNext, Synchronise, ManagePeers, MoveSnapshots, Broadcast, ShutDown, allvars
<1>3. PruneInv => PrunedPrefix
  BY DEF PruneInv, PrunedPrefix
<1> QED
  BY <1>1, <1>2, <1>3, PTL DEF MCSpec

-----------------------------------------------------------------------------
(* Synchronisation: the order of the headers                               *)

\* The elements of S below n.
Below(S, n) == {m \in S : m < n}

\* What lies below zero, above the top and between two numbers.
LEMMA BelowFacts ==
  ASSUME NEW top \in Nat, NEW S \in SUBSET (0..top)
  PROVE  /\ Below(S, 0) = {} /\ Below(S, top + 1) = S
         /\ \A i \in Nat : /\ i \notin Below(S, i) /\ Below(S, i) \in SUBSET S
                           /\ i \in S => Below(S, i + 1) = Below(S, i) \cup {i}
                           /\ i \notin S => Below(S, i + 1) = Below(S, i)
         /\ \A a, b \in S : a < b => Below(S, a) \cup {a} \in SUBSET Below(S, b)
<1>1. \A m \in S : m \in Nat /\ m <= top
  OBVIOUS
<1>2. \A m, n : m \in Below(S, n) <=> m \in S /\ m < n
  BY DEF Below
<1>3. Below(S, 0) = {}
  <2>1. \A m \in S : ~(m < 0)
    BY <1>1
  <2>2. \A m : m \notin Below(S, 0)
    BY <1>2, <2>1
  <2> QED
    BY <2>2
<1>4. Below(S, top + 1) = S
  <2>1. \A m \in S : m < top + 1
    BY <1>1
  <2>2. \A m : m \in Below(S, top + 1) <=> m \in S
    BY <1>2, <2>1
  <2> QED
    BY <2>2
<1>5. ASSUME NEW i \in Nat
      PROVE  /\ i \notin Below(S, i) /\ Below(S, i) \in SUBSET S
             /\ i \in S => Below(S, i + 1) = Below(S, i) \cup {i}
             /\ i \notin S => Below(S, i + 1) = Below(S, i)
  <2>1. \A m \in S : m < i + 1 <=> m < i \/ m = i
    BY <1>1
  <2>2. \A m : m \in Below(S, i + 1) <=> m \in Below(S, i) \/ (m = i /\ m \in S)
    BY <1>2, <2>1
  <2>3. i \notin Below(S, i) /\ Below(S, i) \in SUBSET S
    BY <1>2
  <2>4. i \in S => Below(S, i + 1) = Below(S, i) \cup {i}
    BY <2>2
  <2>5. i \notin S => Below(S, i + 1) = Below(S, i)
    BY <2>2
  <2> QED
    BY <2>3, <2>4, <2>5
<1>6. ASSUME NEW a \in S, NEW b \in S, a < b PROVE Below(S, a) \cup {a} \in SUBSET Below(S, b)
  <2>1. \A m \in S : m < a => m < b
    BY <1>1, <1>6
  <2>2. \A m \in Below(S, a) : m \in Below(S, b)
    BY <1>2, <2>1
  <2>3. a \in Below(S, b)
    BY <1>2, <1>6
  <2> QED
    BY <2>2, <2>3
<1> QED
  BY <1>3, <1>4, <1>5, <1>6

\* The elements of a finite set of numbers can be counted off from the lowest.
LEMMA NthExists ==
  ASSUME NEW top \in Nat, NEW S \in SUBSET (0..top), NEW k \in 1..Cardinality(S)
  PROVE  \E n \in S : Cardinality(Below(S, n)) = k - 1
<1>1. IsFiniteSet(0..top)
  BY FS_Interval
<1>2. IsFiniteSet(S) /\ Cardinality(S) \in Nat
  BY <1>1, SubsetCard
<1>3. PICK count : count = [i \in Nat |-> Cardinality(Below(S, i))]
  OBVIOUS
<1>4. \A i \in Nat : IsFiniteSet(Below(S, i)) /\ Cardinality(Below(S, i)) \in Nat
  <2>1. \A i \in Nat : Below(S, i) \in SUBSET S
    BY BelowFacts
  <2> QED
    BY <1>2, <2>1, SubsetCard
<1>5. count \in [Nat -> Nat]
  BY <1>3, <1>4
<1>6. count[0] = 0
  <2>1. Below(S, 0) = {}
    BY BelowFacts
  <2> QED
    BY <1>3, <2>1, FS_EmptySet
<1>7. count[top + 1] = Cardinality(S)
  <2>1. Below(S, top + 1) = S
    BY BelowFacts
  <2> QED
    BY <1>3, <2>1
<1>8. ASSUME NEW i \in Nat PROVE count[i + 1] = count[i] + (IF i \in S THEN 1 ELSE 0)
  <2>1. IsFiniteSet(Below(S, i)) /\ i \notin Below(S, i) /\ i + 1 \in Nat
    BY <1>4, BelowFacts
  <2>2. CASE i \in S
    <3>1. Below(S, i + 1) = Below(S, i) \cup {i}
      BY <2>2, BelowFacts
    <3>2. Cardinality(Below(S, i) \cup {i}) = Cardinality(Below(S, i)) + 1
      BY <2>1, FS_AddElement
    <3> QED
      BY <1>3, <2>1, <2>2, <3>1, <3>2
  <2>3. CASE i \notin S
    <3>1. Below(S, i + 1) = Below(S, i)
      BY <2>3, BelowFacts
    <3> QED
      BY <1>3, <1>5, <2>1, <2>3, <3>1
  <2> QED
    BY <2>2, <2>3
<1>9. PICK i \in {j \in Nat : count[j] >= k} : \A j \in {j \in Nat : count[j] >= k} : i <= j
  <2>1. top + 1 \in {j \in Nat : count[j] >= k}
    BY <1>2, <1>7
  <2>2. {j \in Nat : count[j] >= k} \in SUBSET Nat
    OBVIOUS
  <2> QED
    BY <2>1, <2>2, LeastElement
<1>10. i \in Nat \ {0} /\ count[i] >= k
  BY <1>2, <1>6, <1>9
<1>11. i - 1 \in Nat /\ count[i - 1] < k
  BY <1>2, <1>5, <1>9, <1>10
<1>12. count[i] = count[i - 1] + (IF i - 1 \in S THEN 1 ELSE 0)
  BY <1>8, <1>10, <1>11
<1>13. i - 1 \in S /\ count[i - 1] = k - 1
  BY <1>2, <1>5, <1>10, <1>11, <1>12
<1> QED
  BY <1>3, <1>11, <1>13

\* No two elements have the same number of elements below them.
LEMMA NthUnique ==
  ASSUME NEW top \in Nat, NEW S \in SUBSET (0..top), NEW n \in S, NEW m \in S,
         Cardinality(Below(S, n)) = Cardinality(Below(S, m))
  PROVE  n = m
<1>1. IsFiniteSet(S)
  <2>1. IsFiniteSet(0..top)
    BY FS_Interval
  <2> QED
    BY <2>1, SubsetCard
<1>2. ASSUME NEW a \in S, NEW b \in S, a < b PROVE Cardinality(Below(S, a)) < Cardinality(Below(S, b))
  <2>1. Below(S, a) \cup {a} \in SUBSET Below(S, b) /\ a \notin Below(S, a)
    <3>1. a \in Nat
      OBVIOUS
    <3> QED
      BY <1>2, <3>1, BelowFacts
  <2>2. Below(S, a) \in SUBSET S /\ Below(S, b) \in SUBSET S
    BY DEF Below
  <2>3. IsFiniteSet(Below(S, a)) /\ IsFiniteSet(Below(S, b))
    BY <1>1, <2>2, SubsetCard
  <2>4. Cardinality(Below(S, a) \cup {a}) = Cardinality(Below(S, a)) + 1
    BY <2>1, <2>3, FS_AddElement
  <2>5. /\ Cardinality(Below(S, a) \cup {a}) <= Cardinality(Below(S, b))
        /\ Cardinality(Below(S, b)) \in Nat
    BY <2>1, <2>3, SubsetCard
  <2>6. Cardinality(Below(S, a)) \in Nat
    BY <2>3, FS_CardinalityType
  <2> QED
    BY <2>4, <2>5, <2>6
<1>3. n \in Nat /\ m \in Nat
  OBVIOUS
<1>4. Cardinality(Below(S, n)) \in Nat /\ Cardinality(Below(S, m)) \in Nat
  <2>1. Below(S, n) \in SUBSET S /\ Below(S, m) \in SUBSET S
    BY DEF Below
  <2> QED
    BY <1>1, <2>1, SubsetCard
<1> QED
  BY <1>2, <1>3, <1>4

\* The numbers verify_chain queues are those of the headers, and when the headers
\* are continuous each is followed by the next block of its chain.
LEMMA NumbersLinked ==
  ASSUME NEW top \in Nat, DOMAIN headers \in SUBSET (0..top)
  PROVE  /\ Numbers \in Seq(DOMAIN headers)
         /\ Continuous => \A i \in 1..(Len(Numbers) - 1) : Linked(Numbers[i], Numbers[i + 1])
<1>1. PICK S : S = DOMAIN headers
  OBVIOUS
<1>2. IsFiniteSet(S) /\ Cardinality(S) \in Nat /\ S \in SUBSET (0..top)
  <2>1. IsFiniteSet(0..top)
    BY FS_Interval
  <2> QED
    BY <1>1, <2>1, SubsetCard
<1>3. PICK num : num = Numbers
  OBVIOUS
<1>4. num = [i \in 1..Cardinality(S) |-> CHOOSE n \in S : Cardinality(Below(S, n)) = i - 1]
  BY <1>1, <1>3 DEF Numbers, Below
<1>5. \A i \in 1..Cardinality(S) : num[i] \in S /\ Cardinality(Below(S, num[i])) = i - 1
  <2> SUFFICES ASSUME NEW i \in 1..Cardinality(S)
               PROVE  num[i] \in S /\ Cardinality(Below(S, num[i])) = i - 1
    OBVIOUS
  <2>1. \E n \in S : Cardinality(Below(S, n)) = i - 1
    BY <1>2, NthExists
  <2>2. num[i] = CHOOSE n \in S : Cardinality(Below(S, n)) = i - 1
    BY <1>4
  <2> QED
    BY <2>1, <2>2
<1>6. num \in Seq(S) /\ Len(num) = Cardinality(S)
  BY <1>2, <1>4, <1>5
<1>7. ASSUME Continuous, NEW i \in 1..(Len(num) - 1) PROVE Linked(num[i], num[i + 1])
  <2>1. i \in 1..Cardinality(S) /\ i + 1 \in 1..Cardinality(S)
    BY <1>2, <1>6
  <2>2. PICK m : m = num[i + 1]
    OBVIOUS
  <2>3. m \in S /\ Cardinality(Below(S, m)) = i /\ m \in 0..top
    <3>1. m \in S /\ Cardinality(Below(S, m)) = (i + 1) - 1
      BY <1>5, <2>1, <2>2
    <3> QED
      BY <1>2, <3>1
  <2>4. Below(S, m) # {}
    <3>1. Cardinality({}) = 0
      BY FS_EmptySet
    <3>2. i # 0
      OBVIOUS
    <3> QED
      BY <2>3, <3>1, <3>2
  <2>5. PICK x : x = Max(Below(S, m))
    OBVIOUS
  <2>6. x \in Below(S, m) /\ \A y \in Below(S, m) : x >= y
    <3>1. Below(S, m) \in SUBSET (0..top)
      BY <1>2 DEF Below
    <3>2. \E z \in Below(S, m) : \A y \in Below(S, m) : y <= z
      BY <2>4, <3>1, GreatestElement
    <3>3. \E z \in Below(S, m) : \A y \in Below(S, m) : z >= y
      BY <3>1, <3>2
    <3> QED
      BY <2>5, <3>3 DEF Max
  <2>7. Linked(x, m)
    BY <1>1, <1>7, <2>3, <2>4, <2>5 DEF Continuous, Below
  <2>8. x \in S /\ x \in Nat /\ Below(S, x) = Below(S, m) \ {x}
    <3>1. \A y \in S : y \in Nat
      BY <1>2
    <3>2. \A y, z : y \in Below(S, z) <=> y \in S /\ y < z
      BY DEF Below
    <3>3. x \in S /\ x \in Nat /\ x < m /\ m \in Nat
      BY <2>3, <2>6, <3>1, <3>2
    <3>4. \A y \in S : y < x <=> y < m /\ y # x
      <4> SUFFICES ASSUME NEW y \in S PROVE y < x <=> y < m /\ y # x
        OBVIOUS
      <4>1. y \in Nat
        BY <3>1
      <4>2. y < m => x >= y
        BY <2>6, <3>2
      <4> QED
        BY <3>3, <4>1, <4>2
    <3>5. \A y : y \in Below(S, x) <=> y \in Below(S, m) \ {x}
      BY <3>2, <3>4
    <3> QED
      BY <3>3, <3>5
  <2>9. IsFiniteSet(Below(S, m))
    <3>1. Below(S, m) \in SUBSET S
      BY DEF Below
    <3> QED
      BY <1>2, <3>1, SubsetCard
  <2>10. Cardinality(Below(S, m) \ {x}) = i - 1
    BY <2>3, <2>6, <2>9, FS_RemoveElement
  <2>11. num[i] = x
    BY <1>2, <1>5, <2>1, <2>8, <2>10, NthUnique
  <2> QED
    BY <2>2, <2>7, <2>11
<1> QED
  BY <1>1, <1>3, <1>6, <1>7

-----------------------------------------------------------------------------
(* Synchronisation: the requests                                           *)

\* Two requests ask for disjoint ranges.
Apart(r, q) == r.start + r.count <= q.start \/ q.start + q.count <= r.start

\* A pending request asks for blocks up to MaxBlock.
InRange(r) == r \in HeaderRequest /\ r.start + r.count <= MaxBlock + 1

\* Everything the engine holds is a block number; the requests are few and disjoint.
SyncInv ==
  /\ local_head \in Number /\ target \in Number \cup {NoTarget}
  /\ DOMAIN headers \in SUBSET Number
  /\ import_ready \in Seq(Number)
  /\ IsFiniteSet(header_requests) /\ Cardinality(header_requests) <= max_header_requests
  /\ \A r \in header_requests : InRange(r)
  /\ \A r, q \in header_requests : r # q => Apart(r, q)

\* The values of a function on a finite set.
LEMMA ImageCard ==
  ASSUME NEW S, NEW T, NEW f \in [S -> T], IsFiniteSet(S)
  PROVE  LET I == {f[x] : x \in S}
         IN  IsFiniteSet(I) /\ Cardinality(I) \in Nat /\ Cardinality(I) <= Cardinality(S)
<1>1. PICK I : I = {f[x] : x \in S}
  OBVIOUS
<1>2. f \in Surjection(S, I)
  BY <1>1 DEF Surjection
<1>3. IsFiniteSet(I) /\ Cardinality(I) <= Cardinality(S)
  BY <1>2, FS_Surjection
<1> QED
  BY <1>1, <1>3, FS_CardinalityType

\* Multiples of a number are that number apart.
LEMMA Multiples ==
  ASSUME NEW h \in Nat, NEW k \in Nat, NEW j \in Nat, k < j
  PROVE  k * h \in Nat /\ j * h \in Nat /\ k * h + h <= j * h
<1>1. PICK d \in Nat : j = k + 1 + d
  <2>1. j - k - 1 \in Nat /\ j = k + 1 + (j - k - 1)
    OBVIOUS
  <2> QED
    BY <2>1
<1>2. d * h \in Nat /\ k * h \in Nat
  OBVIOUS
<1>3. (k + 1 + d) * h = k * h + h + d * h
  OBVIOUS
<1> QED
  BY <1>1, <1>2, <1>3

\* The lower of two numbers.
LEMMA MinOfTwo ==
  ASSUME NEW a \in Int, NEW b \in Int
  PROVE  Min({a, b}) \in {a, b} /\ Min({a, b}) <= a /\ Min({a, b}) <= b
<1>1. \E x \in {a, b} : \A y \in {a, b} : x <= y
  <2>1. CASE a <= b
    BY <2>1
  <2>2. CASE b <= a
    BY <2>2
  <2> QED
    BY <2>1, <2>2
<1>2. Min({a, b}) = CHOOSE x \in {a, b} : \A y \in {a, b} : x <= y
  BY DEF Min
<1>3. Min({a, b}) \in {a, b} /\ \A y \in {a, b} : Min({a, b}) <= y
  BY <1>1, <1>2
<1> QED
  BY <1>3

\* The greatest number of a set that is not empty and bounded.
LEMMA MaxOf ==
  ASSUME NEW n \in Nat, NEW T \in SUBSET (0..n), T # {}
  PROVE  Max(T) \in T /\ \A y \in T : y <= Max(T)
<1>1. \E x \in T : \A y \in T : y <= x
  BY GreatestElement
<1>2. \E x \in T : \A y \in T : x >= y
  BY <1>1
<1>3. Max(T) \in T /\ \A y \in T : Max(T) >= y
  BY <1>2 DEF Max
<1> QED
  BY <1>3

\* The next request starts above the head, every header and every pending range.
LEMMA NextStartFacts ==
  ASSUME SyncInv
  PROVE  NextStart \in Nat /\ \A r \in header_requests : r.start + r.count <= NextStart
<1> USE SyncConfig
<1>1. PICK T : T = {r.start + r.count : r \in header_requests} \cup DOMAIN headers \cup {local_head + 1}
  OBVIOUS
<1>2. NextStart = Max(T)
  BY <1>1 DEF NextStart
<1>3. \A r \in header_requests : r.start + r.count \in 0..(MaxBlock + 1)
  BY DEF SyncInv, InRange, HeaderRequest
<1>4. DOMAIN headers \in SUBSET (0..(MaxBlock + 1)) /\ local_head + 1 \in 0..(MaxBlock + 1)
  BY DEF SyncInv, Number
<1>5. T \in SUBSET (0..(MaxBlock + 1)) /\ T # {} /\ MaxBlock + 1 \in Nat
  BY <1>1, <1>3, <1>4
<1>6. Max(T) \in T /\ \A y \in T : y <= Max(T)
  BY <1>5, MaxOf
<1>7. Max(T) \in Nat
  <2>1. Max(T) \in 0..(MaxBlock + 1)
    BY <1>5, <1>6
  <2> QED
    BY <2>1
<1>8. \A r \in header_requests : r.start + r.count \in T
  BY <1>1
<1> QED
  BY <1>2, <1>6, <1>7, <1>8

\* poll_header_requests adds ranges that are apart from one another and lie above
\* the pending ones, up to the limit.
LEMMA NewRequestsFacts ==
  ASSUME SyncInv, target # NoTarget
  PROVE  /\ IsFiniteSet(NewHeaderRequests)
         /\ Cardinality(header_requests) + Cardinality(NewHeaderRequests) <= max_header_requests
         /\ \A q \in NewHeaderRequests : InRange(q) /\ NextStart <= q.start
         /\ \A r, q \in NewHeaderRequests : r # q => Apart(r, q)
<1> USE SyncConfig
<1>1. PICK h, next, card, limit : /\ h = headers_per_request /\ next = NextStart
                                  /\ card = Cardinality(header_requests)
                                  /\ limit = max_header_requests
  OBVIOUS
<1>2. /\ h \in Nat \ {0} /\ next \in Nat /\ card \in Nat /\ limit \in Nat /\ card <= limit
      /\ target \in Nat /\ target <= MaxBlock
  BY <1>1, NextStartFacts, FS_CardinalityType DEF SyncInv, Number
<1>3. PICK start : start = [k \in Nat |-> next + k * h]
  OBVIOUS
<1>4. \A k \in Nat : start[k] = next + k * h /\ k * h \in Nat
  BY <1>2, <1>3
<1>5. \A k \in Nat : start[k] \in Nat /\ next <= start[k]
  BY <1>2, <1>4
<1>6. \A k, j \in Nat : k < j => start[k] + h <= start[j]
  <2> SUFFICES ASSUME NEW k \in Nat, NEW j \in Nat, k < j PROVE start[k] + h <= start[j]
    OBVIOUS
  <2>1. k * h \in Nat /\ j * h \in Nat /\ k * h + h <= j * h
    BY <1>2, Multiples
  <2>2. start[k] = next + k * h /\ start[j] = next + j * h
    BY <1>4
  <2> QED
    BY <1>2, <2>1, <2>2
<1>7. PICK K : K = {j \in 0..(limit - card - 1) : start[j] <= target}
  OBVIOUS
<1>8. \A k \in K : k \in Nat /\ start[k] \in Nat /\ start[k] <= target
  BY <1>5, <1>7
<1>9. PICK count : count = [k \in Nat |-> Min({h, target - start[k] + 1})]
  OBVIOUS
<1>10. \A k \in K : count[k] \in Nat /\ count[k] <= h /\ start[k] + count[k] <= MaxBlock + 1
  <2> SUFFICES ASSUME NEW k \in K
               PROVE  count[k] \in Nat /\ count[k] <= h /\ start[k] + count[k] <= MaxBlock + 1
    OBVIOUS
  <2>1. PICK b : b = target - start[k] + 1
    OBVIOUS
  <2>2. b \in Nat /\ start[k] + b = target + 1
    BY <1>2, <1>8, <2>1
  <2>3. count[k] = Min({h, b})
    BY <1>8, <1>9, <2>1
  <2>4. h \in Int /\ b \in Int
    BY <1>2, <2>2
  <2>5. count[k] \in {h, b} /\ count[k] <= h /\ count[k] <= b
    BY <2>3, <2>4, MinOfTwo
  <2> QED
    BY <1>2, <1>8, <2>2, <2>5
<1>11. PICK new : new = [k \in K |-> [start |-> start[k], age |-> 0, retries |-> 0, count |-> count[k]]]
  OBVIOUS
<1>12. NewHeaderRequests = {new[k] : k \in K}
  <2>1. \A k \in Nat : NextStart + k * headers_per_request = start[k]
    BY <1>1, <1>4
  <2>2. K = {j \in 0..(max_header_requests - Cardinality(header_requests) - 1) :
               NextStart + j * headers_per_request <= target}
    BY <1>1, <1>7, <2>1
  <2>3. \A k \in K : Min({headers_per_request, target - (NextStart + k * headers_per_request) + 1}) = count[k]
    BY <1>1, <1>8, <1>9, <2>1
  <2>4. \A k \in K : new[k] = [start |-> NextStart + k * headers_per_request, age |-> 0, retries |-> 0,
                    count |-> Min({headers_per_request, target - (NextStart + k * headers_per_request) + 1})]
    BY <1>8, <1>11, <2>1, <2>3
  <2> QED
    BY <2>2, <2>4 DEF NewHeaderRequests
<1>13. \A k \in K : new[k].start = start[k] /\ new[k].count = count[k] /\ new[k] \in HeaderRequest
  BY <1>8, <1>10, <1>11 DEF HeaderRequest
<1>14. \A q \in NewHeaderRequests : InRange(q) /\ NextStart <= q.start
  BY <1>1, <1>5, <1>8, <1>10, <1>12, <1>13 DEF InRange
<1>15. \A r, q \in NewHeaderRequests : r # q => Apart(r, q)
  <2> SUFFICES ASSUME NEW k \in K, NEW j \in K, k # j PROVE Apart(new[k], new[j])
    BY <1>12
  <2>1. ASSUME NEW a \in K, NEW b \in K, a < b PROVE start[a] + count[a] <= start[b]
    <3>1. start[a] + h <= start[b]
      BY <1>6, <1>8, <2>1
    <3>2. start[a] \in Nat /\ start[b] \in Nat /\ count[a] \in Nat /\ count[a] <= h
      BY <1>8, <1>10
    <3> QED
      BY <1>2, <3>1, <3>2
  <2>2. k < j \/ j < k
    BY <1>8
  <2> QED
    BY <1>13, <2>1, <2>2 DEF Apart
<1>16. /\ IsFiniteSet(K) /\ Cardinality(K) \in Nat /\ Cardinality(K) <= limit - card
  <2>1. PICK n : n = limit - card - 1
    OBVIOUS
  <2>2. n \in Int /\ n + 1 \in Nat /\ n + 1 = limit - card
    BY <1>2, <2>1
  <2>3. IsFiniteSet(0..n) /\ Cardinality(0..n) = IF 0 > n THEN 0 ELSE n - 0 + 1
    BY <2>2, FS_Interval
  <2>4. Cardinality(0..n) = n + 1
    BY <2>2, <2>3
  <2>5. K \in SUBSET (0..n)
    BY <1>7, <2>1
  <2>6. IsFiniteSet(K) /\ Cardinality(K) \in Nat /\ Cardinality(K) <= Cardinality(0..n)
    BY <2>3, <2>5, SubsetCard
  <2> QED
    BY <2>2, <2>4, <2>6
<1>17. new \in [K -> HeaderRequest]
  BY <1>11, <1>13
<1>18. /\ IsFiniteSet({new[k] : k \in K}) /\ Cardinality({new[k] : k \in K}) \in Nat
       /\ Cardinality({new[k] : k \in K}) <= Cardinality(K)
  BY <1>16, <1>17, ImageCard
<1>19. card + Cardinality(NewHeaderRequests) <= limit
  BY <1>2, <1>12, <1>16, <1>18
<1> QED
  BY <1>1, <1>12, <1>14, <1>15, <1>18, <1>19

\* New requests keep the pending ones few and disjoint.
LEMMA PollKeepsSync == SyncInv /\ PollHeaderRequests => SyncInv'
<1> SUFFICES ASSUME SyncInv, PollHeaderRequests PROVE SyncInv'
  OBVIOUS
<1> USE SyncConfig
<1>1. PICK old, new : old = header_requests /\ new = NewHeaderRequests
  OBVIOUS
<1>2. target # NoTarget /\ header_requests' = old \cup new
      /\ UNCHANGED <<local_head, target, headers, import_ready>>
  BY <1>1 DEF PollHeaderRequests
<1>3. /\ IsFiniteSet(new) /\ Cardinality(old) + Cardinality(new) <= max_header_requests
      /\ \A q \in new : InRange(q) /\ NextStart <= q.start
      /\ \A r, q \in new : r # q => Apart(r, q)
  BY <1>1, <1>2, NewRequestsFacts
<1>4. IsFiniteSet(old) /\ (\A r \in old : InRange(r)) /\ \A r, q \in old : r # q => Apart(r, q)
  BY <1>1 DEF SyncInv
<1>5. IsFiniteSet(old \cup new) /\ Cardinality(old \cup new) <= max_header_requests
  <2>1. /\ IsFiniteSet(old \cup new)
        /\ Cardinality(old \cup new) = Cardinality(old) + Cardinality(new) - Cardinality(old \cap new)
    BY <1>3, <1>4, FS_Union
  <2>2. IsFiniteSet(old \cap new)
    BY <1>4, FS_Subset
  <2>3. Cardinality(old) \in Nat /\ Cardinality(new) \in Nat /\ Cardinality(old \cap new) \in Nat
    BY <1>3, <1>4, <2>2, FS_CardinalityType
  <2> QED
    BY <1>3, <2>1, <2>3
<1>6. ASSUME NEW r \in old, NEW q \in new PROVE Apart(r, q) /\ Apart(q, r)
  <2>1. NextStart \in Nat /\ r.start + r.count <= NextStart
    BY <1>1, NextStartFacts
  <2>2. NextStart <= q.start /\ q.start \in Nat /\ r.start \in Nat /\ r.count \in Nat
    BY <1>3, <1>4 DEF InRange, HeaderRequest
  <2>3. r.start + r.count <= q.start
    BY <2>1, <2>2
  <2> QED
    BY <2>3 DEF Apart
<1>7. \A r, q \in old \cup new : r # q => Apart(r, q)
  BY <1>3, <1>4, <1>6
<1>8. \A r \in old \cup new : InRange(r)
  BY <1>3, <1>4
<1> QED
  BY <1>2, <1>5, <1>7, <1>8 DEF SyncInv

\* An answer takes its requests away and brings headers of block numbers.
LEMMA HeadersKeepSync ==
  ASSUME SyncInv, NEW b, NEW first \in Nat, NEW last \in Nat, last <= MaxBlock,
         OnHeadersReceived(b, first, last)
  PROVE  SyncInv'
<1> USE SyncConfig
<1>1. PICK kept : kept = {r \in header_requests : r.start # first}
  OBVIOUS
<1>2. header_requests' = kept /\ UNCHANGED <<local_head, target, import_ready>>
  BY <1>1 DEF OnHeadersReceived
<1>3. kept \in SUBSET header_requests
  BY <1>1
<1>4. IsFiniteSet(kept) /\ Cardinality(kept) <= max_header_requests
  <2>1. /\ IsFiniteSet(kept) /\ Cardinality(kept) \in Nat /\ Cardinality(header_requests) \in Nat
        /\ Cardinality(kept) <= Cardinality(header_requests)
    BY <1>3, SubsetCard DEF SyncInv
  <2>2. Cardinality(header_requests) <= max_header_requests
    BY DEF SyncInv
  <2> QED
    BY <2>1, <2>2
<1>5. DOMAIN headers' = DOMAIN headers \cup first..last
  BY DEF OnHeadersReceived
<1>6. DOMAIN headers' \in SUBSET Number
  <2>1. first..last \in SUBSET Number
    BY DEF Number
  <2> QED
    BY <1>5, <2>1 DEF SyncInv
<1> QED
  BY <1>2, <1>3, <1>4, <1>6 DEF SyncInv

\* A tick makes the requests older or drops them; their ranges stay.
LEMMA TickKeepsSync == SyncInv /\ Tick => SyncInv'
<1> SUFFICES ASSUME SyncInv, Tick PROVE SyncInv'
  OBVIOUS
<1> USE SyncConfig
<1>1. PICK S : S = {q \in header_requests : ~GivenUp(q)}
  OBVIOUS
<1>2. PICK f : f = [r \in S |-> Aged(r)]
  OBVIOUS
<1>3. PICK I : I = {f[r] : r \in S}
  OBVIOUS
<1>4. header_requests' = I /\ UNCHANGED <<local_head, target, headers, import_ready>>
  BY <1>1, <1>2, <1>3 DEF Tick
<1>5. S \in SUBSET header_requests
  BY <1>1
<1>6. \A r \in S : f[r] \in HeaderRequest /\ f[r].start = r.start /\ f[r].count = r.count
  <2> SUFFICES ASSUME NEW r \in S
               PROVE  Aged(r) \in HeaderRequest /\ Aged(r).start = r.start /\ Aged(r).count = r.count
    BY <1>2
  <2>1. r \in HeaderRequest
    BY <1>5 DEF SyncInv, InRange
  <2>2. /\ r = [start |-> r.start, count |-> r.count, age |-> r.age, retries |-> r.retries]
        /\ r.start \in Nat /\ r.count \in Nat /\ r.age \in Nat /\ r.retries \in Nat
    BY <2>1 DEF HeaderRequest
  <2>3. CASE TimesOut(r)
    <3>1. Aged(r) = [r EXCEPT !.age = 0, !.retries = @ + 1]
      BY <2>3 DEF Aged
    <3>2. Aged(r) = [start |-> r.start, count |-> r.count, age |-> 0, retries |-> r.retries + 1]
      BY <2>1, <3>1 DEF HeaderRequest
    <3> QED
      BY <2>2, <3>2 DEF HeaderRequest
  <2>4. CASE ~TimesOut(r)
    <3>1. Aged(r) = [r EXCEPT !.age = @ + 1]
      BY <2>4 DEF Aged
    <3>2. Aged(r) = [start |-> r.start, count |-> r.count, age |-> r.age + 1, retries |-> r.retries]
      BY <2>1, <3>1 DEF HeaderRequest
    <3> QED
      BY <2>2, <3>2 DEF HeaderRequest
  <2> QED
    BY <2>3, <2>4
<1>7. \A r \in I : InRange(r)
  BY <1>3, <1>5, <1>6 DEF SyncInv, InRange
<1>8. \A r, q \in I : r # q => Apart(r, q)
  BY <1>3, <1>5, <1>6 DEF SyncInv, Apart
<1>9. IsFiniteSet(I) /\ Cardinality(I) <= max_header_requests
  <2>1. /\ IsFiniteSet(S) /\ Cardinality(S) \in Nat /\ Cardinality(header_requests) \in Nat
        /\ Cardinality(S) <= Cardinality(header_requests)
    BY <1>5, SubsetCard DEF SyncInv
  <2>2. f \in [S -> HeaderRequest]
    BY <1>2, <1>6
  <2>3. IsFiniteSet(I) /\ Cardinality(I) \in Nat /\ Cardinality(I) <= Cardinality(S)
    <3> HIDE DEF HeaderRequest
    <3>1. LET J == {f[x] : x \in S}
          IN  IsFiniteSet(J) /\ Cardinality(J) \in Nat /\ Cardinality(J) <= Cardinality(S)
      BY <2>1, <2>2, ImageCard
    <3> QED
      BY <1>3, <3>1
  <2>4. Cardinality(header_requests) <= max_header_requests
    BY DEF SyncInv
  <2> QED
    BY <2>1, <2>3, <2>4
<1> QED
  BY <1>4, <1>7, <1>8, <1>9 DEF SyncInv

\* A new head takes headers away and may end the synchronisation.
LEMMA HeadKeepsSync ==
  ASSUME SyncInv, NEW head \in Number, SetLocalHead(head), UNCHANGED header_requests,
         import_ready' \in Seq(Number)
  PROVE  SyncInv'
<1>1. local_head' = head /\ target' \in {target, NoTarget}
  BY DEF SetLocalHead
<1>2. DOMAIN headers' \in SUBSET DOMAIN headers
  BY DEF SetLocalHead
<1> QED
  BY <1>1, <1>2 DEF SyncInv

\* The importer's head is a queued block or the old head.
LEMMA ImportKeepsSync == SyncInv /\ Import => SyncInv'
<1> SUFFICES ASSUME SyncInv, Import PROVE SyncInv'
  OBVIOUS
<1> USE SyncConfig
<1>1. PICK T : T = Range(import_ready) \cup {local_head}
  OBVIOUS
<1>2. PICK head : head = IF \E n \in Range(import_ready) : n <= local_head + 1 THEN Max(T) ELSE local_head
  OBVIOUS
<1>3. import_ready' = <<>> /\ SetLocalHead(head) /\ UNCHANGED header_requests
  BY <1>1, <1>2 DEF Import
<1>4. T \in SUBSET (0..MaxBlock) /\ T # {}
  <2>1. \A i \in DOMAIN import_ready : import_ready[i] \in Number
    BY DEF SyncInv
  <2>2. local_head \in Number
    BY DEF SyncInv
  <2> QED
    BY <1>1, <2>1, <2>2 DEF Number, Range
<1>5. Max(T) \in T
  BY <1>4, MaxOf
<1>6. head \in Number
  BY <1>2, <1>4, <1>5 DEF SyncInv, Number
<1>7. <<>> \in Seq(Number)
  OBVIOUS
<1> QED
  BY <1>3, <1>6, <1>7, HeadKeepsSync

\* Every step of the engine keeps the invariant.
LEMMA SyncInvKept == SyncInv /\ Next => SyncInv'
<1> SUFFICES ASSUME SyncInv, Next PROVE SyncInv'
  OBVIOUS
<1> USE SyncConfig
<1>1. ASSUME NEW n \in 1..MaxBlock, OnPeerStatus(n) PROVE SyncInv'
  <2>1. n \in Number
    BY DEF Number
  <2> QED
    BY <1>1, <2>1 DEF OnPeerStatus, SyncInv
<1>2. ASSUME NEW n \in 1..MaxBlock, UpdateLocalHead(n) PROVE SyncInv'
  <2>1. n \in Number
    BY DEF Number
  <2>2. import_ready' \in Seq(Number)
    BY <1>2 DEF UpdateLocalHead, SyncInv
  <2> QED
    BY <1>2, <2>1, <2>2, HeadKeepsSync DEF UpdateLocalHead
<1>3. ASSUME NEW b \in Branches, ReceiveHeaders(b) PROVE SyncInv'
  <2>1. ASSUME NEW n \in 1..MaxBlock, NEW r \in header_requests, r.start = n,
               OnHeadersReceived(b, n, n + r.count - 1)
        PROVE  SyncInv'
    <3>1. r.count \in Nat /\ n + r.count <= MaxBlock + 1
      BY <2>1 DEF SyncInv, InRange, HeaderRequest
    <3>2. n \in Nat /\ n + r.count - 1 \in Nat /\ n + r.count - 1 <= MaxBlock
      BY <3>1
    <3> QED
      BY <2>1, <3>2, HeadersKeepSync
  <2>2. ASSUME NEW first \in 1..MaxBlock, NEW last \in first..MaxBlock,
               OnHeadersReceived(b, first, last)
        PROVE  SyncInv'
    <3>1. first \in Nat /\ last \in Nat /\ last <= MaxBlock
      OBVIOUS
    <3> QED
      BY <2>2, <3>1, HeadersKeepSync
  <2> QED
    BY <1>3, <2>1, <2>2 DEF ReceiveHeaders, Answer
<1>4. CASE PollBodyRequests
  BY <1>4 DEF PollBodyRequests, SyncInv
<1>5. CASE ReceiveBodies
  <2>1. PICK hashes : OnBodiesReceived(hashes)
    BY <1>5 DEF ReceiveBodies
  <2>2. DOMAIN headers' = DOMAIN headers
    BY <2>1 DEF OnBodiesReceived
  <2>3. UNCHANGED <<local_head, target, header_requests, import_ready>>
    BY <2>1 DEF OnBodiesReceived
  <2> QED
    BY <2>2, <2>3 DEF SyncInv
<1>6. CASE VerifyChain
  <2>1. import_ready' = Numbers /\ UNCHANGED <<local_head, target, headers, header_requests>>
    BY <1>6 DEF VerifyChain
  <2>2. Numbers \in Seq(DOMAIN headers)
    BY NumbersLinked DEF SyncInv, Number
  <2>3. Numbers \in Seq(Number)
    BY <2>2 DEF SyncInv
  <2> QED
    BY <2>1, <2>3 DEF SyncInv
<1> QED
  BY <1>1, <1>2, <1>3, <1>4, <1>5, <1>6, ImportKeepsSync, PollKeepsSync, TickKeepsSync DEF Next

\* The invariant holds throughout.
LEMMA SyncInvariant == MCSpec => []SyncInv
<1>1. MCInit => SyncInv
  <2> SUFFICES ASSUME MCInit PROVE SyncInv
    OBVIOUS
  <2>1. /\ local_head = 0 /\ target = NoTarget /\ DOMAIN headers = {}
        /\ header_requests = {} /\ import_ready = <<>>
    BY DEF MCInit, Init
  <2>2. IsFiniteSet({}) /\ Cardinality({}) = 0
    BY FS_EmptySet
  <2>3. 0 <= max_header_requests /\ 0 \in Number /\ <<>> \in Seq(Number)
    BY SyncConfig DEF Number
  <2> QED
    BY <2>1, <2>2, <2>3 DEF SyncInv
<1>2. SyncInv /\ [MCNext]_allvars => SyncInv'
  <2> SUFFICES ASSUME SyncInv, [MCNext]_allvars PROVE SyncInv'
    OBVIOUS
  <2>1. CASE Synchronise
    BY <2>1, SyncInvKept DEF Synchronise
  <2>2. CASE UNCHANGED vars
    BY <2>2 DEF vars, SyncInv
  <2> QED
    BY <2>1, <2>2 DEF MCNext, ManagePeers, Prune, MoveSnapshots, Broadcast, ShutDown, allvars
<1> QED
  BY <1>1, <1>2, PTL DEF MCSpec

\* The pending header requests ask for disjoint ranges and are never more than
\* max_header_requests, through retries, late, partial and repeated answers and
\* new targets: for every chain length, batch size, timeout and limit.
THEOREM RequestsStayDisjoint == MCSpec => []RequestsDisjoint
<1>1. SyncInv => RequestsDisjoint
  BY DEF SyncInv, RequestsDisjoint, Apart
<1> QED
  BY <1>1, SyncInvariant, PTL

\* What verify_chain queues is a chain, consecutive numbers and each the parent of
\* the next, whatever mixture of branches and gaps has been downloaded.
THEOREM QueuesAreChains == MCSpec => QueuesLinkedBlocks
<1>1. SyncInv /\ [MCNext]_allvars =>
        [\A i \in 1..(Len(import_ready') - 1) : import_ready = <<>> =>
           LET n == import_ready'[i] m == import_ready'[i + 1]
           IN m = n + 1 /\ headers[m].parent_hash = headers[n].hash]_vars
  <2> SUFFICES ASSUME SyncInv, [MCNext]_allvars, ~UNCHANGED vars, import_ready = <<>>,
                      NEW i \in 1..(Len(import_ready') - 1)
               PROVE  Linked(import_ready'[i], import_ready'[i + 1])
    BY DEF Linked
  <2>1. Next
    BY DEF MCNext, Synchronise, ManagePeers, Prune, MoveSnapshots, Broadcast, ShutDown, allvars
  <2>2. import_ready' # <<>>
    OBVIOUS
  <2>3. VerifyChain
    BY <2>1, <2>2 DEF Next, OnPeerStatus, UpdateLocalHead, Import, PollHeaderRequests,
       ReceiveHeaders, Answer, OnHeadersReceived, PollBodyRequests, ReceiveBodies,
       OnBodiesReceived, Tick
  <2>4. import_ready' = Numbers /\ Continuous
    BY <2>3 DEF VerifyChain
  <2>5. MaxBlock \in Nat /\ DOMAIN headers \in SUBSET (0..MaxBlock)
    BY SyncConfig DEF SyncInv, Number
  <2> QED
    BY <2>4, <2>5, NumbersLinked
<1> QED
  BY <1>1, SyncInvariant, PTL DEF MCSpec, QueuesLinkedBlocks
=============================================================================
