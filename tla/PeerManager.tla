----------------------------- MODULE PeerManager -----------------------------
(***************************************************************************)
(* The table of connected peers with their reputation                      *)
(* (network/src/peer_manager.rs).  Ticks are kept as the ticks since a      *)
(* peer's last activity and since the last decay.  Every ban is permanent  *)
(* (record_event writes expiry 0), so bans are a set.  Counters and        *)
(* reported values that no decision reads are left out.                    *)
(***************************************************************************)
EXTENDS Integers, FiniteSets

CONSTANTS
  Peer,                                     \* peer ids
  Events,                                   \* the kinds of events that happen
  max_peers, max_inbound, max_outbound,
  idle_timeout_ticks, decay_interval_ticks, decay_amount

VARIABLES
  peers,        \* connected peer |-> its entry
  banned,       \* the banned peers
  since_decay   \* current_tick - last_decay_tick

vars == <<peers, banned, since_decay>>

INITIAL_SCORE == 100
DISCONNECT_THRESHOLD == -50
BAN_THRESHOLD == -200
MAX_SCORE == 500

ScoreDelta ==
  [ValidBlock |-> 10, ValidHeaders |-> 5, ValidBodies |-> 5, PongReceived |-> 1,
   InvalidBlock |-> -50, InvalidHeaders |-> -30, Timeout |-> -10,
   DuplicateData |-> -5, UnsolicitedData |-> -3, WrongChainId |-> -100, Decay |-> 0]

Direction == {"Outbound", "Inbound"}

PeerInfo == [score: -MAX_SCORE..MAX_SCORE, direction: Direction, idle: Nat,
             disconnect_pending: BOOLEAN]

TypeOK ==
  /\ DOMAIN peers \subseteq Peer
  /\ peers \in [DOMAIN peers -> PeerInfo]
  /\ banned \subseteq Peer
  /\ since_decay \in Nat

Init == peers = [p \in {} |-> p] /\ banned = {} /\ since_decay = 0

-----------------------------------------------------------------------------
\* The connected peers of one direction among the peers of a table.
Of(table, direction) == {p \in DOMAIN table : table[p].direction = direction}

Limit(direction) == IF direction = "Inbound" THEN max_inbound ELSE max_outbound

Without(table, p) == [q \in DOMAIN table \ {p} |-> table[q]]

\* The tables evict_worst_peer may leave: the order of equals is the map's.
Evicted ==
  {Without(peers, w) : w \in
     {p \in DOMAIN peers : \A q \in DOMAIN peers : peers[p].score <= peers[q].score}}

\* Makes room only once the table is over its limit.
LateRoom == IF Cardinality(DOMAIN peers) > max_peers THEN Evicted ELSE {peers}

\* The tables in which the direction's limit is checked: a full table has lost
\* its worst peer, an empty one that is full rejects the connection.
Room == IF Cardinality(DOMAIN peers) >= max_peers THEN Evicted ELSE {peers}

NewPeer(direction) ==
  [score |-> INITIAL_SCORE, direction |-> direction, idle |-> 0,
   disconnect_pending |-> FALSE]

\* Turns away only a peer that has not left yet.
NotLeaving(p) == p \notin {q \in DOMAIN peers : peers[q].disconnect_pending}

\* The ban check of on_peer_connected.
MayConnect(p) == p \notin banned

\* on_peer_connected.  A rejection for the direction's limit keeps the eviction;
\* a peer that is connected already gets a new entry.
OnPeerConnected(p, direction) ==
  /\ MayConnect(p)
  /\ \E table \in Room :
       peers' = IF Cardinality(Of(table, direction)) >= Limit(direction)
                THEN table
                ELSE [q \in DOMAIN table \cup {p} |->
                        IF q = p THEN NewPeer(direction) ELSE table[q]]
  /\ UNCHANGED <<banned, since_decay>>

OnPeerDisconnected(p) ==
  /\ p \in DOMAIN peers /\ peers' = Without(peers, p)
  /\ UNCHANGED <<banned, since_decay>>

Clamp(score) == IF score > MAX_SCORE THEN MAX_SCORE
                ELSE IF score < -MAX_SCORE THEN -MAX_SCORE ELSE score

\* record_event, and with WrongChainId update_peer_status for a foreign chain.
RecordEvent(p, event) ==
  LET score == Clamp(peers[p].score + ScoreDelta[event]) IN
  /\ p \in DOMAIN peers
  /\ peers' = [peers EXCEPT ![p].score = score, ![p].idle = 0,
                 ![p].disconnect_pending = @ \/ score <= DISCONNECT_THRESHOLD]
  /\ banned' = IF score <= BAN_THRESHOLD THEN banned \cup {p} ELSE banned
  /\ UNCHANGED since_decay

\* update_peer_status for a peer of our chain.
UpdatePeerStatus(p) ==
  /\ p \in DOMAIN peers /\ peers' = [peers EXCEPT ![p].idle = 0]
  /\ UNCHANGED <<banned, since_decay>>

PeersToDisconnect ==
  {p \in DOMAIN peers : peers[p].disconnect_pending
                          \/ peers[p].idle > idle_timeout_ticks}

\* One step of the score towards its initial value.
Decayed(score) ==
  IF score > INITIAL_SCORE
  THEN IF score - decay_amount < INITIAL_SCORE THEN INITIAL_SCORE
       ELSE score - decay_amount
  ELSE IF score + decay_amount > INITIAL_SCORE THEN INITIAL_SCORE
       ELSE score + decay_amount

Tick ==
  LET decay == since_decay + 1 >= decay_interval_ticks
      older(i) == IF i > idle_timeout_ticks THEN i ELSE i + 1
  IN
  /\ since_decay' = IF decay THEN 0 ELSE since_decay + 1
  /\ peers' = [p \in DOMAIN peers |-> [peers[p] EXCEPT
                 !.idle = older(@), !.score = IF decay THEN Decayed(@) ELSE @]]
  /\ UNCHANGED banned

Next ==
  \/ \E p \in Peer, d \in Direction : OnPeerConnected(p, d)
  \/ \E p \in Peer : OnPeerDisconnected(p) \/ UpdatePeerStatus(p)
  \/ \E p \in Peer, e \in Events : RecordEvent(p, e)
  \/ Tick

Spec == Init /\ [][Next]_vars

-----------------------------------------------------------------------------
\* on_peer_connected keeps the table within max_peers and each direction within
\* its own limit, whatever evictions and repeated connections precede.
WithinLimits ==
  /\ Cardinality(DOMAIN peers) <= max_peers
  /\ \A d \in Direction : Cardinality(Of(peers, d)) <= Limit(d)

\* A banned peer that is still connected is listed for disconnection: no later
\* event, decay or new connection clears the mark that record_event set.
BannedIsLeaving == banned \cap DOMAIN peers \subseteq PeersToDisconnect

\* A ban lasts: a banned peer that has left never comes back.
BanIsFinal ==
  [][\A p \in banned : p \in banned' /\ (p \in DOMAIN peers' => p \in DOMAIN peers)]_vars
=============================================================================
