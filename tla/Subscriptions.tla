--------------------------- MODULE Subscriptions ----------------------------
(***************************************************************************)
(* The subscription API (rpc/src/subscriptions.rs): a broadcast channel    *)
(* that keeps the last `capacity` events, and one task per subscription    *)
(* that reads it from the moment of subscribing, forwards the events of    *)
(* its kind to the client, and skips what was overwritten when it lags.    *)
(* An event is its kind; its place in `events` tells it apart.             *)
(***************************************************************************)
EXTENDS Naturals, Sequences, SequencesExt

CONSTANTS
  Task,       \* the subscriptions
  Topics,     \* the kinds of subscription clients ask for
  Kind,       \* the kinds of event that are broadcast
  capacity,   \* events the channel keeps (256 in the code)
  MaxEvents   \* bound on the events broadcast

VARIABLES
  events,   \* every event sent so far
  task,     \* where each subscription task is
  sink      \* what each client received: the places of the events, in order

vars == <<events, task, sink>>

\* The event a subscription forwards: six methods of the velochain namespace,
\* and eth_subscribe with the name of a kind, any other name being accepted
\* and never answered.
Wanted(topic, kind) ==
  kind = CASE topic \in {"subscribeNewBlocks", "newHeads"} -> "NewBlock"
           [] topic = "subscribeGameTicks" -> "GameTick"
           [] topic \in {"subscribePendingTxs", "newPendingTransactions"} -> "PendingTransaction"
           [] topic = "subscribePlayerState" -> "PlayerState"
           [] topic = "subscribeChatMessages" -> "ChatMessage"
           [] topic = "subscribeEntityUpdates" -> "EntityUpdate"
           [] OTHER -> "nothing"

Idle == [state |-> "idle", topic |-> "none", from |-> 0, next |-> 0, lost |-> {}]

TypeOK ==
  /\ events \in Seq(Kind) /\ Len(events) <= MaxEvents
  /\ \A t \in Task : /\ task[t].state \in {"idle", "open", "closed"}
                     /\ task[t].next \in 0..MaxEvents + 1
                     /\ task[t].lost \subseteq 1..MaxEvents
                     /\ sink[t] \in Seq(1..MaxEvents)

Init ==
  /\ events = <<>>
  /\ task = [t \in Task |-> Idle]
  /\ sink = [t \in Task |-> <<>>]

\* The place of the oldest event the channel still has.
Oldest == IF Len(events) > capacity THEN Len(events) - capacity + 1 ELSE 1

-----------------------------------------------------------------------------
\* An event is broadcast by a holder of the sender (EventSender::send).
Send(kind) ==
  /\ Len(events) < MaxEvents
  /\ events' = Append(events, kind)
  /\ UNCHANGED <<task, sink>>

\* A subscription reads what is sent from now on.
Subscribe(t, topic) ==
  /\ task[t].state = "idle"
  /\ task' = [task EXCEPT ![t] = [state |-> "open", topic |-> topic, from |-> Len(events) + 1,
                                  next |-> Len(events) + 1, lost |-> {}]]
  /\ UNCHANGED <<events, sink>>

\* recv() with an event: the task sends it to the client when it is wanted, and
\* ends when the client is gone.
Recv(t) ==
  /\ task[t].state = "open"
  /\ task[t].next \in Oldest..Len(events)
  /\ IF Wanted(task[t].topic, events[task[t].next])
     THEN \/ /\ sink' = [sink EXCEPT ![t] = Append(@, task[t].next)]
             /\ task' = [task EXCEPT ![t].next = @ + 1]
          \/ /\ sink' = sink
             /\ task' = [task EXCEPT ![t].state = "closed"]
     ELSE /\ sink' = sink
          /\ task' = [task EXCEPT ![t].next = @ + 1]
  /\ UNCHANGED events

\* Goes on behind the oldest event, as if recv() had also returned it.
LaggedPast(t) ==
  /\ task[t].state = "open"
  /\ task[t].next < Oldest
  /\ task' = [task EXCEPT ![t].next = Oldest + 1, ![t].lost = @ \cup task[t].next..Oldest - 1]
  /\ UNCHANGED <<events, sink>>

\* recv() with Lagged(n): n events were overwritten unread; the loop goes on with
\* the oldest one there is.
Lagged(t) ==
  /\ task[t].state = "open"
  /\ task[t].next < Oldest
  /\ task' = [task EXCEPT ![t].next = Oldest, ![t].lost = @ \cup task[t].next..Oldest - 1]
  /\ UNCHANGED <<events, sink>>

Next ==
  \/ \E kind \in Kind : Send(kind)
  \/ \E t \in Task : (\E topic \in Topics : Subscribe(t, topic)) \/ Recv(t) \/ Lagged(t)

Spec == Init /\ [][Next]_vars

-----------------------------------------------------------------------------
\* What a client has is exactly the events of its kind since it subscribed that
\* its task has passed and did not lag over, each once and in order; and only
\* events followed by `capacity` others are ever lagged over.
StreamsFaithful ==
  \A t \in Task :
    LET passed == {n \in task[t].from..task[t].next - 1 :
                     n \notin task[t].lost /\ Wanted(task[t].topic, events[n])}
    IN task[t].state # "idle" =>
         /\ ToSet(sink[t]) = passed
         /\ \A i, j \in DOMAIN sink[t] : i < j => sink[t][i] < sink[t][j]
         /\ \A n \in task[t].lost : n + capacity <= Len(events)
=============================================================================
