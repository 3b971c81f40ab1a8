---------------------------- MODULE SessionProofs ----------------------------
(* What SessionManager keeps to for any number of threads and players.     *)
EXTENDS MCCalls, TLAPS

\* A session is in sessions before its address is indexed.
StoredInv ==
  /\ Ses!TypeOK
  /\ Ses!IndexedIsStored
  /\ \A t \in Threads : session_pc[t] \in {"existing", "index"} => session_arg[t].id \in sessions

\* SessionAssumption, for the session manager's ids and times.
LEMMA SessionFacts ==
  /\ timeout_secs \in Nat /\ MaxTime \in Nat
  /\ U64 \in Nat /\ timeout_secs + MaxTime < U64
  /\ NoSession \notin Ses!SessionId
BY SessionAssumption DEF SessionId, Time, Ses!SessionId, Ses!Time

\* The types hold initially and whatever connect, disconnect, heartbeat and
\* cleanup_expired do.
LEMMA InitStored == Ses!Init => StoredInv
<1> SUFFICES ASSUME Ses!Init PROVE StoredInv
  OBVIOUS
<1>1. 0 \in Ses!Time /\ Ses!NoArgument \in Ses!Argument
  BY SessionFacts DEF Ses!Time, Ses!Argument, Ses!NoArgument
<1>2. QED
  BY <1>1 DEF Ses!Init, StoredInv, Ses!TypeOK, Ses!IndexedIsStored, Ses!Steps

\* Every step keeps StoredInv.
LEMMA NextStored == StoredInv /\ [Ses!Next]_Ses!vars => StoredInv'
<1> SUFFICES ASSUME StoredInv, [Ses!Next]_Ses!vars PROVE StoredInv'
  OBVIOUS
<1> USE DEF StoredInv, Ses!TypeOK, Ses!IndexedIsStored, Ses!Steps
<1>none. 0 \in Ses!Time /\ Ses!NoArgument \in Ses!Argument /\ NoSession \notin Ses!SessionId
  BY SessionFacts DEF Ses!Time, Ses!Argument, Ses!NoArgument
<1>now. \A t \in Threads : session_arg[t].now \in Ses!Time
  BY DEF Ses!Argument
<1>some. \A a \in Player, id \in Ses!SessionId, n \in Ses!Time :
           [address |-> a, id |-> id, now |-> n] \in Ses!Argument
  BY DEF Ses!Argument
<1>pair. \A id \in Ses!SessionId : id[1] \in Player
  BY DEF Ses!SessionId
<1>id. \A a \in Player, n \in Ses!Time : <<a, n>> \in Ses!SessionId
  BY DEF Ses!SessionId
<1>1. ASSUME NEW t \in Threads, NEW a \in Player, Ses!ConnectStart(t, a) PROVE StoredInv'
  <2>1. CASE address_index[a] # NoSession
    <3>1. address_index[a] \in Ses!SessionId /\ address_index[a] \in sessions
      BY <2>1
    <3> DEFINE x == [address |-> a, id |-> address_index[a], now |-> clock]
    <3>2. x \in Ses!Argument /\ x.id \in Ses!SessionId /\ x.id \in sessions /\ x.address \in Player
      BY <3>1, <1>some
    <3>3. Ses!Call(t, "existing", x) /\ UNCHANGED <<sessions, active, last_activity, address_index, clock>>
      BY <1>1, <2>1 DEF Ses!ConnectStart
    <3> HIDE DEF x
    <3>4. QED
      BY <3>2, <3>3 DEF Ses!Call
  <2>2. CASE address_index[a] = NoSession
    <3> DEFINE x == [address |-> a, id |-> <<a, clock>>, now |-> clock]
    <3>1. x \in Ses!Argument /\ x.id \in Ses!SessionId /\ x.address \in Player
      BY <1>id, <1>some
    <3>2. Ses!Call(t, "insert", x) /\ UNCHANGED <<sessions, active, last_activity, address_index, clock>>
      BY <1>1, <2>2 DEF Ses!ConnectStart
    <3> HIDE DEF x
    <3>3. QED
      BY <3>1, <3>2 DEF Ses!Call
  <2>3. QED
    BY <2>1, <2>2
<1>2. ASSUME NEW t \in Threads, NEW a \in Player, Ses!LookupStart(t, a) PROVE StoredInv'
  BY <1>2, <1>some, <1>none DEF Ses!LookupStart, Ses!Call
<1>3. ASSUME NEW t \in Threads, NEW id \in Ses!SessionId, Ses!DisconnectStart(t, id)
      PROVE StoredInv'
  BY <1>3, <1>pair, <1>some, <1>none DEF Ses!DisconnectStart, Ses!Call
<1>4. ASSUME NEW t \in Threads, NEW id \in Ses!SessionId, Ses!Heartbeat(t, id) PROVE StoredInv'
  BY <1>4 DEF Ses!Heartbeat
<1>5. ASSUME NEW t \in Threads, Ses!CleanupStart(t) PROVE StoredInv'
  <2>1. [address |-> NoSession, id |-> NoSession, now |-> clock] \in Ses!Argument
    BY DEF Ses!Argument
  <2>2. QED
    BY <1>5, <2>1 DEF Ses!CleanupStart, Ses!Call
<1>6. ASSUME NEW t \in Threads, Ses!ConnectExisting(t) PROVE StoredInv'
  BY <1>6, <1>none, <1>now DEF Ses!ConnectExisting, Ses!Return
<1>7. ASSUME NEW t \in Threads, Ses!ConnectInsert(t) PROVE StoredInv'
  BY <1>7, <1>now DEF Ses!ConnectInsert, Ses!Goto
<1>8. ASSUME NEW t \in Threads, Ses!ConnectIndex(t) PROVE StoredInv'
  BY <1>8, <1>none DEF Ses!ConnectIndex, Ses!Return
<1>9. ASSUME NEW t \in Threads, Ses!Lookup(t) PROVE StoredInv'
  BY <1>9, <1>none DEF Ses!Lookup, Ses!Return
<1>10. ASSUME NEW t \in Threads, Ses!DisconnectIndex(t) PROVE StoredInv'
  BY <1>10, <1>none DEF Ses!DisconnectIndex, Ses!Return
<1>11. ASSUME NEW t \in Threads, Ses!CleanupLock(t) PROVE StoredInv'
  BY <1>11 DEF Ses!CleanupLock, Ses!Goto
<1>12. ASSUME NEW t \in Threads, Ses!Cleanup(t) PROVE StoredInv'
  BY <1>12, <1>none DEF Ses!Cleanup, Ses!Return
<1>13. CASE Ses!Second
  BY <1>13, SessionFacts DEF Ses!Second, Ses!Time
<1>14. CASE UNCHANGED Ses!vars
  BY <1>14 DEF Ses!vars
<1>15. QED
  BY <1>1, <1>2, <1>3, <1>4, <1>5, <1>6, <1>7, <1>8, <1>9, <1>10, <1>11, <1>12, <1>13,
     <1>14 DEF Ses!Next, Ses!Continue

\* In every interleaving of any number of threads, connect finds the session that
\* address_index names.
THEOREM IndexNamesStored == Ses!Spec => []Ses!IndexedIsStored
<1>1. Ses!Spec => []StoredInv
  BY InitStored, NextStored, PTL DEF Ses!Spec
<1>2. StoredInv => Ses!IndexedIsStored
  BY DEF StoredInv
<1>3. QED
  BY <1>1, <1>2, PTL

-----------------------------------------------------------------------------
(* Calls one after the other                                               *)

\* A call that begins with no other in progress.
LEMMA Begins ==
  ASSUME Ses!TypeOK, NEW t \in Threads, NEW step, NEW argument, Ses!Call(t, step, argument), ~session_overlap'
  PROVE  /\ \A u \in Threads : session_pc[u] = "idle" /\ (u # t => session_pc'[u] = "idle" /\ session_arg'[u] = session_arg[u])
         /\ session_pc'[t] = step /\ session_arg'[t] = argument
BY DEF Ses!TypeOK, Ses!Call, Ses!Quiescent

\* The serial invariant holds initially.
LEMMA InitSerial == Ses!Init => Ses!SerialInv
BY SessionFacts DEF Ses!Init, Ses!SerialInv, Ses!Time, Ses!NoArgument

\* Every step keeps it: a call that begins beside another ends the serial part.
LEMMA NextSerial == StoredInv /\ Ses!SerialInv /\ [Ses!Next]_Ses!vars => Ses!SerialInv'
<1> SUFFICES ASSUME StoredInv, Ses!SerialInv, [Ses!Next]_Ses!vars, ~session_overlap'
             PROVE Ses!SerialInv'
  BY DEF Ses!SerialInv
<1>ty. Ses!TypeOK /\ Ses!IndexedIsStored
  BY DEF StoredInv
<1>pair. \A id \in Ses!SessionId : id[1] \in Player
  BY DEF Ses!SessionId
<1>id. \A a \in Player, n \in Ses!Time : <<a, n>> \in Ses!SessionId /\ <<a, n>>[1] = a
  BY DEF Ses!SessionId
<1>0. ~session_overlap
  BY <1>ty DEF Ses!TypeOK, Ses!Next, Ses!Continue, Ses!vars, Ses!ConnectStart,
               Ses!LookupStart, Ses!DisconnectStart, Ses!Heartbeat, Ses!CleanupStart,
               Ses!ConnectExisting, Ses!ConnectInsert, Ses!ConnectIndex, Ses!Lookup,
               Ses!DisconnectIndex, Ses!CleanupLock, Ses!Cleanup, Ses!Second, Ses!Call,
               Ses!Goto, Ses!Return
<1> USE SessionFacts, <1>ty, <1>0 DEF Ses!SerialInv, Ses!TypeOK, Ses!Argument
<1>1. ASSUME NEW t \in Threads, NEW a \in Player, Ses!ConnectStart(t, a) PROVE Ses!SerialInv'
  <2>1. CASE address_index[a] # NoSession
    BY <1>1, <2>1, Begins DEF Ses!ConnectStart
  <2>2. CASE address_index[a] = NoSession
    BY <1>1, <1>id, <2>2, Begins DEF Ses!ConnectStart
  <2>3. QED
    BY <2>1, <2>2
<1>2. ASSUME NEW t \in Threads, NEW a \in Player, Ses!LookupStart(t, a) PROVE Ses!SerialInv'
  BY <1>2, Begins DEF Ses!LookupStart
<1>3. ASSUME NEW t \in Threads, NEW id \in Ses!SessionId, Ses!DisconnectStart(t, id)
      PROVE Ses!SerialInv'
  <2>1. \A a \in Player : address_index[a] # NoSession =>
          address_index[a][1] = a /\ address_index[a] \in active
    BY <1>3, Begins DEF Ses!DisconnectStart
  <2>2. QED
    BY <1>3, <1>pair, <2>1, Begins DEF Ses!DisconnectStart
<1>4. ASSUME NEW t \in Threads, NEW id \in Ses!SessionId, Ses!Heartbeat(t, id)
      PROVE Ses!SerialInv'
  <2>1. \A u \in Threads : session_pc[u] = "idle"
    BY <1>4 DEF Ses!Heartbeat, Ses!Quiescent
  <2>2. QED
    BY <1>4, <2>1 DEF Ses!Heartbeat
<1>5. ASSUME NEW t \in Threads, Ses!CleanupStart(t) PROVE Ses!SerialInv'
  BY <1>5, Begins DEF Ses!CleanupStart
<1>6. ASSUME NEW t \in Threads, Ses!ConnectExisting(t) PROVE Ses!SerialInv'
  <2>1. session_arg[t].id \in sessions
    BY <1>6 DEF Ses!ConnectExisting, StoredInv
  <2>2. QED
    BY <1>6, <2>1 DEF Ses!ConnectExisting, Ses!Return, Ses!NoArgument, Ses!Time
<1>7. ASSUME NEW t \in Threads, Ses!ConnectInsert(t) PROVE Ses!SerialInv'
  BY <1>7 DEF Ses!ConnectInsert, Ses!Goto
<1>8. ASSUME NEW t \in Threads, Ses!ConnectIndex(t) PROVE Ses!SerialInv'
  BY <1>8 DEF Ses!ConnectIndex, Ses!Return, Ses!NoArgument, Ses!Time
<1>9. ASSUME NEW t \in Threads, Ses!Lookup(t) PROVE Ses!SerialInv'
  BY <1>9 DEF Ses!Lookup, Ses!Return, Ses!NoArgument, Ses!Time
<1>10. ASSUME NEW t \in Threads, Ses!DisconnectIndex(t) PROVE Ses!SerialInv'
  BY <1>10 DEF Ses!DisconnectIndex, Ses!Return, Ses!NoArgument, Ses!Time
<1>11. ASSUME NEW t \in Threads, Ses!CleanupLock(t) PROVE Ses!SerialInv'
  BY <1>11 DEF Ses!CleanupLock, Ses!Goto
<1>12. ASSUME NEW t \in Threads, Ses!Cleanup(t) PROVE Ses!SerialInv'
  BY <1>12 DEF Ses!Cleanup, Ses!Return, Ses!NoArgument, Ses!Time
<1>13. CASE Ses!Second
  BY <1>13 DEF Ses!Second, Ses!Time
<1>14. CASE UNCHANGED Ses!vars
  BY <1>14 DEF Ses!vars
<1>15. QED
  BY <1>1, <1>2, <1>3, <1>4, <1>5, <1>6, <1>7, <1>8, <1>9, <1>10, <1>11, <1>12, <1>13,
     <1>14 DEF Ses!Next, Ses!Continue

\* Both invariants hold throughout.
LEMMA Invariants == Ses!Spec => [](StoredInv /\ Ses!SerialInv)
BY InitStored, NextStored, InitSerial, NextSerial, PTL DEF Ses!Spec

\* As long as calls have not overlapped, connect hands out no dead session.
THEOREM IndexNamesActive == Ses!Spec => []Ses!IndexedIsActive
<1>1. StoredInv /\ Ses!SerialInv => Ses!IndexedIsActive
  BY DEF StoredInv, Ses!SerialInv, Ses!IndexedIsActive, Ses!Quiescent
<1>2. QED
  BY <1>1, Invariants, PTL

\* The calls of the session manager are steps of its module, and the others change nothing of it.
LEMMA SessionCalls == MCSpec => Ses!Spec
<1>1. MCInit => Ses!Init
  BY DEF MCInit
<1>2. [MCNext]_allvars => [Ses!Next]_Ses!vars
  BY DEF MCNext, CallPool, CallSessions, Vote, allvars, poolVars, sessionVars,
         validatorVars, Ses!vars
<1>3. QED
  BY <1>1, <1>2, PTL DEF MCSpec, Ses!Spec

\* Both together: what connect and get_session_by_address find in the index.
THEOREM IndexIsSound == MCSpec => []IndexSound
<1>1. Ses!IndexedIsStored /\ Ses!IndexedIsActive => Ses!IndexSound
  BY DEF Ses!IndexSound
<1>2. QED
  BY <1>1, IndexNamesStored, IndexNamesActive, SessionCalls, PTL DEF IndexSound
=============================================================================
