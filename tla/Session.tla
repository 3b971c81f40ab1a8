------------------------------- MODULE Session -------------------------------
(***************************************************************************)
(* Player sessions, crates/rpc/src/session.rs.                             *)
(*                                                                         *)
(* SessionManager keeps two maps, each behind a lock of its own: sessions, *)
(* by id, and address_index, from addresses to ids.  The RPC server calls  *)
(* it from many threads.  A step here ends where a thread has to wait for  *)
(* a lock while it holds the other, or has released what it held; the      *)
(* locks a thread holds follow from its position.                          *)
(***************************************************************************)
EXTENDS SessionConfig

CONSTANT Threads  \* the threads that serve RPC calls

VARIABLES
  sessions,       \* the ids in the map of sessions; none is ever removed
  active,         \* those whose is_active is set
  last_activity,  \* the last_activity of each session
  address_index,
  clock,          \* seconds
  pc, arg,        \* each thread's position, its session and the time it read
  overlap         \* history: a call has begun while another was in progress

vars == <<sessions, active, last_activity, address_index, clock, pc, arg, overlap>>

Steps == {"idle", "existing", "insert", "index", "lookup", "unindex", "cleanup", "expire"}
Argument == [address : Player \cup {NoSession}, id : SessionId \cup {NoSession}, now : Time]
NoArgument == [address |-> NoSession, id |-> NoSession, now |-> 0]

TypeOK ==
  /\ sessions \in SUBSET SessionId /\ active \in SUBSET sessions
  /\ last_activity \in [SessionId -> Time]
  /\ address_index \in [Player -> SessionId \cup {NoSession}]
  /\ clock \in Time
  /\ pc \in [Threads -> Steps] /\ arg \in [Threads -> Argument]
  /\ \A t \in Threads :
       pc[t] \in {"existing", "insert", "index"} => arg[t].id \in SessionId
  /\ \A t \in Threads :
       pc[t] \in {"existing", "insert", "index", "unindex"} => arg[t].address \in Player
  /\ overlap \in BOOLEAN

Init ==
  /\ sessions = {} /\ active = {}
  /\ last_activity = [id \in SessionId |-> 0]
  /\ address_index = [a \in Player |-> NoSession]
  /\ clock = 0
  /\ pc = [t \in Threads |-> "idle"] /\ arg = [t \in Threads |-> NoArgument]
  /\ overlap = FALSE

\* No thread holds the lock of sessions, which only writers hold across steps;
\* no thread holds the lock of address_index, which only readers do.
SessionsFree == \A t \in Threads : pc[t] \notin {"unindex", "expire"}
IndexFree == \A t \in Threads : pc[t] \notin {"existing", "lookup"}

Quiescent == \A t \in Threads : pc[t] = "idle"

Call(t, step, argument) ==
  /\ pc[t] = "idle"
  /\ pc' = [pc EXCEPT ![t] = step]
  /\ arg' = [arg EXCEPT ![t] = argument]
  /\ overlap' = (overlap \/ ~Quiescent)

Goto(t, step) == pc' = [pc EXCEPT ![t] = step] /\ UNCHANGED <<arg, overlap>>

Return(t) ==
  /\ pc' = [pc EXCEPT ![t] = "idle"]
  /\ arg' = [arg EXCEPT ![t] = NoArgument]
  /\ UNCHANGED overlap

-----------------------------------------------------------------------------
(* Variants of the steps below with a plausible bug each; Next does not    *)
(* use them.                                                               *)

\* The address is indexed before the session is stored.
ConnectInsert_IndexFirst(t) ==
  /\ pc[t] = "insert" /\ IndexFree
  /\ address_index' = [address_index EXCEPT ![arg[t].address] = arg[t].id]
  /\ Goto(t, "index")
  /\ UNCHANGED <<sessions, active, last_activity, clock>>

\* cleanup_expired asks for the lock of sessions that it holds.
Cleanup_Relock(t) ==
  /\ pc[t] = "expire" /\ SessionsFree
  /\ Return(t)
  /\ UNCHANGED <<sessions, active, last_activity, address_index, clock>>
-----------------------------------------------------------------------------
(* connect                                                                 *)

\* The clock is read, then address_index.  If it names a session its lock is
\* kept while connect waits for sessions.
ConnectStart(t, a) ==
  /\ \/ /\ address_index[a] # NoSession
        /\ Call(t, "existing", [address |-> a, id |-> address_index[a], now |-> clock])
     \/ /\ address_index[a] = NoSession
        /\ Call(t, "insert", [address |-> a, id |-> <<a, clock>>, now |-> clock])
  /\ UNCHANGED <<sessions, active, last_activity, address_index, clock>>

\* The existing session is reactivated.  One that is missing from sessions would
\* be replaced by a new one; there is none, see IndexedIsStored.
ConnectExisting(t) ==
  /\ pc[t] = "existing" /\ SessionsFree
  /\ LET id == arg[t].id IN
       IF id \in sessions
       THEN /\ active' = active \cup {id}
            /\ last_activity' = [last_activity EXCEPT ![id] = arg[t].now]
            /\ Return(t)
       ELSE /\ pc' = [pc EXCEPT ![t] = "insert"]
            /\ arg' = [arg EXCEPT ![t] = [address |-> arg[t].address, now |-> arg[t].now,
                                          id |-> <<arg[t].address, arg[t].now>>]]
            /\ UNCHANGED <<active, last_activity, overlap>>
  /\ UNCHANGED <<sessions, address_index, clock>>

ConnectInsert(t) ==
  /\ pc[t] = "insert" /\ SessionsFree
  /\ sessions' = sessions \cup {arg[t].id}
  /\ active' = active \cup {arg[t].id}
  /\ last_activity' = [last_activity EXCEPT ![arg[t].id] = arg[t].now]
  /\ Goto(t, "index")
  /\ UNCHANGED <<address_index, clock>>

ConnectIndex(t) ==
  /\ pc[t] = "index" /\ IndexFree
  /\ address_index' = [address_index EXCEPT ![arg[t].address] = arg[t].id]
  /\ Return(t)
  /\ UNCHANGED <<sessions, active, last_activity, clock>>

-----------------------------------------------------------------------------
(* get_session_by_address, which like connect keeps address_index while it *)
(* waits for sessions                                                      *)

LookupStart(t, a) ==
  /\ address_index[a] # NoSession
  /\ Call(t, "lookup", [address |-> a, id |-> address_index[a], now |-> 0])
  /\ UNCHANGED <<sessions, active, last_activity, address_index, clock>>

Lookup(t) ==
  /\ pc[t] = "lookup" /\ SessionsFree
  /\ Return(t)
  /\ UNCHANGED <<sessions, active, last_activity, address_index, clock>>

-----------------------------------------------------------------------------
(* disconnect and heartbeat                                                *)

\* The session is marked under the lock of sessions, which is kept while
\* disconnect waits for address_index.  An unknown id changes nothing.
DisconnectStart(t, id) ==
  /\ SessionsFree
  /\ id \in sessions
  /\ active' = active \ {id}
  /\ Call(t, "unindex", [address |-> id[1], id |-> id, now |-> 0])
  /\ UNCHANGED <<sessions, last_activity, address_index, clock>>

\* Whatever session the index names for the address is dropped from it.
DisconnectIndex(t) ==
  /\ pc[t] = "unindex" /\ IndexFree
  /\ address_index' = [address_index EXCEPT ![arg[t].address] = NoSession]
  /\ Return(t)
  /\ UNCHANGED <<sessions, active, last_activity, clock>>

Heartbeat(t, id) ==
  /\ pc[t] = "idle" /\ SessionsFree
  /\ id \in sessions
  /\ last_activity' = [last_activity EXCEPT ![id] = clock]
  /\ overlap' = (overlap \/ ~Quiescent)
  /\ UNCHANGED <<sessions, active, address_index, clock, pc, arg>>

-----------------------------------------------------------------------------
(* cleanup_expired                                                         *)

\* The clock is read before the locks are taken, sessions first.
CleanupStart(t) ==
  /\ Call(t, "cleanup", [address |-> NoSession, id |-> NoSession, now |-> clock])
  /\ UNCHANGED <<sessions, active, last_activity, address_index, clock>>

CleanupLock(t) ==
  /\ pc[t] = "cleanup" /\ SessionsFree
  /\ Goto(t, "expire")
  /\ UNCHANGED <<sessions, active, last_activity, address_index, clock>>

\* now - last_activity > timeout in u64 (release arithmetic: a last_activity
\* after now wraps around).
Expired(now, last) == (now - last) % U64 > timeout_secs

Cleanup(t) ==
  /\ pc[t] = "expire" /\ IndexFree
  /\ LET expired == {id \in active : Expired(arg[t].now, last_activity[id])} IN
       /\ active' = active \ expired
       /\ address_index' = [a \in Player |->
            IF \E id \in expired : id[1] = a THEN NoSession ELSE address_index[a]]
  /\ Return(t)
  /\ UNCHANGED <<sessions, last_activity, clock>>

-----------------------------------------------------------------------------
\* A second passes.
Second ==
  /\ clock < MaxTime
  /\ clock' = clock + 1
  /\ UNCHANGED <<sessions, active, last_activity, address_index, pc, arg, overlap>>

\* The rest of a call that has begun.
Continue(t) ==
  \/ ConnectExisting(t) \/ ConnectInsert(t) \/ ConnectIndex(t)
  \/ Lookup(t) \/ DisconnectIndex(t) \/ CleanupLock(t) \/ Cleanup(t)

Next ==
  \/ \E t \in Threads :
       \/ \E a \in Player : ConnectStart(t, a) \/ LookupStart(t, a)
       \/ \E id \in SessionId : DisconnectStart(t, id) \/ Heartbeat(t, id)
       \/ CleanupStart(t)
       \/ Continue(t)
  \/ Second

Spec == Init /\ [][Next]_vars

\* A thread that waits for a lock gets it if it is free again and again: the
\* locks of parking_lot are fair in the long run.
FairSpec == Spec /\ \A t \in Threads : SF_vars(Continue(t))

-----------------------------------------------------------------------------
(* Properties                                                              *)

\* In every interleaving a session is stored before its address is indexed, and
\* none is removed: connect never finds an id in the index that sessions lacks.
IndexedIsStored ==
  \A a \in Player : address_index[a] # NoSession => address_index[a] \in sessions

\* As long as calls have not overlapped, an address is indexed between calls only
\* with an active session of its own, so that connect hands out no dead one.
IndexedIsActive ==
  ~overlap /\ Quiescent =>
    \A a \in Player : address_index[a] # NoSession =>
      address_index[a] \in active /\ address_index[a][1] = a

\* The index never names a session that is missing and, as long as calls have not
\* overlapped, none that has ended or belongs to somebody else.
IndexSound == IndexedIsStored /\ IndexedIsActive

\* cleanup_expired is to "Clean up timed-out sessions." (session.rs:154): it ends no
\* session that has been active within the timeout, however the calls overlap.
OnlyTimedOutExpire ==
  [][\A t \in Threads : pc[t] = "expire" /\ pc'[t] = "idle" =>
       \A id \in active \ active' : clock - last_activity[id] > timeout_secs]_vars

\* What holds in the middle of calls that have not overlapped: one thread at most is
\* inside a call, and an address is indexed with its own active session unless the
\* call in progress is the disconnect that has just ended it.
SerialInv ==
  ~overlap =>
    /\ \A t, u \in Threads : pc[t] # "idle" /\ pc[u] # "idle" => t = u
    /\ \A t \in Threads :
         /\ pc[t] \in {"insert", "index"} => arg[t].id[1] = arg[t].address
         /\ pc[t] = "index" => arg[t].id \in active
    /\ \A a \in Player : address_index[a] # NoSession =>
         /\ address_index[a][1] = a
         /\ \/ address_index[a] \in active
            \/ \E t \in Threads : pc[t] = "unindex" /\ arg[t].address = a

\* A thread waits for sessions with address_index in its hands, and one that holds
\* sessions waits for address_index.
LockedOut ==
  \E t, u \in Threads : pc[t] \in {"existing", "lookup"} /\ pc[u] \in {"unindex", "expire"}

\* A call returns unless connect or get_session_by_address meets disconnect or
\* cleanup_expired with the locks in the opposite order: that is the only hang.
CallsReturn == \A t \in Threads : pc[t] # "idle" ~> (pc[t] = "idle" \/ LockedOut)

\* connect "Returns a session ID for subsequent requests." (session.rs:190): it
\* does return.
ConnectReturns ==
  \A t \in Threads : pc[t] \in {"existing", "insert", "index"} ~> pc[t] = "idle"
=============================================================================
