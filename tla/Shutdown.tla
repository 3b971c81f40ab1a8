------------------------------ MODULE Shutdown ------------------------------
(***************************************************************************)
(* The shutdown controller (node/src/shutdown.rs): a flag, a tokio Notify  *)
(* and a broadcast channel of one message, used by the tasks that ask for  *)
(* the shutdown, the tasks that wait for it and those that subscribe.      *)
(* notify_waiters wakes the tasks registered at that moment and leaves no  *)
(* permit; send reaches the receivers there are at that moment.            *)
(***************************************************************************)
EXTENDS Naturals, FiniteSets

CONSTANTS Caller, Waiter, Subscriber

VARIABLES
  initiated,  \* the flag
  caller,     \* where each task is in shutdown()
  waiter,     \* where each task is in wait_for_shutdown()
  receiver,   \* what each receiver got
  asked,      \* the waiters that saw the flag clear before the shutdown woke anyone
  early       \* the receivers subscribed before the message was sent

vars == <<initiated, caller, waiter, receiver, asked, early>>

TypeOK ==
  /\ initiated \in BOOLEAN
  /\ caller \in [Caller -> {"running", "notify", "send", "done"}]
  /\ waiter \in [Waiter -> {"running", "checked", "registered", "returned"}]
  /\ receiver \in [Subscriber -> {"none", "listening", "told"}]
  /\ asked \subseteq Waiter /\ early \subseteq Subscriber

Init ==
  /\ initiated = FALSE
  /\ caller = [c \in Caller |-> "running"]
  /\ waiter = [w \in Waiter |-> "running"]
  /\ receiver = [s \in Subscriber |-> "none"]
  /\ asked = {} /\ early = {}

Notified == \E c \in Caller : caller[c] \in {"send", "done"}
Sent == \E c \in Caller : caller[c] = "done"

-----------------------------------------------------------------------------
\* shutdown(), called by the signal handlers' task or by a subsystem: only the
\* first caller to swap the flag goes on.
Swap(c) ==
  /\ caller[c] = "running"
  /\ ~initiated
  /\ initiated' = TRUE
  /\ caller' = [caller EXCEPT ![c] = "notify"]
  /\ UNCHANGED <<waiter, receiver, asked, early>>

\* Wakes one task, as notify_one would.
NotifyOne(c) ==
  /\ caller[c] = "notify"
  /\ caller' = [caller EXCEPT ![c] = "send"]
  /\ IF \E w \in Waiter : waiter[w] = "registered"
     THEN \E w \in Waiter : /\ waiter[w] = "registered"
                            /\ waiter' = [waiter EXCEPT ![w] = "returned"]
     ELSE waiter' = waiter
  /\ UNCHANGED <<initiated, receiver, asked, early>>

NotifyWaiters(c) ==
  /\ caller[c] = "notify"
  /\ caller' = [caller EXCEPT ![c] = "send"]
  /\ waiter' = [w \in Waiter |-> IF waiter[w] = "registered" THEN "returned" ELSE waiter[w]]
  /\ UNCHANGED <<initiated, receiver, asked, early>>

Send(c) ==
  /\ caller[c] = "send"
  /\ caller' = [caller EXCEPT ![c] = "done"]
  /\ receiver' = [s \in Subscriber |-> IF receiver[s] = "listening" THEN "told" ELSE receiver[s]]
  /\ UNCHANGED <<initiated, waiter, asked, early>>

-----------------------------------------------------------------------------
\* wait_for_shutdown() tests the flag ...
Check(w) ==
  /\ waiter[w] = "running"
  /\ waiter' = [waiter EXCEPT ![w] = IF initiated THEN "returned" ELSE "checked"]
  /\ UNCHANGED <<initiated, caller, receiver, asked, early>>

\* ... and then registers with the Notify; a notification given in between is lost.
Register(w) ==
  /\ waiter[w] = "checked"
  /\ waiter' = [waiter EXCEPT ![w] = "registered"]
  /\ asked' = IF Notified THEN asked ELSE asked \cup {w}
  /\ UNCHANGED <<initiated, caller, receiver, early>>

Subscribe(s) ==
  /\ receiver[s] = "none"
  /\ receiver' = [receiver EXCEPT ![s] = "listening"]
  /\ early' = IF Sent THEN early ELSE early \cup {s}
  /\ UNCHANGED <<initiated, caller, waiter, asked>>

Call(c) == NotifyWaiters(c) \/ Send(c)
Wait(w) == Check(w) \/ Register(w)

Next ==
  \/ \E c \in Caller : Swap(c) \/ Call(c)
  \/ \E w \in Waiter : Wait(w)
  \/ \E s \in Subscriber : Subscribe(s)

\* A task that is inside a call, or is to wait, can go on.
Proceed == (\E c \in Caller : Call(c)) \/ (\E w \in Waiter : Wait(w))

\* Such tasks are run, each of them having only a few steps to take.  Nobody
\* has to ask for the shutdown.
Fairness == WF_vars(Proceed)

Spec == Init /\ [][Next]_vars /\ Fairness

-----------------------------------------------------------------------------
\* A shutdown reaches every task that waits, but for one that tested the flag
\* before it was set and registered after the waiters were woken, and every
\* receiver subscribed before the message is sent; it reaches them once the one
\* caller that won the swap has gone through, however many call.
ShutdownIsHeard ==
  /\ \A w \in Waiter : (initiated /\ (waiter[w] \in {"running", "registered"}
                                      /\ (waiter[w] = "registered" => w \in asked)))
                         ~> waiter[w] = "returned"
  /\ \A s \in Subscriber : (initiated /\ s \in early) ~> receiver[s] = "told"
=============================================================================
