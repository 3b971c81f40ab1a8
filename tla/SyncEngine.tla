----------------------------- MODULE SyncEngine -----------------------------
(***************************************************************************)
(* The header-first synchronisation engine (network/src/sync.rs) and what  *)
(* drives it: statuses of peers, answers to its requests, its timer, and   *)
(* the importer of the blocks it has verified.                             *)
(*                                                                         *)
(* A request is identified by what it asks for: an answer is matched by    *)
(* its first number or by its hashes, never by the request's id, so the    *)
(* ids are left out.  A tick of a request is kept as its age.  A hash is   *)
(* the pair of a number and a branch; all branches share the blocks up to  *)
(* ForkAt.                                                                 *)
(***************************************************************************)
EXTENDS Naturals, Sequences, FiniteSets, FiniteSetsExt, SequencesExt

CONSTANTS
  MaxBlock,               \* bound: the height of the longest chain
  Branches,               \* the chains that peers follow
  ForkAt,                 \* the last block the branches share
  headers_per_request, bodies_per_request, request_timeout_ticks,
  max_retries, max_header_requests, max_body_requests,
  NoTarget                \* no peer is known to be ahead

ASSUME SyncConfig ==
  /\ MaxBlock \in Nat /\ ForkAt \in Nat
  /\ headers_per_request \in Nat \ {0} /\ bodies_per_request \in Nat \ {0}
  /\ request_timeout_ticks \in Nat /\ max_retries \in Nat
  /\ max_header_requests \in Nat /\ max_body_requests \in Nat
  /\ NoTarget \notin Nat

VARIABLES
  state,            \* SyncEngine::state
  local_head,       \* the number of our head
  target,           \* the best block a peer has announced, or NoTarget
  headers,          \* block number |-> downloaded header
  header_requests,  \* the pending ranges
  body_requests,    \* the pending lists of hashes
  import_ready,     \* the numbers queued for import
  prompt            \* the network loses, repeats and reorders nothing

vars == <<state, local_head, target, headers, header_requests, body_requests,
          import_ready, prompt>>

SyncState == {"Synced", "DownloadingHeaders", "DownloadingBodies", "Verifying",
              "Stalled"}

Number == 0..MaxBlock

Hash(b, n) == IF n <= ForkAt THEN <<n, "shared">> ELSE <<n, b>>

SyncedHeader == [hash: {Hash(b, n) : b \in Branches, n \in Number},
                 parent_hash: {Hash(b, n) : b \in Branches, n \in Number},
                 body_downloaded: BOOLEAN]

HeaderRequest == [start: Nat, count: Nat, age: Nat, retries: Nat]

BodyRequest == [hashes: SUBSET {Hash(b, n) : b \in Branches, n \in Number},
                age: Nat, retries: Nat]

TypeOK ==
  /\ state \in SyncState /\ local_head \in Number
  /\ target \in Number \cup {NoTarget}
  /\ DOMAIN headers \subseteq Number
  /\ \A n \in DOMAIN headers : headers[n] \in SyncedHeader
  /\ header_requests \subseteq HeaderRequest
  /\ body_requests \in Seq(BodyRequest)
  /\ import_ready \in Seq(Number) /\ prompt \in BOOLEAN

Init ==
  /\ state = "Synced" /\ local_head = 0 /\ target = NoTarget
  /\ headers = [n \in {} |-> n]
  /\ header_requests = {} /\ body_requests = <<>> /\ import_ready = <<>>
  /\ prompt \in BOOLEAN

-----------------------------------------------------------------------------
\* A peer announces its best block.  A network that is prompt announces the
\* next target only when the last one has been reached.
OnPeerStatus(best_block) ==
  /\ prompt => target = NoTarget
  /\ best_block > local_head
  /\ target # NoTarget => best_block > target
  /\ target' = best_block
  /\ state' = IF state = "Synced" THEN "DownloadingHeaders" ELSE state
  /\ UNCHANGED <<local_head, headers, header_requests, body_requests,
                 import_ready, prompt>>

\* Drops the target only once the head is past it.
PastTarget(new_head) == target # NoTarget /\ new_head > target

\* The head has reached the target.
CaughtUp(new_head) == target # NoTarget /\ new_head >= target

\* What update_local_head does to headers, state and target.
SetLocalHead(new_head) ==
  /\ local_head' = new_head
  /\ headers' = [n \in {m \in DOMAIN headers : m > new_head} |-> headers[n]]
  /\ state' = IF CaughtUp(new_head) THEN "Synced" ELSE state
  /\ target' = IF CaughtUp(new_head) THEN NoTarget ELSE target

\* A block arrives by gossip and becomes the head.
UpdateLocalHead(new_head) ==
  /\ ~prompt /\ new_head = local_head + 1
  /\ SetLocalHead(new_head)
  /\ UNCHANGED <<header_requests, body_requests, import_ready, prompt>>

\* drain_import_ready, and the importer that applies the drained blocks: they
\* only join our chain when one of them follows our head.
Import ==
  LET queued == Range(import_ready) IN
  /\ import_ready # <<>> /\ import_ready' = <<>>
  /\ SetLocalHead(IF \E n \in queued : n <= local_head + 1
                  THEN Max(queued \cup {local_head}) ELSE local_head)
  /\ UNCHANGED <<header_requests, body_requests, prompt>>

-----------------------------------------------------------------------------
\* Asks again for what is asked for already.
StartAboveHeaders == Max(DOMAIN headers \cup {local_head + 1})

\* Where the next header request starts.
NextStart ==
  Max({r.start + r.count : r \in header_requests} \cup DOMAIN headers
      \cup {local_head + 1})

\* The new requests: ranges of headers_per_request up to the target.
NewHeaderRequests ==
  LET start(k) == NextStart + k * headers_per_request
      max_new == max_header_requests - Cardinality(header_requests)
  IN {[start |-> start(k), age |-> 0, retries |-> 0,
       count |-> Min({headers_per_request, target - start(k) + 1})] :
        k \in {j \in 0..(max_new - 1) : start(j) <= target}}

PollHeaderRequests ==
  /\ state = "DownloadingHeaders" /\ target # NoTarget
  /\ NewHeaderRequests # {}
  /\ header_requests' = header_requests \cup NewHeaderRequests
  /\ UNCHANGED <<state, local_head, target, headers, body_requests,
                 import_ready, prompt>>

\* The headers first..last of branch b arrive.
OnHeadersReceived(b, first, last) ==
  LET new(n) == [hash |-> Hash(b, n), parent_hash |-> Hash(b, n - 1),
                 body_downloaded |-> FALSE]
      have_all == target # NoTarget /\ Max(DOMAIN headers') >= target
  IN
  /\ first <= last
  /\ header_requests' = {r \in header_requests : r.start # first}
  /\ headers' = [n \in DOMAIN headers \cup first..last |->
                   IF n \in DOMAIN headers THEN headers[n] ELSE new(n)]
  /\ state' = IF have_all /\ header_requests' = {} THEN "DownloadingBodies"
              ELSE state
  /\ UNCHANGED <<local_head, target, body_requests, import_ready, prompt>>

\* The answer to the pending request that starts at n.
Answer(b, n) ==
  \E r \in header_requests :
    r.start = n /\ OnHeadersReceived(b, n, n + r.count - 1)

\* An answer.  A prompt network has one branch and answers each pending request
\* in full; otherwise any headers come at any time: late, twice, in part, or of another branch.
ReceiveHeaders(b) ==
  \/ /\ prompt /\ b = CHOOSE c \in Branches : TRUE
     /\ \E n \in 1..MaxBlock : Answer(b, n)
  \/ /\ ~prompt
     /\ \E first \in 1..MaxBlock : \E last \in first..MaxBlock :
          OnHeadersReceived(b, first, last)

-----------------------------------------------------------------------------
\* The headers that wait for a body, cut into lists in the order of their
\* numbers.
NewBodyRequests ==
  LET need == {n \in DOMAIN headers : ~headers[n].body_downloaded}
      place(n) == Cardinality({m \in need : m < n})
      chunk(k) == {headers[n].hash : n \in
                     {m \in need : place(m) \div bodies_per_request = k - 1}}
      max_new == IF Len(body_requests) >= max_body_requests THEN 0
                 ELSE max_body_requests - Len(body_requests)
      chunks == {k \in 1..max_new : chunk(k) # {}}
  IN [k \in chunks |-> [hashes |-> chunk(k), age |-> 0, retries |-> 0]]

PollBodyRequests ==
  /\ state = "DownloadingBodies"
  /\ NewBodyRequests # <<>>
  /\ body_requests' = body_requests \o NewBodyRequests
  /\ UNCHANGED <<state, local_head, target, headers, header_requests,
                 import_ready, prompt>>

\* The bodies of these hashes arrive.  Hashes of different headers differ.
OnBodiesReceived(hashes) ==
  /\ headers' = [n \in DOMAIN headers |-> [headers[n] EXCEPT
                   !.body_downloaded = @ \/ headers[n].hash \in hashes]]
  /\ body_requests' =
       SelectSeq(body_requests, LAMBDA r : ~(r.hashes \subseteq hashes))
  /\ state' = IF /\ \A n \in DOMAIN headers : headers'[n].body_downloaded
                 /\ body_requests' = <<>> /\ DOMAIN headers # {}
              THEN "Verifying" ELSE state
  /\ UNCHANGED <<local_head, target, header_requests, import_ready, prompt>>

ReceiveBodies ==
  \/ /\ prompt
     /\ \E i \in DOMAIN body_requests : OnBodiesReceived(body_requests[i].hashes)
  \/ /\ ~prompt
     /\ \E sent \in SUBSET DOMAIN headers :
          OnBodiesReceived({headers[n].hash : n \in sent})

-----------------------------------------------------------------------------
\* The numbers of two headers follow one another.
Consecutive(n, m) == m = n + 1

\* Two downloaded headers follow one another.
Linked(n, m) == m = n + 1 /\ headers[m].parent_hash = headers[n].hash

\* Every header follows the one before it.
Continuous ==
  \A m \in DOMAIN headers :
    LET below == {n \in DOMAIN headers : n < m} IN
    below # {} => Linked(Max(below), m)

\* headers.keys(): the numbers of the headers in ascending order.
Numbers ==
  [i \in 1..Cardinality(DOMAIN headers) |->
     CHOOSE n \in DOMAIN headers : Cardinality({m \in DOMAIN headers : m < n}) = i - 1]

\* verify_chain, which the driver calls in state Verifying once it has drained
\* the last batch.  Its errors leave the engine as it is.
VerifyChain ==
  /\ state = "Verifying"
  /\ DOMAIN headers # {} /\ Continuous
  /\ import_ready = <<>>
  /\ import_ready' = Numbers
  /\ state' = "Synced"
  /\ UNCHANGED <<local_head, target, headers, header_requests, body_requests,
                 prompt>>

\* The request is given up at the next tick.
TimesOut(r) == r.age + 1 > request_timeout_ticks
GivenUp(r) == TimesOut(r) /\ r.retries + 1 > max_retries

\* The request after a tick: older, or sent once more.
Aged(r) == IF TimesOut(r) THEN [r EXCEPT !.age = 0, !.retries = @ + 1]
           ELSE [r EXCEPT !.age = @ + 1]

\* The timer.  Where all goes well the driver polls before it ticks: a tick that
\* comes between a status and the first request stalls the engine for good.
Tick ==
  /\ prompt => /\ ~(state = "DownloadingHeaders" /\ NewHeaderRequests # {})
               /\ \A r \in header_requests : ~GivenUp(r)
               /\ \A i \in DOMAIN body_requests : ~GivenUp(body_requests[i])
  /\ header_requests' = {Aged(r) : r \in {q \in header_requests : ~GivenUp(q)}}
  /\ LET kept == SelectSeq(body_requests, LAMBDA r : ~GivenUp(r))
     IN body_requests' = [i \in DOMAIN kept |-> Aged(kept[i])]
  /\ state' = IF /\ state # "Synced" /\ header_requests' = {}
                 /\ body_requests' = <<>> /\ DOMAIN headers = {}
                 /\ target # NoTarget
              THEN "Stalled" ELSE state
  /\ UNCHANGED <<local_head, target, headers, import_ready, prompt>>

Next ==
  \/ \E n \in 1..MaxBlock : OnPeerStatus(n) \/ UpdateLocalHead(n)
  \/ Import
  \/ PollHeaderRequests
  \/ \E b \in Branches : ReceiveHeaders(b)
  \/ PollBodyRequests
  \/ ReceiveBodies
  \/ VerifyChain
  \/ Tick

Spec == Init /\ [][Next]_vars

\* What the driver does, and a prompt network that sends bodies.
Drive ==
  prompt /\ (\/ Import \/ PollHeaderRequests \/ PollBodyRequests \/ VerifyChain
             \/ ReceiveBodies)

\* The driver keeps polling, verifying and importing, and a pending request
\* gets an answer before the engine gives it up.
Fairness ==
  /\ WF_vars(Drive)
  /\ \A n \in 1..MaxBlock :
       WF_vars(prompt /\ Answer(CHOOSE c \in Branches : TRUE, n))

FairSpec == Spec /\ Fairness
-----------------------------------------------------------------------------
\* The pending header requests ask for disjoint ranges, and are never more than
\* max_header_requests: a retry, a late answer or a new target asks for no
\* range twice.
RequestsDisjoint ==
  /\ Cardinality(header_requests) <= max_header_requests
  /\ \A r, q \in header_requests :
       r # q => r.start + r.count <= q.start \/ q.start + q.count <= r.start

\* What verify_chain queues is a chain: consecutive blocks, each the parent of
\* the next, whatever mixture of branches, gaps and repeats has been received.
QueuesLinkedBlocks ==
  [][\A i \in 1..(Len(import_ready') - 1) : import_ready = <<>> =>
       LET n == import_ready'[i] m == import_ready'[i + 1]
       IN m = n + 1 /\ headers[m].parent_hash = headers[n].hash]_vars

\* When the network is prompt, a node that has learnt of a longer chain imports
\* it, through all of the engine's states (the target is dropped when the head
\* has reached it).
SyncCompletes == (prompt /\ target # NoTarget) ~> (target = NoTarget)
=============================================================================
