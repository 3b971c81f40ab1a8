----------------------- MODULE ValidatorManagerProofs -----------------------
(* Theorems about ValidatorManager for every set of addresses, every          *)
(* configuration and any number of proposals pending at the same time.        *)
EXTENDS MCCalls, FiniteSetTheorems, FunctionTheorems, NaturalsInduction,
        WellFoundedInduction, TLAPS

\* The part of the type invariant the theorems need.
ProposalsOK == proposals \in Seq(Gov!Proposal) /\ block \in Nat

\* No address appears twice in the two lists of votes f and g.
BallotsOf(f, g) ==
  /\ \A i, j \in 1..Len(f) : f[i] = f[j] => i = j
  /\ \A i, j \in 1..Len(g) : g[i] = g[j] => i = j
  /\ \A i \in 1..Len(f), j \in 1..Len(g) : f[i] # g[j]

\* No address appears twice among the votes of a proposal p.
Ballots(p) == BallotsOf(p.votes_for, p.votes_against)

BallotsInv == \A id \in 1..Len(proposals) : Ballots(proposals[id])

\* What the fields of a proposal are, and what replacing one of them leaves alone.
LEMMA ProposalFields ==
  ASSUME NEW p \in Gov!Proposal
  PROVE  /\ p.votes_for \in Seq(Candidate) /\ p.votes_against \in Seq(Candidate)
         /\ \A st \in Gov!ProposalState :
              /\ [p EXCEPT !.state = st] \in Gov!Proposal
              /\ [p EXCEPT !.state = st].votes_for = p.votes_for
              /\ [p EXCEPT !.state = st].votes_against = p.votes_against
         /\ \A vs \in Seq(Candidate) :
              /\ [p EXCEPT !.votes_for = vs] \in Gov!Proposal
              /\ [p EXCEPT !.votes_for = vs].votes_for = vs
              /\ [p EXCEPT !.votes_for = vs].votes_against = p.votes_against
              /\ [p EXCEPT !.votes_against = vs] \in Gov!Proposal
              /\ [p EXCEPT !.votes_against = vs].votes_for = p.votes_for
              /\ [p EXCEPT !.votes_against = vs].votes_against = vs
BY DEF Gov!Proposal

\* Every proposal other than id is as in ps, and id differs at most in its state.
LEMMA CheckAndExecuteProposals ==
  ASSUME NEW ps \in Seq(Gov!Proposal), NEW id \in 1..Len(ps), Gov!CheckAndExecute(ps, id)
  PROVE  \E st \in Gov!ProposalState : proposals' = [ps EXCEPT ![id].state = st]
<1>1. CASE proposals' = ps
  <2>1. ps[id] \in Gov!Proposal
    OBVIOUS
  <2>2. ps[id].state \in Gov!ProposalState /\ ps[id] = [ps[id] EXCEPT !.state = ps[id].state]
    BY <2>1 DEF Gov!Proposal
  <2>3. ps = [ps EXCEPT ![id].state = ps[id].state]
    BY <2>2
  <2> QED
    BY <1>1, <2>2, <2>3
<1> QED
  BY <1>1 DEF Gov!CheckAndExecute, Gov!ProposalState

\* Changing the state of one proposal keeps the types and the ballots.
LEMMA StateChange ==
  ASSUME NEW ps \in Seq(Gov!Proposal), NEW id \in 1..Len(ps), NEW st \in Gov!ProposalState,
         \A i \in 1..Len(ps) : Ballots(ps[i]),
         proposals' = [ps EXCEPT ![id].state = st]
  PROVE  proposals' \in Seq(Gov!Proposal) /\ BallotsInv'
<1>1. ps[id] \in Gov!Proposal
  OBVIOUS
<1>2. [ps[id] EXCEPT !.state = st] \in Gov!Proposal
  BY <1>1 DEF Gov!Proposal
<1>3. proposals' = [ps EXCEPT ![id] = [ps[id] EXCEPT !.state = st]]
  OBVIOUS
<1>4. proposals' \in Seq(Gov!Proposal) /\ Len(proposals') = Len(ps)
  BY <1>2, <1>3
<1>5. ASSUME NEW i \in 1..Len(ps) PROVE Ballots(proposals'[i])
  <2>1. CASE i # id
    <3>1. proposals'[i] = ps[i]
      BY <2>1, <1>3
    <3> QED
      BY <3>1, Zenon
  <2>2. CASE i = id
    <3>1. proposals'[i] = [ps[id] EXCEPT !.state = st] /\ Ballots(ps[id])
      BY <2>2, <1>3
    <3> QED
      BY <3>1, <1>1, ProposalFields DEF Ballots, BallotsOf
  <2> QED
    BY <2>1, <2>2
<1> QED
  BY <1>4, <1>5 DEF BallotsInv

\* The elements of an appended sequence.
LEMMA AppendElements ==
  ASSUME NEW s \in Seq(Candidate), NEW a \in Candidate
  PROVE  /\ Len(Append(s, a)) = Len(s) + 1 /\ Len(s) \in Nat
         /\ \A i \in 1..Len(s) : Append(s, a)[i] = s[i]
         /\ Append(s, a)[Len(s) + 1] = a
OBVIOUS

\* A vote of somebody who has not voted, for or against, repeats no address.
LEMMA BallotsAppend ==
  ASSUME NEW f \in Seq(Candidate), NEW g \in Seq(Candidate), NEW a \in Candidate,
         BallotsOf(f, g),
         \A i \in 1..Len(f) : f[i] # a, \A i \in 1..Len(g) : g[i] # a
  PROVE  BallotsOf(Append(f, a), g) /\ BallotsOf(f, Append(g, a))
<1>1. ASSUME NEW s \in Seq(Candidate), \A i, j \in 1..Len(s) : s[i] = s[j] => i = j,
             \A i \in 1..Len(s) : s[i] # a
      PROVE  \A i, j \in 1..Len(Append(s, a)) : Append(s, a)[i] = Append(s, a)[j] => i = j
  <2> DEFINE u == Append(s, a)
  <2>1. /\ Len(u) = Len(s) + 1 /\ Len(s) \in Nat
        /\ \A i \in 1..Len(s) : u[i] = s[i]
        /\ u[Len(s) + 1] = a
    BY AppendElements
  <2> HIDE DEF u
  <2>2. \A i \in 1..Len(u) : i \in 1..Len(s) \/ i = Len(s) + 1
    BY <2>1
  <2>3. \A i, j \in 1..Len(u) : u[i] = u[j] => i = j
    BY <1>1, <2>1, <2>2
  <2> QED
    BY <2>3 DEF u
<1>2. ASSUME NEW s \in Seq(Candidate), NEW r \in Seq(Candidate),
             \A i \in 1..Len(s), j \in 1..Len(r) : s[i] # r[j],
             \A j \in 1..Len(r) : r[j] # a
      PROVE  \A i \in 1..Len(Append(s, a)), j \in 1..Len(r) : Append(s, a)[i] # r[j]
  <2> DEFINE u == Append(s, a)
  <2>1. /\ Len(u) = Len(s) + 1 /\ Len(s) \in Nat
        /\ \A i \in 1..Len(s) : u[i] = s[i]
        /\ u[Len(s) + 1] = a
    BY AppendElements
  <2> HIDE DEF u
  <2>2. \A i \in 1..Len(u) : i \in 1..Len(s) \/ i = Len(s) + 1
    BY <2>1
  <2>3. \A i \in 1..Len(u), j \in 1..Len(r) : u[i] # r[j]
    BY <1>2, <2>1, <2>2
  <2> QED
    BY <2>3 DEF u
<1>3. BallotsOf(Append(f, a), g)
  <2>1. \A i, j \in 1..Len(Append(f, a)) : Append(f, a)[i] = Append(f, a)[j] => i = j
    BY <1>1 DEF BallotsOf
  <2>2. \A i \in 1..Len(Append(f, a)), j \in 1..Len(g) : Append(f, a)[i] # g[j]
    BY <1>2 DEF BallotsOf
  <2> QED
    BY <2>1, <2>2 DEF BallotsOf
<1>4. BallotsOf(f, Append(g, a))
  <2>1. \A i, j \in 1..Len(Append(g, a)) : Append(g, a)[i] = Append(g, a)[j] => i = j
    BY <1>1 DEF BallotsOf
  <2>2. \A i \in 1..Len(Append(g, a)), j \in 1..Len(f) : Append(g, a)[i] # f[j]
    BY <1>2 DEF BallotsOf
  <2> QED
    BY <2>1, <2>2 DEF BallotsOf
<1> QED
  BY <1>3, <1>4

\* The types of the proposals and the ballots, list by list, are invariant.
LEMMA BallotsInvariant == Gov!Spec => [](ProposalsOK /\ BallotsInv)
<1> DEFINE Inv == ProposalsOK /\ BallotsInv
<1>1. Gov!Init => Inv
  BY DEF Gov!Init, ProposalsOK, BallotsInv
<1>2. Inv /\ [Gov!Next]_Gov!vars => Inv'
  <2> SUFFICES ASSUME ProposalsOK, BallotsInv, [Gov!Next]_Gov!vars PROVE Inv'
    OBVIOUS
  <2>1. ASSUME NEW proposer \in Candidate, NEW target \in Candidate,
               NEW kind \in {"Add", "Remove"}, Gov!Propose(proposer, kind, target)
        PROVE  Inv'
    <3> DEFINE p == Gov!NewProposal(proposer, kind, target)
               ps == Append(proposals, p)
    <3>1. p \in Gov!Proposal /\ Ballots(p)
      BY ValidatorManagerAssumption DEF Gov!NewProposal, Gov!Proposal, Gov!ProposalState,
                                        ProposalsOK, Ballots, BallotsOf
    <3>2. ps \in Seq(Gov!Proposal) /\ Len(ps) = Len(proposals) + 1
      BY <3>1 DEF ProposalsOK
    <3>3. ASSUME NEW i \in 1..Len(ps) PROVE Ballots(ps[i])
      <4>1. CASE i = Len(ps)
        <5>1. ps[i] = p
          BY <4>1, <3>1, <3>2 DEF ProposalsOK
        <5> QED
          BY <5>1, <3>1, Zenon
      <4>2. CASE i # Len(ps)
        <5>1. i \in 1..Len(proposals) /\ ps[i] = proposals[i]
          BY <4>2, <3>2, <3>1 DEF ProposalsOK
        <5> QED
          BY <5>1, Zenon DEF BallotsInv
      <4> QED
        BY <4>1, <4>2
    <3>4. block' = block
      BY <2>1 DEF Gov!Propose
    <3>5. CASE Gov!CheckAndExecute(ps, Len(ps))
      <4>1. Len(ps) \in 1..Len(ps)
        BY <3>2 DEF ProposalsOK
      <4> HIDE DEF ps
      <4>2. PICK st \in Gov!ProposalState : proposals' = [ps EXCEPT ![Len(ps)].state = st]
        BY <3>2, <3>5, <4>1, CheckAndExecuteProposals
      <4> QED
        BY <4>1, <4>2, <3>2, <3>3, <3>4, StateChange DEF ProposalsOK
    <3>6. CASE proposals' = ps
      <4> HIDE DEF ps
      <4> QED
        BY <3>6, <3>2, <3>3, <3>4 DEF ProposalsOK, BallotsInv
    <3> QED
      BY <2>1, <3>5, <3>6 DEF Gov!Propose
  <2>2. ASSUME NEW id \in 1..Len(proposals), NEW voter \in Candidate,
               NEW approve \in BOOLEAN, Gov!Vote(id, voter, approve)
        PROVE  Inv'
    <3> DEFINE p == IF approve
                      THEN [proposals[id] EXCEPT !.votes_for = Append(@, voter)]
                      ELSE [proposals[id] EXCEPT !.votes_against = Append(@, voter)]
               ps == [proposals EXCEPT ![id] = p]
    <3>1. /\ proposals[id] \in Gov!Proposal
          /\ proposals[id].votes_for \in Seq(Candidate)
          /\ proposals[id].votes_against \in Seq(Candidate)
      <4>1. proposals[id] \in Gov!Proposal
        BY DEF ProposalsOK
      <4> QED
        BY <4>1, ProposalFields
    <3>2. p \in Gov!Proposal
      <4>1. Append(proposals[id].votes_for, voter) \in Seq(Candidate)
            /\ Append(proposals[id].votes_against, voter) \in Seq(Candidate)
        BY <3>1
      <4>2. CASE approve
        BY <3>1, <4>1, <4>2, ProposalFields
      <4>3. CASE ~approve
        BY <3>1, <4>1, <4>3, ProposalFields
      <4> QED
        BY <4>2, <4>3
    <3>3. Ballots(p)
      <4>1. /\ \A i \in 1..Len(proposals[id].votes_for) : proposals[id].votes_for[i] # voter
            /\ \A i \in 1..Len(proposals[id].votes_against) : proposals[id].votes_against[i] # voter
        BY <2>2 DEF Gov!Vote, Gov!MayVote, Gov!Elements
      <4>2. Ballots(proposals[id])
        BY DEF BallotsInv
      <4>3. CASE approve
        <5>1. p.votes_for = Append(proposals[id].votes_for, voter)
              /\ p.votes_against = proposals[id].votes_against
          BY <4>3, <3>1, ProposalFields
        <5> HIDE DEF p
        <5>2. BallotsOf(Append(proposals[id].votes_for, voter), proposals[id].votes_against)
          BY <3>1, <4>1, <4>2, BallotsAppend DEF Ballots
        <5> QED
          BY <5>1, <5>2 DEF Ballots
      <4>4. CASE ~approve
        <5>1. p.votes_against = Append(proposals[id].votes_against, voter)
              /\ p.votes_for = proposals[id].votes_for
          BY <4>4, <3>1, ProposalFields
        <5> HIDE DEF p
        <5>2. BallotsOf(proposals[id].votes_for, Append(proposals[id].votes_against, voter))
          BY <3>1, <4>1, <4>2, BallotsAppend DEF Ballots
        <5> QED
          BY <5>1, <5>2 DEF Ballots
      <4> QED
        BY <4>3, <4>4
    <3>4. Gov!CheckAndExecute(ps, id) /\ block' = block
      BY <2>2 DEF Gov!Vote
    <3> HIDE DEF p
    <3>5. ps \in Seq(Gov!Proposal) /\ Len(ps) = Len(proposals)
      BY <3>2 DEF ProposalsOK
    <3>6. ASSUME NEW i \in 1..Len(ps) PROVE Ballots(ps[i])
      <4>1. CASE i = id
        <5>1. ps[i] = p
          BY <4>1 DEF ProposalsOK
        <5> QED
          BY <5>1, <3>3, Zenon
      <4>2. CASE i # id
        <5>1. i \in 1..Len(proposals) /\ ps[i] = proposals[i]
          BY <4>2, <3>5 DEF ProposalsOK
        <5> QED
          BY <5>1, Zenon DEF BallotsInv
      <4> QED
        BY <4>1, <4>2
    <3> HIDE DEF ps
    <3>7. PICK st \in Gov!ProposalState : proposals' = [ps EXCEPT ![id].state = st]
      BY <3>4, <3>5, CheckAndExecuteProposals
    <3> QED
      BY <3>4, <3>5, <3>6, <3>7, StateChange DEF ProposalsOK
  <2>3. CASE Gov!ExpireProposals
    <3>1. Len(proposals') = Len(proposals) /\ block' = block
      BY <2>3 DEF Gov!ExpireProposals, ProposalsOK
    <3>2. ASSUME NEW i \in 1..Len(proposals)
          PROVE  /\ proposals'[i] \in Gov!Proposal
                 /\ proposals'[i].votes_for = proposals[i].votes_for
                 /\ proposals'[i].votes_against = proposals[i].votes_against
      <4>1. proposals[i] \in Gov!Proposal
        BY DEF ProposalsOK
      <4>2. proposals'[i] = proposals[i] \/ proposals'[i] = [proposals[i] EXCEPT !.state = "Expired"]
        <5>1. proposals'[i] = IF proposals[i].state = "Pending" /\ block >= proposals[i].expires_at
                                THEN [proposals[i] EXCEPT !.state = "Expired"]
                                ELSE proposals[i]
          BY <2>3 DEF Gov!ExpireProposals
        <5> QED
          BY <5>1, Zenon
      <4>3. "Expired" \in Gov!ProposalState
        BY DEF Gov!ProposalState
      <4>4. CASE proposals'[i] = proposals[i]
        BY <4>1, <4>4
      <4>5. CASE proposals'[i] = [proposals[i] EXCEPT !.state = "Expired"]
        <5> DEFINE q == proposals[i]
        <5>1. q \in Gov!Proposal
          BY <4>1
        <5> HIDE DEF q
        <5>2. /\ [q EXCEPT !.state = "Expired"] \in Gov!Proposal
              /\ [q EXCEPT !.state = "Expired"].votes_for = q.votes_for
              /\ [q EXCEPT !.state = "Expired"].votes_against = q.votes_against
          BY <5>1, <4>3, ProposalFields
        <5> QED
          BY <5>2, <4>5, Zenon DEF q
      <4> QED
        BY <4>2, <4>4, <4>5
    <3>3. proposals' \in Seq(Gov!Proposal)
      BY <2>3, <3>2 DEF Gov!ExpireProposals, ProposalsOK
    <3> QED
      <4>1. ASSUME NEW i \in 1..Len(proposals) PROVE Ballots(proposals'[i])
        <5>1. Ballots(proposals[i])
          BY DEF BallotsInv
        <5> QED
          BY <5>1, <3>2 DEF Ballots, BallotsOf
      <4> QED
        BY <3>1, <3>3, <4>1 DEF ProposalsOK, BallotsInv
  <2>4. CASE Gov!NextBlock
    BY <2>4 DEF Gov!NextBlock, ProposalsOK, BallotsInv
  <2>5. CASE UNCHANGED Gov!vars
    BY <2>5 DEF Gov!vars, ProposalsOK, BallotsInv
  <2> QED
    BY <2>1, <2>2, <2>3, <2>4, <2>5 DEF Gov!Next
<1> QED
  BY <1>1, <1>2, PTL DEF Gov!Spec

\* The calls of the validator manager are steps of its module, and the others change nothing of it.
LEMMA GovernanceCalls == MCSpec => Gov!Spec
<1>1. MCInit => Gov!Init
  BY DEF MCInit
<1>2. [MCNext]_allvars => [Gov!Next]_Gov!vars
  BY DEF MCNext, CallPool, CallSessions, Vote, allvars, poolVars, sessionVars,
         validatorVars, Gov!vars
<1>3. QED
  BY <1>1, <1>2, PTL DEF MCSpec, Gov!Spec

\* An address has at most one vote on a proposal, for or against, however the
\* validator set changes between the votes.
THEOREM VotesAreSingle == MCSpec => []OneVoteEach
<1> DEFINE Inv == ProposalsOK /\ BallotsInv
<1>1. Inv => Gov!OneVoteEach
  <2> SUFFICES ASSUME Inv, NEW id \in 1..Len(proposals)
               PROVE  LET b == proposals[id].votes_for \o proposals[id].votes_against
                      IN  \A i, j \in 1..Len(b) : b[i] = b[j] => i = j
    BY DEF Gov!OneVoteEach
  <2>1. proposals[id].votes_for \in Seq(Candidate) /\ proposals[id].votes_against \in Seq(Candidate)
    <3>1. proposals[id] \in Gov!Proposal
      BY DEF ProposalsOK
    <3> QED
      BY <3>1, ProposalFields
  <2>2. Ballots(proposals[id])
    BY DEF BallotsInv
  <2> DEFINE f == proposals[id].votes_for
             a == proposals[id].votes_against
  <2>3. /\ Len(f \o a) = Len(f) + Len(a)
        /\ \A i \in 1..Len(f \o a) :
             (f \o a)[i] = IF i <= Len(f) THEN f[i] ELSE a[i - Len(f)]
    <3> HIDE DEF f, a
    <3> QED
      BY <2>1
  <2>4. ASSUME NEW i \in 1..Len(f \o a), NEW j \in 1..Len(f \o a), (f \o a)[i] = (f \o a)[j]
        PROVE  i = j
    <3>1. Len(f) \in Nat /\ Len(a) \in Nat
      BY <2>1
    <3>2. /\ \A k, l \in 1..Len(f) : f[k] = f[l] => k = l
          /\ \A k, l \in 1..Len(a) : a[k] = a[l] => k = l
          /\ \A k \in 1..Len(f), l \in 1..Len(a) : f[k] # a[l]
      BY <2>2 DEF Ballots, BallotsOf
    <3> HIDE DEF f, a
    <3>3. CASE i <= Len(f) /\ j <= Len(f)
      BY <2>3, <2>4, <3>1, <3>2, <3>3
    <3>4. CASE i <= Len(f) /\ j > Len(f)
      <4>1. j - Len(f) \in 1..Len(a) /\ i \in 1..Len(f)
        BY <2>3, <3>1, <3>4
      <4> QED
        BY <2>3, <2>4, <3>1, <3>2, <3>4, <4>1
    <3>5. CASE i > Len(f) /\ j <= Len(f)
      <4>1. i - Len(f) \in 1..Len(a) /\ j \in 1..Len(f)
        BY <2>3, <3>1, <3>5
      <4> QED
        BY <2>3, <2>4, <3>1, <3>2, <3>5, <4>1
    <3>6. CASE i > Len(f) /\ j > Len(f)
      <4>1. i - Len(f) \in 1..Len(a) /\ j - Len(f) \in 1..Len(a)
        BY <2>3, <3>1, <3>6
      <4> QED
        BY <2>3, <2>4, <3>1, <3>2, <3>6, <4>1
    <3> QED
      BY <2>3, <3>1, <3>3, <3>4, <3>5, <3>6
  <2> QED
    BY <2>4
<1> QED
  BY <1>1, BallotsInvariant, GovernanceCalls, PTL DEF OneVoteEach

\* Once executed, rejected or expired, a proposal stays as it is: no later vote,
\* expiry sweep or proposal touches it.
THEOREM DecisionsAreFinal == Gov!Spec => Gov!DecisionIsFinal
<1> DEFINE Final == \A id \in 1..Len(proposals) :
                      proposals[id].state # "Pending" => proposals'[id] = proposals[id]
<1>1. ProposalsOK /\ [Gov!Next]_Gov!vars => [Final]_Gov!vars
  <2> SUFFICES ASSUME ProposalsOK, [Gov!Next]_Gov!vars,
                      NEW k \in 1..Len(proposals), proposals[k].state # "Pending"
               PROVE  proposals'[k] = proposals[k]
    OBVIOUS
  <2>1. ASSUME NEW proposer \in Candidate, NEW target \in Candidate,
               NEW kind \in {"Add", "Remove"}, Gov!Propose(proposer, kind, target)
        PROVE  proposals'[k] = proposals[k]
    <3> DEFINE p == Gov!NewProposal(proposer, kind, target)
               ps == Append(proposals, p)
    <3>1. p \in Gov!Proposal
      BY ValidatorManagerAssumption DEF Gov!NewProposal, Gov!Proposal, Gov!ProposalState,
                                        ProposalsOK
    <3> HIDE DEF p
    <3>2. /\ ps \in Seq(Gov!Proposal) /\ Len(ps) \in 1..Len(ps)
          /\ ps[k] = proposals[k] /\ k # Len(ps)
      BY <3>1 DEF ProposalsOK
    <3> HIDE DEF ps
    <3>3. CASE Gov!CheckAndExecute(ps, Len(ps))
      <4>1. PICK st \in Gov!ProposalState : proposals' = [ps EXCEPT ![Len(ps)].state = st]
        BY <3>2, <3>3, CheckAndExecuteProposals
      <4> QED
        BY <4>1, <3>2
    <3>4. CASE proposals' = ps
      BY <3>4, <3>2
    <3> QED
      BY <2>1, <3>3, <3>4 DEF Gov!Propose, ps, p
  <2>2. ASSUME NEW id \in 1..Len(proposals), NEW voter \in Candidate,
               NEW approve \in BOOLEAN, Gov!Vote(id, voter, approve)
        PROVE  proposals'[k] = proposals[k]
    <3>1. k # id
      BY <2>2 DEF Gov!Vote, Gov!MayVote
    <3> QED
      BY <2>2, <3>1 DEF Gov!Vote, Gov!CheckAndExecute, ProposalsOK
  <2>3. CASE Gov!ExpireProposals
    BY <2>3 DEF Gov!ExpireProposals, ProposalsOK
  <2>4. CASE Gov!NextBlock
    BY <2>4 DEF Gov!NextBlock
  <2>5. CASE UNCHANGED Gov!vars
    BY <2>5 DEF Gov!vars
  <2> QED
    BY <2>1, <2>2, <2>3, <2>4, <2>5 DEF Gov!Next
<1>2. Gov!Spec => []ProposalsOK
  BY BallotsInvariant, PTL
<1> QED
  BY <1>1, <1>2, PTL DEF Gov!Spec, Gov!DecisionIsFinal

-----------------------------------------------------------------------------
(* Sequences of addresses                                                  *)

\* A set of naturals that is not empty has a least element.
LEMMA LeastElement ==
  ASSUME NEW T \in SUBSET Nat, T # {}
  PROVE  \E x \in T : \A y \in T : x <= y
<1>1. IsWellFoundedOn(OpToRel(<, Nat), Nat)
  BY NatLessThanWellFounded
<1>2. \E x \in T : \A y \in T : ~(<<y, x>> \in OpToRel(<, Nat))
  BY <1>1, WFMin
<1>3. \A x, y \in Nat : y < x => <<y, x>> \in OpToRel(<, Nat)
  BY Zenon DEF OpToRel
<1>4. \E x \in T : \A y \in T : ~(y < x)
  BY <1>2, <1>3, Zenon
<1> QED
  BY <1>4

\* The positions of a list of length n.
LEMMA IntervalCard ==
  ASSUME NEW n \in Nat
  PROVE  IsFiniteSet(1..n) /\ Cardinality(1..n) = n
<1>1. 1 \in Int /\ n \in Int
  OBVIOUS
<1>2. IsFiniteSet(1..n) /\ Cardinality(1..n) = IF 1 > n THEN 0 ELSE n - 1 + 1
  BY <1>1, FS_Interval
<1> QED
  BY <1>2

\* The positions that retain keeps can be counted off, from the first to the last.
LEMMA NthExists ==
  ASSUME NEW n \in Nat, NEW K \in SUBSET (1..n), NEW k \in 1..Cardinality(K)
  PROVE  \E i \in K : Cardinality(K \cap (1..i)) = k
<1>1. IsFiniteSet(K) /\ Cardinality(K) \in Nat
  <2>1. IsFiniteSet(1..n)
    BY FS_Interval
  <2>2. IsFiniteSet(K)
    BY <2>1, FS_Subset
  <2> QED
    BY <2>2, FS_CardinalityType
<1>2. PICK count : count = [i \in Nat |-> Cardinality(K \cap (1..i))]
  OBVIOUS
<1>3. \A i \in Nat : IsFiniteSet(K \cap (1..i))
  <2>1. \A i \in Nat : (K \cap (1..i)) \in SUBSET K
    OBVIOUS
  <2> QED
    BY <1>1, <2>1, FS_Subset
<1>4. count \in [Nat -> Nat]
  BY <1>2, <1>3, FS_CardinalityType
<1>5. count[0] = 0
  <2>1. K \cap (1..0) = {}
    OBVIOUS
  <2> QED
    BY <1>2, <2>1, FS_EmptySet
<1>6. count[n] = Cardinality(K)
  <2>1. K \cap (1..n) = K
    OBVIOUS
  <2> QED
    BY <1>2, <2>1
<1>7. ASSUME NEW i \in Nat \ {0} PROVE count[i] = count[i - 1] + (IF i \in K THEN 1 ELSE 0)
  <2>1. i - 1 \in Nat /\ IsFiniteSet(K \cap (1..(i - 1))) /\ i \notin K \cap (1..(i - 1))
    BY <1>3
  <2>2. CASE i \in K
    <3>1. K \cap (1..i) = (K \cap (1..(i - 1))) \cup {i}
      BY <2>2
    <3>2. Cardinality((K \cap (1..(i - 1))) \cup {i}) = Cardinality(K \cap (1..(i - 1))) + 1
      BY <2>1, FS_AddElement
    <3> QED
      BY <1>2, <2>1, <2>2, <3>1, <3>2
  <2>3. CASE i \notin K
    <3>1. K \cap (1..i) = K \cap (1..(i - 1))
      BY <2>3
    <3> QED
      BY <1>2, <1>4, <2>1, <2>3, <3>1
  <2> QED
    BY <2>2, <2>3
<1>8. PICK i \in {j \in Nat : count[j] >= k} : \A j \in {j \in Nat : count[j] >= k} : i <= j
  <2>1. n \in {j \in Nat : count[j] >= k}
    BY <1>1, <1>6
  <2>2. {j \in Nat : count[j] >= k} \in SUBSET Nat
    OBVIOUS
  <2> QED
    BY <2>1, <2>2, LeastElement
<1>9. i \in Nat \ {0} /\ count[i] >= k
  BY <1>1, <1>5, <1>8
<1>10. i - 1 \in Nat /\ count[i - 1] < k
  BY <1>1, <1>4, <1>8, <1>9
<1>11. count[i] = count[i - 1] + (IF i \in K THEN 1 ELSE 0)
  BY <1>7, <1>9
<1>12. i \in K /\ count[i] = k
  BY <1>1, <1>4, <1>9, <1>10, <1>11
<1> QED
  BY <1>2, <1>9, <1>12

\* The manager counts as FiniteSets does.
LEMMA GovernanceCounts == \A set : Gov!Cardinality(set) = Cardinality(set)
BY Zenon DEF Gov!Cardinality, Cardinality

\* retain drops the target and nothing else: from a list without repetitions it
\* makes one without repetitions that is shorter by one.
LEMMA RetainFacts ==
  ASSUME NEW vs \in Seq(Candidate), NEW target \in Candidate
  PROVE  /\ Gov!Retain(vs, target) \in Seq(Candidate)
         /\ Gov!Distinct(vs) => Gov!Distinct(Gov!Retain(vs, target))
         /\ Gov!Distinct(vs) /\ target \in Gov!Elements(vs) => Len(Gov!Retain(vs, target)) = Len(vs) - 1
<1>1. PICK keep : keep = {i \in 1..Len(vs) : vs[i] # target}
  OBVIOUS
<1>2. PICK nth : nth = [k \in 1..Cardinality(keep) |->
                          CHOOSE i \in keep : Gov!Cardinality(keep \cap (1..i)) = k]
  OBVIOUS
<1>3. Gov!Retain(vs, target) = [k \in 1..Cardinality(keep) |-> vs[nth[k]]]
  BY <1>1, <1>2, GovernanceCounts DEF Gov!Retain
<1>4. Len(vs) \in Nat /\ keep \in SUBSET (1..Len(vs))
  BY <1>1
<1>5. IsFiniteSet(1..Len(vs)) /\ Cardinality(1..Len(vs)) = Len(vs) /\ Cardinality(keep) \in Nat
  <2>1. IsFiniteSet(1..Len(vs)) /\ Cardinality(1..Len(vs)) = Len(vs)
    BY <1>4, IntervalCard
  <2>2. IsFiniteSet(keep)
    BY <1>4, <2>1, FS_Subset
  <2> QED
    BY <2>1, <2>2, FS_CardinalityType
<1>6. \A k \in 1..Cardinality(keep) : nth[k] \in keep /\ Cardinality(keep \cap (1..nth[k])) = k
  <2> SUFFICES ASSUME NEW k \in 1..Cardinality(keep)
               PROVE  nth[k] \in keep /\ Cardinality(keep \cap (1..nth[k])) = k
    OBVIOUS
  <2>1. \E i \in keep : Cardinality(keep \cap (1..i)) = k
    BY <1>4, NthExists
  <2>2. nth[k] = CHOOSE i \in keep : Gov!Cardinality(keep \cap (1..i)) = k
    BY <1>2
  <2>3. \E i \in keep : Gov!Cardinality(keep \cap (1..i)) = k
    BY <2>1, GovernanceCounts
  <2> QED
    BY <2>2, <2>3, GovernanceCounts
<1>7. PICK r : r = Gov!Retain(vs, target)
  OBVIOUS
<1>8. r \in Seq(Candidate) /\ Len(r) = Cardinality(keep) /\ \A k \in 1..Len(r) : r[k] = vs[nth[k]]
  <2>1. \A k \in 1..Cardinality(keep) : vs[nth[k]] \in Candidate
    <3>1. \A i \in 1..Len(vs) : vs[i] \in Candidate
      OBVIOUS
    <3>2. \A k \in 1..Cardinality(keep) : nth[k] \in 1..Len(vs)
      BY <1>4, <1>6
    <3> QED
      BY <3>1, <3>2
  <2>2. r = [k \in 1..Cardinality(keep) |-> vs[nth[k]]]
    BY <1>3, <1>7
  <2> QED
    BY <1>5, <2>1, <2>2
<1>9. ASSUME Gov!Distinct(vs) PROVE Gov!Distinct(r)
  <2> SUFFICES ASSUME NEW k \in 1..Len(r), NEW l \in 1..Len(r), r[k] = r[l] PROVE k = l
    BY DEF Gov!Distinct
  <2>1. nth[k] \in 1..Len(vs) /\ nth[l] \in 1..Len(vs) /\ vs[nth[k]] = vs[nth[l]]
    BY <1>4, <1>6, <1>8
  <2>2. nth[k] = nth[l]
    BY <1>9, <2>1 DEF Gov!Distinct
  <2>3. k = Cardinality(keep \cap (1..nth[k])) /\ l = Cardinality(keep \cap (1..nth[l]))
    BY <1>6, <1>8
  <2> QED
    BY <2>2, <2>3
<1>10. ASSUME Gov!Distinct(vs), target \in Gov!Elements(vs) PROVE Len(r) = Len(vs) - 1
  <2>1. PICK p \in 1..Len(vs) : vs[p] = target
    BY <1>10 DEF Gov!Elements
  <2>2. keep = (1..Len(vs)) \ {p}
    BY <1>1, <1>10, <2>1 DEF Gov!Distinct
  <2>3. Cardinality((1..Len(vs)) \ {p}) = Len(vs) - 1
    BY <1>5, <2>1, FS_RemoveElement
  <2> QED
    BY <1>8, <2>2, <2>3
<1> QED
  BY <1>7, <1>8, <1>9, <1>10

\* A list without repetitions has as many elements as positions.
LEMMA DistinctCardinality ==
  ASSUME NEW s \in Seq(Candidate), Gov!Distinct(s)
  PROVE  IsFiniteSet(Gov!Elements(s)) /\ Cardinality(Gov!Elements(s)) = Len(s)
<1>1. Len(s) \in Nat /\ s \in [1..Len(s) -> Gov!Elements(s)]
  BY DEF Gov!Elements
<1>2. s \in Bijection(1..Len(s), Gov!Elements(s))
  BY <1>1 DEF Gov!Distinct, Gov!Elements, Bijection, Injection, Surjection, IsInjective
<1>3. ExistsBijection(1..Len(s), Gov!Elements(s))
  BY <1>2 DEF ExistsBijection
<1> QED
  BY <1>1, <1>3, FS_CountingElements, FS_NatBijection

\* Appending an address.
LEMMA AppendFacts ==
  ASSUME NEW s \in Seq(Candidate), NEW a \in Candidate
  PROVE  /\ Append(s, a) \in Seq(Candidate) /\ Gov!Elements(Append(s, a)) = Gov!Elements(s) \cup {a}
         /\ Gov!Distinct(s) /\ a \notin Gov!Elements(s) => Gov!Distinct(Append(s, a))
<1> PICK u : u = Append(s, a)
  OBVIOUS
<1>1. /\ u \in Seq(Candidate) /\ Len(u) = Len(s) + 1 /\ Len(s) \in Nat
      /\ \A i \in 1..Len(s) : u[i] = s[i]
      /\ u[Len(s) + 1] = a
  BY AppendElements
<1>2. \A i \in 1..Len(u) : i \in 1..Len(s) \/ i = Len(s) + 1
  BY <1>1
<1>3. 1..Len(u) = (1..Len(s)) \cup {Len(s) + 1}
  BY <1>1
<1>4. Gov!Elements(u) = Gov!Elements(s) \cup {a}
  BY <1>1, <1>3 DEF Gov!Elements
<1>5. ASSUME Gov!Distinct(s), a \notin Gov!Elements(s) PROVE Gov!Distinct(u)
  BY <1>1, <1>2, <1>5 DEF Gov!Distinct, Gov!Elements
<1> QED
  BY <1>1, <1>4, <1>5

\* A rounded-up quorum is at least the fraction it rounds.
LEMMA QuorumIsEnough ==
  ASSUME NEW total \in Nat, NEW votes \in Nat,
         votes >= (total * quorum_numerator + quorum_denominator - 1) \div quorum_denominator
  PROVE  votes * quorum_denominator >= total * quorum_numerator
<1> PICK d, a : d = quorum_denominator /\ a = total * quorum_numerator
  OBVIOUS
<1>1. d \in Nat \ {0} /\ a \in Nat
  BY ValidatorManagerAssumption
<1>2. PICK q : q = (a + d - 1) \div d
  OBVIOUS
<1>3. q \in Nat /\ d * q + ((a + d - 1) % d) = a + d - 1 /\ (a + d - 1) % d \in 0..(d - 1)
  BY <1>1, <1>2
<1>4. q * d >= a
  BY <1>1, <1>3
<1>5. votes >= q /\ (votes - q) \in Nat
  BY <1>2, <1>3
<1>6. votes * d = q * d + (votes - q) * d /\ (votes - q) * d >= 0
  BY <1>1, <1>3, <1>5
<1> QED
  BY <1>1, <1>3, <1>4, <1>6

-----------------------------------------------------------------------------
(* What a step does                                                        *)

\* What check_and_execute does to the proposals and to the validators.
LEMMA CheckAndExecuteOutcome ==
  ASSUME NEW ps \in Seq(Gov!Proposal), NEW id \in 1..Len(ps), Gov!CheckAndExecute(ps, id)
  PROVE  /\ Len(proposals') = Len(ps)
         /\ \A i \in 1..Len(ps) : i # id => proposals'[i] = ps[i]
         /\ proposals'[id].proposal_type = ps[id].proposal_type
         /\ proposals'[id].target = ps[id].target
         /\ proposals'[id].votes_for = ps[id].votes_for
         /\ proposals'[id].votes_against = ps[id].votes_against
         /\ \/ /\ Len(ps[id].votes_for) >= Gov!QuorumThreshold
               /\ proposals'[id].state = "Executed"
               /\ validators' = Gov!Change(validators, ps[id].proposal_type, ps[id].target)
            \/ /\ Len(ps[id].votes_for) < Gov!QuorumThreshold
               /\ proposals'[id].state \in {"Rejected", ps[id].state}
               /\ validators' = validators
<1>1. ps[id] \in Gov!Proposal
  OBVIOUS
<1>2. \A st : /\ [ps[id] EXCEPT !.state = st].proposal_type = ps[id].proposal_type
              /\ [ps[id] EXCEPT !.state = st].target = ps[id].target
              /\ [ps[id] EXCEPT !.state = st].votes_for = ps[id].votes_for
              /\ [ps[id] EXCEPT !.state = st].votes_against = ps[id].votes_against
              /\ [ps[id] EXCEPT !.state = st].state = st
  BY <1>1 DEF Gov!Proposal
<1>3. ASSUME NEW st, proposals' = [ps EXCEPT ![id].state = st]
      PROVE  /\ Len(proposals') = Len(ps)
             /\ \A i \in 1..Len(ps) : i # id => proposals'[i] = ps[i]
             /\ proposals'[id] = [ps[id] EXCEPT !.state = st]
  BY <1>3
<1>4. CASE /\ Len(ps[id].votes_for) >= Gov!QuorumThreshold
           /\ proposals' = [ps EXCEPT ![id].state = "Executed"]
           /\ validators' = Gov!Change(validators, ps[id].proposal_type, ps[id].target)
  BY <1>2, <1>3, <1>4
<1>5. CASE /\ Len(ps[id].votes_for) < Gov!QuorumThreshold
           /\ proposals' = [ps EXCEPT ![id].state = "Rejected"]
           /\ validators' = validators
  BY <1>2, <1>3, <1>5
<1>6. CASE /\ Len(ps[id].votes_for) < Gov!QuorumThreshold
           /\ proposals' = ps
           /\ validators' = validators
  BY <1>6
<1> QED
  BY <1>4, <1>5, <1>6 DEF Gov!CheckAndExecute

\* ps is the list of proposals with the new one, id, at its end, and the step
\* counts its only vote.
Proposed(ps, id, proposer, kind, target) ==
  /\ id = Len(proposals) + 1 /\ Len(ps) = Len(proposals) + 1
  /\ \A i \in 1..Len(proposals) : ps[i] = proposals[i]
  /\ ps[id].proposal_type = kind /\ ps[id].target = target
  /\ ps[id].votes_for = <<proposer>> /\ ps[id].state = "Pending"
  /\ \/ Gov!QuorumThreshold <= 1 /\ Gov!CheckAndExecute(ps, id)
     \/ Gov!QuorumThreshold > 1 /\ proposals' = ps /\ validators' = validators /\ history' = history

\* What propose adds.
LEMMA ProposeOutcome ==
  ASSUME ProposalsOK, NEW proposer \in Candidate, NEW kind \in {"Add", "Remove"}, NEW target \in Candidate,
         Gov!Propose(proposer, kind, target)
  PROVE  \E ps \in Seq(Gov!Proposal) : \E id \in 1..Len(ps) :
           Proposed(ps, id, proposer, kind, target)
<1>1. PICK p : p = Gov!NewProposal(proposer, kind, target)
  OBVIOUS
<1>2. PICK ps : ps = Append(proposals, p)
  OBVIOUS
<1>3. p \in Gov!Proposal
  BY <1>1, ValidatorManagerAssumption DEF Gov!NewProposal, Gov!Proposal,
                                          Gov!ProposalState, ProposalsOK
<1>4. /\ p.proposal_type = kind /\ p.target = target /\ p.votes_for = <<proposer>>
      /\ p.state = "Pending"
  BY <1>1 DEF Gov!NewProposal
<1>5. PICK id : id = Len(proposals) + 1
  OBVIOUS
<1>6. /\ ps \in Seq(Gov!Proposal) /\ Len(ps) = id /\ id \in 1..Len(ps)
      /\ \A i \in 1..Len(proposals) : ps[i] = proposals[i]
      /\ ps[id] = p
  BY <1>2, <1>3, <1>5 DEF ProposalsOK
<1>7. \/ Gov!QuorumThreshold <= 1 /\ Gov!CheckAndExecute(ps, id)
      \/ Gov!QuorumThreshold > 1 /\ proposals' = ps /\ validators' = validators /\ history' = history
  <2>1. \/ Gov!QuorumThreshold <= 1 /\ Gov!CheckAndExecute(ps, Len(ps))
        \/ Gov!QuorumThreshold > 1 /\ proposals' = ps /\ validators' = validators /\ history' = history
    BY <1>1, <1>2 DEF Gov!Propose
  <2> QED
    BY <1>6, <2>1
<1> QED
  BY <1>4, <1>5, <1>6, <1>7 DEF Proposed

\* What a vote adds before it is counted.
LEMMA VoteOutcome ==
  ASSUME ProposalsOK, NEW id \in 1..Len(proposals), NEW voter \in Candidate, NEW approve \in BOOLEAN,
         Gov!Vote(id, voter, approve)
  PROVE  \E ps \in Seq(Gov!Proposal) :
           /\ Len(ps) = Len(proposals)
           /\ \A i \in 1..Len(ps) : i # id => ps[i] = proposals[i]
           /\ ps[id].proposal_type = proposals[id].proposal_type
           /\ ps[id].target = proposals[id].target
           /\ ps[id].state = "Pending"
           /\ \/ /\ ps[id].votes_for = Append(proposals[id].votes_for, voter)
                 /\ ps[id].votes_against = proposals[id].votes_against
              \/ ps[id].votes_for = proposals[id].votes_for
           /\ Gov!CheckAndExecute(ps, id)
<1>1. PICK q : q = proposals[id]
  OBVIOUS
<1>2. q \in Gov!Proposal /\ q.state = "Pending"
  BY <1>1 DEF ProposalsOK, Gov!Vote, Gov!MayVote
<1>3. q.votes_for \in Seq(Candidate) /\ q.votes_against \in Seq(Candidate)
  BY <1>2 DEF Gov!Proposal
<1>4. Append(q.votes_for, voter) \in Seq(Candidate) /\ Append(q.votes_against, voter) \in Seq(Candidate)
  BY <1>3
<1>5. CASE approve
  <2>1. PICK p : p = [q EXCEPT !.votes_for = Append(q.votes_for, voter)]
    OBVIOUS
  <2>2. /\ p \in Gov!Proposal /\ p.state = "Pending" /\ p.proposal_type = q.proposal_type
        /\ p.target = q.target /\ p.votes_for = Append(q.votes_for, voter)
        /\ p.votes_against = q.votes_against
    BY <1>2, <1>4, <2>1 DEF Gov!Proposal
  <2>3. PICK ps : ps = [proposals EXCEPT ![id] = p]
    OBVIOUS
  <2>4. /\ ps \in Seq(Gov!Proposal) /\ Len(ps) = Len(proposals) /\ ps[id] = p
        /\ \A i \in 1..Len(ps) : i # id => ps[i] = proposals[i]
    BY <2>2, <2>3 DEF ProposalsOK
  <2>5. Gov!CheckAndExecute(ps, id)
    <3>1. ps = [proposals EXCEPT ![id].votes_for = Append(@, voter)]
      BY <1>1, <2>1, <2>3 DEF ProposalsOK
    <3> QED
      BY <1>5, <3>1 DEF Gov!Vote
  <2> QED
    BY <1>1, <2>2, <2>4, <2>5
<1>6. CASE ~approve
  <2>1. PICK p : p = [q EXCEPT !.votes_against = Append(q.votes_against, voter)]
    OBVIOUS
  <2>2. /\ p \in Gov!Proposal /\ p.state = "Pending" /\ p.proposal_type = q.proposal_type
        /\ p.target = q.target /\ p.votes_for = q.votes_for
    BY <1>2, <1>4, <2>1 DEF Gov!Proposal
  <2>3. PICK ps : ps = [proposals EXCEPT ![id] = p]
    OBVIOUS
  <2>4. /\ ps \in Seq(Gov!Proposal) /\ Len(ps) = Len(proposals) /\ ps[id] = p
        /\ \A i \in 1..Len(ps) : i # id => ps[i] = proposals[i]
    BY <2>2, <2>3 DEF ProposalsOK
  <2>5. Gov!CheckAndExecute(ps, id)
    <3>1. ps = [proposals EXCEPT ![id].votes_against = Append(@, voter)]
      BY <1>1, <2>1, <2>3 DEF ProposalsOK
    <3> QED
      BY <1>6, <3>1 DEF Gov!Vote
  <2> QED
    BY <1>1, <2>2, <2>4, <2>5
<1> QED
  BY <1>5, <1>6

\* An expiry sweep leaves everything but states alone, and executes nothing.
LEMMA ExpireOutcome ==
  ASSUME ProposalsOK, Gov!ExpireProposals
  PROVE  /\ Len(proposals') = Len(proposals) /\ UNCHANGED <<validators, history, block, proposal_overlap>>
         /\ \A i \in 1..Len(proposals) :
              /\ proposals'[i].proposal_type = proposals[i].proposal_type
              /\ proposals'[i].target = proposals[i].target
              /\ proposals'[i].votes_for = proposals[i].votes_for
              /\ proposals'[i].state \in {"Expired", proposals[i].state}
<1>1. Len(proposals') = Len(proposals) /\ UNCHANGED <<validators, history, block, proposal_overlap>>
  BY DEF Gov!ExpireProposals, ProposalsOK
<1>2. ASSUME NEW i \in 1..Len(proposals)
      PROVE  /\ proposals'[i].proposal_type = proposals[i].proposal_type
             /\ proposals'[i].target = proposals[i].target
             /\ proposals'[i].votes_for = proposals[i].votes_for
             /\ proposals'[i].state \in {"Expired", proposals[i].state}
  <2>1. PICK q : q = proposals[i]
    OBVIOUS
  <2>2. q \in Gov!Proposal
    BY <2>1 DEF ProposalsOK
  <2>3. proposals'[i] = q \/ proposals'[i] = [q EXCEPT !.state = "Expired"]
    BY <2>1 DEF Gov!ExpireProposals
  <2> QED
    BY <2>1, <2>2, <2>3 DEF Gov!Proposal
<1> QED
  BY <1>1, <1>2

-----------------------------------------------------------------------------
(* One proposal at a time                                                  *)

\* A change that is admissible when it is made keeps the list of validators
\* without repetitions and within the limits.
LEMMA ChangeKeepsLimits ==
  ASSUME validators \in Seq(Candidate), NEW kind \in {"Add", "Remove"}, NEW target \in Candidate
  PROVE  /\ Gov!Change(validators, kind, target) \in Seq(Candidate)
         /\ /\ Gov!Distinct(validators) /\ Gov!Admissible(kind, target)
            /\ Len(validators) >= min_validators /\ Len(validators) <= max_validators
            => /\ Gov!Distinct(Gov!Change(validators, kind, target))
               /\ Len(Gov!Change(validators, kind, target)) >= min_validators
               /\ Len(Gov!Change(validators, kind, target)) <= max_validators
<1>1. /\ Append(validators, target) \in Seq(Candidate)
      /\ Gov!Distinct(validators) /\ target \notin Gov!Elements(validators)
           => Gov!Distinct(Append(validators, target))
  BY AppendFacts
<1>2. Len(Append(validators, target)) = Len(validators) + 1 /\ Len(validators) \in Nat
  OBVIOUS
<1>3. /\ Gov!Retain(validators, target) \in Seq(Candidate)
      /\ Gov!Distinct(validators) => Gov!Distinct(Gov!Retain(validators, target))
      /\ Gov!Distinct(validators) /\ target \in Gov!Elements(validators)
           => Len(Gov!Retain(validators, target)) = Len(validators) - 1
  BY RetainFacts
<1>4. min_validators \in Nat /\ max_validators \in Nat
  BY ValidatorManagerAssumption
<1>5. CASE kind = "Add"
  <2>1. Gov!Change(validators, kind, target) = Append(validators, target)
    BY <1>5 DEF Gov!Change
  <2>2. Gov!Admissible(kind, target) => target \notin Gov!Elements(validators) /\ Len(validators) < max_validators
    BY <1>5 DEF Gov!Admissible, Gov!IsValidator
  <2> QED
    BY <1>1, <1>2, <1>4, <2>1, <2>2
<1>6. CASE kind = "Remove"
  <2>1. Gov!Change(validators, kind, target) = Gov!Retain(validators, target)
    BY <1>6 DEF Gov!Change
  <2>2. Gov!Admissible(kind, target) => target \in Gov!Elements(validators) /\ Len(validators) > min_validators
    BY <1>6 DEF Gov!Admissible, Gov!IsValidator
  <2> QED
    BY <1>2, <1>3, <1>4, <2>1, <2>2
<1> QED
  BY <1>5, <1>6

\* check_and_execute on the only pending proposal: when the quorum is there the
\* change is made and nothing is pending, otherwise the proposal stays sound.
LEMMA CountingKeepsSound ==
  ASSUME validators \in Seq(Candidate), NEW ps \in Seq(Gov!Proposal), NEW id \in 1..Len(ps),
         Gov!CheckAndExecute(ps, id),
         Gov!Distinct(validators),
         Len(validators) >= min_validators, Len(validators) <= max_validators,
         Gov!Admissible(ps[id].proposal_type, ps[id].target),
         Gov!Elements(ps[id].votes_for) \subseteq Gov!Elements(validators),
         \A i \in 1..Len(ps) : i # id => ps[i].state # "Pending"
  PROVE  Gov!OneSoundProposal'
<1>1. PICK p : p = ps[id]
  OBVIOUS
<1>2. p \in Gov!Proposal
  BY <1>1
<1>3. p.proposal_type \in {"Add", "Remove"} /\ p.target \in Candidate
  BY <1>2 DEF Gov!Proposal
<1>4. /\ Len(proposals') = Len(ps)
      /\ \A i \in 1..Len(ps) : i # id => proposals'[i] = ps[i]
      /\ proposals'[id].proposal_type = p.proposal_type
      /\ proposals'[id].target = p.target
      /\ proposals'[id].votes_for = p.votes_for
      /\ \/ /\ proposals'[id].state = "Executed"
            /\ validators' = Gov!Change(validators, p.proposal_type, p.target)
         \/ /\ Len(p.votes_for) < Gov!QuorumThreshold
            /\ validators' = validators
  BY <1>1, CheckAndExecuteOutcome
<1>5. Gov!Pending' \subseteq {id}
  BY <1>4 DEF Gov!Pending
<1>6. CASE /\ proposals'[id].state = "Executed"
           /\ validators' = Gov!Change(validators, p.proposal_type, p.target)
  <2>1. Gov!Pending' = {}
    BY <1>5, <1>6 DEF Gov!Pending
  <2>2. PICK vs : vs = Gov!Change(validators, p.proposal_type, p.target)
    OBVIOUS
  <2>3. Gov!Distinct(vs) /\ Len(vs) >= min_validators /\ Len(vs) <= max_validators
    BY <1>1, <1>3, <2>2, ChangeKeepsLimits
  <2>4. validators' = vs
    BY <1>6, <2>2
  <2> QED
    BY <2>1, <2>3, <2>4 DEF Gov!OneSoundProposal
<1>7. CASE Len(p.votes_for) < Gov!QuorumThreshold /\ validators' = validators
  <2>1. Gov!Admissible(p.proposal_type, p.target)' /\ Gov!QuorumThreshold' = Gov!QuorumThreshold
    BY <1>1, <1>7 DEF Gov!Admissible, Gov!IsValidator, Gov!QuorumThreshold
  <2> QED
    BY <1>1, <1>4, <1>5, <1>7, <2>1 DEF Gov!OneSoundProposal
<1> QED
  BY <1>4, <1>6, <1>7

\* Votes of distinct validators that reach the threshold are the fraction of the
\* validators that the configuration asks for.
LEMMA QuorumOfDistinctVotes ==
  ASSUME validators \in Seq(Candidate), Gov!Distinct(validators),
         NEW votes \in Seq(Candidate), Gov!Distinct(votes),
         Gov!Elements(votes) \subseteq Gov!Elements(validators), Len(votes) >= Gov!QuorumThreshold
  PROVE  Cardinality(Gov!Elements(votes) \cap Gov!Elements(validators)) * quorum_denominator
           >= Cardinality(Gov!Elements(validators)) * quorum_numerator
<1>1. Cardinality(Gov!Elements(validators)) = Len(validators) /\ Len(validators) \in Nat
  BY DistinctCardinality
<1>2. Cardinality(Gov!Elements(votes)) = Len(votes) /\ Len(votes) \in Nat
  BY DistinctCardinality
<1>3. Gov!Elements(votes) \cap Gov!Elements(validators) = Gov!Elements(votes)
  OBVIOUS
<1>4. Len(votes) * quorum_denominator >= Len(validators) * quorum_numerator
  BY <1>1, <1>2, QuorumIsEnough DEF Gov!QuorumThreshold
<1> QED
  BY <1>1, <1>2, <1>3, <1>4

\* A change and its record have their types.
LEMMA CheckAndExecuteTypes ==
  ASSUME Gov!TypeOK, NEW ps \in Seq(Gov!Proposal), NEW id \in 1..Len(ps), Gov!CheckAndExecute(ps, id)
  PROVE  /\ validators' \in Seq(Candidate)
         /\ history' \in Seq([block : Nat, proposal_type : {"Add", "Remove"}, target : Candidate])
<1>1. PICK p : p = ps[id]
  OBVIOUS
<1>2. p \in Gov!Proposal
  BY <1>1
<1>3. p.proposal_type \in {"Add", "Remove"} /\ p.target \in Candidate
  BY <1>2 DEF Gov!Proposal
<1>4. Gov!Change(validators, p.proposal_type, p.target) \in Seq(Candidate)
  BY <1>3, ChangeKeepsLimits DEF Gov!TypeOK
<1>5. PICK e : e = [block |-> block, proposal_type |-> p.proposal_type, target |-> p.target]
  OBVIOUS
<1>6. e \in [block : Nat, proposal_type : {"Add", "Remove"}, target : Candidate]
  BY <1>3, <1>5 DEF Gov!TypeOK
<1>7. \/ validators' = Gov!Change(validators, p.proposal_type, p.target) /\ history' = Append(history, e)
      \/ validators' = validators /\ history' = history
  BY <1>1, <1>5 DEF Gov!CheckAndExecute
<1>8. PICK Record : Record = [block : Nat, proposal_type : {"Add", "Remove"}, target : Candidate]
  OBVIOUS
<1>9. history \in Seq(Record) /\ e \in Record /\ validators \in Seq(Candidate)
  BY <1>6, <1>8 DEF Gov!TypeOK
<1>10. validators' \in Seq(Candidate) /\ history' \in Seq(Record)
  <2>1. Append(history, e) \in Seq(Record)
    BY <1>9
  <2> QED
    BY <1>4, <1>7, <1>9, <2>1, Zenon
<1> QED
  BY <1>8, <1>10

\* Every operation keeps the types, for every configuration and however the
\* proposals overlap.
THEOREM TypesHold == Gov!Spec => []Gov!TypeOK
<1>1. Gov!Init => Gov!TypeOK
  <2>1. \A S : <<>> \in Seq(S)
    OBVIOUS
  <2>2. 0 \in Nat
    OBVIOUS
  <2> QED
    BY <2>1, <2>2, ValidatorManagerAssumption, Zenon DEF Gov!Init, Gov!TypeOK
<1>2. Gov!TypeOK /\ ProposalsOK' /\ [Gov!Next]_Gov!vars => Gov!TypeOK'
  <2> SUFFICES ASSUME Gov!TypeOK, ProposalsOK', [Gov!Next]_Gov!vars PROVE Gov!TypeOK'
    OBVIOUS
  <2> USE ValidatorManagerAssumption
  <2>1. ProposalsOK
    BY DEF Gov!TypeOK, ProposalsOK
  <2>2. SUFFICES /\ validators' \in Seq(Candidate)
                 /\ history' \in Seq([block : Nat, proposal_type : {"Add", "Remove"}, target : Candidate])
                 /\ proposal_overlap' \in BOOLEAN
    BY DEF Gov!TypeOK, ProposalsOK
  <2>3. ASSUME NEW proposer \in Candidate, NEW target \in Candidate,
               NEW kind \in {"Add", "Remove"}, Gov!Propose(proposer, kind, target)
        PROVE  /\ validators' \in Seq(Candidate)
               /\ history' \in Seq([block : Nat, proposal_type : {"Add", "Remove"}, target : Candidate])
    <3>1. PICK ps \in Seq(Gov!Proposal) : \E id \in 1..Len(ps) :
                 Proposed(ps, id, proposer, kind, target)
      BY <2>1, <2>3, ProposeOutcome
    <3> QED
      BY <3>1, CheckAndExecuteTypes DEF Gov!TypeOK, Proposed
  <2>4. ASSUME NEW id \in 1..Len(proposals), NEW voter \in Candidate,
               NEW approve \in BOOLEAN, Gov!Vote(id, voter, approve)
        PROVE  /\ validators' \in Seq(Candidate)
               /\ history' \in Seq([block : Nat, proposal_type : {"Add", "Remove"}, target : Candidate])
    <3>1. PICK ps \in Seq(Gov!Proposal) : Len(ps) = Len(proposals) /\ Gov!CheckAndExecute(ps, id)
      BY <2>1, <2>4, VoteOutcome
    <3> QED
      BY <3>1, CheckAndExecuteTypes
  <2>5. proposal_overlap' \in BOOLEAN
    BY DEF Gov!TypeOK, Gov!Next, Gov!Propose, Gov!Vote, Gov!ExpireProposals,
           Gov!NextBlock, Gov!vars
  <2>6. CASE Gov!ExpireProposals
    BY <2>5, <2>6 DEF Gov!ExpireProposals, Gov!TypeOK
  <2>7. CASE Gov!NextBlock
    BY <2>5, <2>7 DEF Gov!NextBlock, Gov!TypeOK
  <2>8. CASE UNCHANGED Gov!vars
    BY <2>5, <2>8 DEF Gov!vars, Gov!TypeOK
  <2> QED
    BY <2>3, <2>4, <2>5, <2>6, <2>7, <2>8 DEF Gov!Next
<1>3. Gov!Spec => []ProposalsOK
  BY BallotsInvariant, PTL
<1> QED
  BY <1>1, <1>2, <1>3, PTL DEF Gov!Spec

\* With one proposal at a time, what propose checked holds until the vote that
\* completes the quorum.
LEMMA GovernanceInvariant ==
  ASSUME Gov!InitialSetSound
  PROVE  Gov!Spec => []Gov!GovernanceInv
<1>1. Gov!Init => Gov!GovernanceInv
  BY DEF Gov!Init, Gov!InitialSetSound, Gov!GovernanceInv, Gov!OneSoundProposal, Gov!Pending
<1>2. Gov!TypeOK /\ Gov!GovernanceInv /\ [Gov!Next]_Gov!vars => Gov!GovernanceInv'
  <2> SUFFICES ASSUME Gov!TypeOK, Gov!GovernanceInv, [Gov!Next]_Gov!vars, ~proposal_overlap'
               PROVE Gov!OneSoundProposal'
    BY DEF Gov!GovernanceInv
  <2>1. ProposalsOK /\ validators \in Seq(Candidate)
    BY DEF Gov!TypeOK, ProposalsOK
  <2>2. ~proposal_overlap /\ Gov!OneSoundProposal
    BY DEF Gov!GovernanceInv, Gov!TypeOK, Gov!Next, Gov!Propose, Gov!Vote,
           Gov!ExpireProposals, Gov!NextBlock, Gov!vars
  <2>3. ASSUME NEW proposer \in Candidate, NEW target \in Candidate,
               NEW kind \in {"Add", "Remove"}, Gov!Propose(proposer, kind, target)
        PROVE  Gov!OneSoundProposal'
    <3>1. PICK ps \in Seq(Gov!Proposal) : \E id \in 1..Len(ps) : Proposed(ps, id, proposer, kind, target)
      BY <2>1, <2>3, ProposeOutcome
    <3>2. PICK id \in 1..Len(ps) :
                 /\ id = Len(proposals) + 1 /\ Len(ps) = Len(proposals) + 1
                 /\ \A i \in 1..Len(proposals) : ps[i] = proposals[i]
                 /\ ps[id].proposal_type = kind /\ ps[id].target = target
                 /\ ps[id].votes_for = <<proposer>> /\ ps[id].state = "Pending"
                 /\ \/ Gov!QuorumThreshold <= 1 /\ Gov!CheckAndExecute(ps, id)
                    \/ Gov!QuorumThreshold > 1 /\ proposals' = ps /\ validators' = validators
      BY <3>1 DEF Proposed
    <3>3. Gov!Pending = {} /\ proposer \in Gov!Elements(validators) /\ Gov!Admissible(kind, target)
      BY <2>3 DEF Gov!Propose, Gov!IsValidator, Gov!TypeOK
    <3>4. \A i \in 1..Len(ps) : i # id => ps[i].state # "Pending"
      <4>1. \A i \in 1..Len(ps) : i # id => i \in 1..Len(proposals)
        BY <2>1, <3>2 DEF ProposalsOK
      <4> QED
        BY <3>2, <3>3, <4>1 DEF Gov!Pending
    <3>5. Gov!Elements(ps[id].votes_for) \subseteq Gov!Elements(validators) /\ Len(ps[id].votes_for) = 1
      <4>1. Gov!Elements(<<proposer>>) = {proposer} /\ Len(<<proposer>>) = 1
        BY DEF Gov!Elements
      <4> QED
        BY <3>2, <3>3, <4>1
    <3>6. /\ Gov!Distinct(validators)
          /\ Len(validators) >= min_validators /\ Len(validators) <= max_validators
      BY <2>2 DEF Gov!OneSoundProposal
    <3>7. CASE Gov!CheckAndExecute(ps, id)
      BY <2>1, <3>2, <3>3, <3>4, <3>5, <3>6, <3>7, CountingKeepsSound
    <3>8. CASE Gov!QuorumThreshold > 1 /\ proposals' = ps /\ validators' = validators
      <4>1. Gov!Pending' \subseteq {id}
        BY <3>4, <3>8 DEF Gov!Pending
      <4>2. Gov!Admissible(kind, target)' /\ Gov!QuorumThreshold' = Gov!QuorumThreshold
        BY <3>3, <3>8 DEF Gov!Admissible, Gov!IsValidator, Gov!QuorumThreshold
      <4>3. Len(ps[id].votes_for) < Gov!QuorumThreshold
        BY <3>5, <3>8
      <4> QED
        BY <3>2, <3>5, <3>6, <3>8, <4>1, <4>2, <4>3 DEF Gov!OneSoundProposal
    <3> QED
      BY <3>2, <3>7, <3>8
  <2>4. ASSUME NEW id \in 1..Len(proposals), NEW voter \in Candidate,
               NEW approve \in BOOLEAN, Gov!Vote(id, voter, approve)
        PROVE  Gov!OneSoundProposal'
    <3>1. PICK ps \in Seq(Gov!Proposal) :
                 /\ Len(ps) = Len(proposals)
                 /\ \A i \in 1..Len(ps) : i # id => ps[i] = proposals[i]
                 /\ ps[id].proposal_type = proposals[id].proposal_type
                 /\ ps[id].target = proposals[id].target
                 /\ \/ ps[id].votes_for = Append(proposals[id].votes_for, voter)
                    \/ ps[id].votes_for = proposals[id].votes_for
                 /\ Gov!CheckAndExecute(ps, id)
      BY <2>1, <2>4, VoteOutcome
    <3>2. id \in Gov!Pending /\ voter \in Gov!Elements(validators)
      BY <2>4 DEF Gov!Vote, Gov!MayVote, Gov!Pending, Gov!IsValidator
    <3>3. /\ Gov!Admissible(proposals[id].proposal_type, proposals[id].target)
          /\ Gov!Elements(proposals[id].votes_for) \subseteq Gov!Elements(validators)
          /\ Gov!Distinct(validators)
          /\ Len(validators) >= min_validators /\ Len(validators) <= max_validators
          /\ \A i \in Gov!Pending : i = id
      BY <2>2, <3>2 DEF Gov!OneSoundProposal
    <3>4. \A i \in 1..Len(ps) : i # id => ps[i].state # "Pending"
      BY <3>1, <3>3 DEF Gov!Pending
    <3>5. Gov!Elements(ps[id].votes_for) \subseteq Gov!Elements(validators)
      <4>1. proposals[id].votes_for \in Seq(Candidate)
        <5>1. proposals[id] \in Gov!Proposal
          BY <2>1 DEF ProposalsOK
        <5> QED
          BY <5>1, ProposalFields
      <4>2. Gov!Elements(Append(proposals[id].votes_for, voter)) = Gov!Elements(proposals[id].votes_for) \cup {voter}
        BY <4>1, AppendFacts
      <4> QED
        BY <3>1, <3>2, <3>3, <4>2
    <3>6. Gov!Admissible(ps[id].proposal_type, ps[id].target)
      BY <3>1, <3>3
    <3>7. id \in 1..Len(ps) /\ Gov!CheckAndExecute(ps, id)
      BY <3>1
    <3> QED
      BY <2>1, <3>3, <3>4, <3>5, <3>6, <3>7, CountingKeepsSound
  <2>5. CASE Gov!ExpireProposals
    <3>1. /\ Len(proposals') = Len(proposals) /\ validators' = validators
          /\ \A i \in 1..Len(proposals) :
               /\ proposals'[i].proposal_type = proposals[i].proposal_type
               /\ proposals'[i].target = proposals[i].target
               /\ proposals'[i].votes_for = proposals[i].votes_for
               /\ proposals'[i].state \in {"Expired", proposals[i].state}
      BY <2>1, <2>5, ExpireOutcome
    <3>2. Gov!Pending' \subseteq Gov!Pending
      BY <3>1 DEF Gov!Pending
    <3>3. Gov!QuorumThreshold' = Gov!QuorumThreshold
      BY <3>1 DEF Gov!QuorumThreshold
    <3>4. ASSUME NEW i \in Gov!Pending'
          PROVE  /\ Gov!Admissible(proposals[i].proposal_type, proposals[i].target)'
                 /\ Gov!Elements(proposals'[i].votes_for) \subseteq Gov!Elements(validators')
                 /\ Len(proposals'[i].votes_for) < Gov!QuorumThreshold'
      <4>1. i \in Gov!Pending /\ i \in 1..Len(proposals)
        BY <3>2, <3>4 DEF Gov!Pending
      <4>2. /\ Gov!Admissible(proposals[i].proposal_type, proposals[i].target)
            /\ Gov!Elements(proposals[i].votes_for) \subseteq Gov!Elements(validators)
            /\ Len(proposals[i].votes_for) < Gov!QuorumThreshold
        BY <2>2, <4>1 DEF Gov!OneSoundProposal
      <4>3. /\ proposals'[i].proposal_type = proposals[i].proposal_type
            /\ proposals'[i].target = proposals[i].target
            /\ proposals'[i].votes_for = proposals[i].votes_for
        BY <3>1, <4>1
      <4>4. Gov!Admissible(proposals[i].proposal_type, proposals[i].target)'
        BY <3>1, <4>2, <4>3 DEF Gov!Admissible, Gov!IsValidator
      <4> QED
        BY <3>1, <3>3, <4>2, <4>3, <4>4
    <3> QED
      BY <2>2, <3>1, <3>2, <3>4 DEF Gov!OneSoundProposal
  <2>6. CASE validators' = validators /\ proposals' = proposals
    <3>1. Gov!Pending' = Gov!Pending /\ Gov!QuorumThreshold' = Gov!QuorumThreshold
      BY <2>6 DEF Gov!Pending, Gov!QuorumThreshold
    <3> QED
      BY <2>2, <2>6, <3>1 DEF Gov!OneSoundProposal, Gov!Admissible, Gov!IsValidator
  <2> QED
    BY <2>3, <2>4, <2>5, <2>6 DEF Gov!Next, Gov!NextBlock, Gov!vars
<1> QED
  BY <1>1, <1>2, TypesHold, PTL DEF Gov!Spec

\* A step executes only what a quorum of the current validators voted for, and
\* only by a vote for it.
LEMMA ExecutionIsRight ==
  ASSUME Gov!TypeOK, Gov!GovernanceInv, BallotsInv', ProposalsOK', [Gov!Next]_Gov!vars, ~proposal_overlap',
         NEW id \in Gov!ExecutedNow
  PROVE  /\ Cardinality(Gov!Elements(proposals'[id].votes_for) \cap Gov!Elements(validators))
              * quorum_denominator >= Cardinality(Gov!Elements(validators)) * quorum_numerator
         /\ id \in 1..Len(proposals) => proposals'[id].votes_against = proposals[id].votes_against
<1>1. ProposalsOK /\ validators \in Seq(Candidate)
  BY DEF Gov!TypeOK, ProposalsOK
<1>2. ~proposal_overlap /\ Gov!OneSoundProposal
  BY DEF Gov!GovernanceInv, Gov!TypeOK, Gov!Next, Gov!Propose, Gov!Vote,
         Gov!ExpireProposals, Gov!NextBlock, Gov!vars
<1>3. /\ id \in 1..Len(proposals') /\ proposals'[id].state = "Executed"
      /\ id \in 1..Len(proposals) => proposals[id].state = "Pending"
  BY DEF Gov!ExecutedNow
<1>4. proposals'[id].votes_for \in Seq(Candidate) /\ Gov!Distinct(proposals'[id].votes_for)
  <2>1. PICK p : p = proposals'[id]
    OBVIOUS
  <2>2. p \in Gov!Proposal
    BY <1>3, <2>1 DEF ProposalsOK
  <2>3. Ballots(p)
    BY <1>3, <2>1 DEF BallotsInv
  <2>4. p.votes_for \in Seq(Candidate)
    BY <2>2, ProposalFields
  <2> QED
    BY <2>1, <2>3, <2>4 DEF Ballots, BallotsOf, Gov!Distinct
<1>5. ASSUME Gov!Elements(proposals'[id].votes_for) \subseteq Gov!Elements(validators),
             Len(proposals'[id].votes_for) >= Gov!QuorumThreshold
      PROVE  Cardinality(Gov!Elements(proposals'[id].votes_for) \cap Gov!Elements(validators))
               * quorum_denominator >= Cardinality(Gov!Elements(validators)) * quorum_numerator
  <2>1. PICK votes : votes = proposals'[id].votes_for
    OBVIOUS
  <2>2. Gov!Distinct(validators)
    BY <1>2 DEF Gov!OneSoundProposal
  <2>3. votes \in Seq(Candidate) /\ Gov!Distinct(votes) /\ Len(votes) >= Gov!QuorumThreshold
        /\ Gov!Elements(votes) \subseteq Gov!Elements(validators)
    BY <1>4, <1>5, <2>1
  <2> QED
    BY <1>1, <2>1, <2>2, <2>3, QuorumOfDistinctVotes
<1>6. ASSUME NEW proposer \in Candidate, NEW target \in Candidate,
             NEW kind \in {"Add", "Remove"}, Gov!Propose(proposer, kind, target)
      PROVE  /\ id \notin 1..Len(proposals)
             /\ Gov!Elements(proposals'[id].votes_for) \subseteq Gov!Elements(validators)
             /\ Len(proposals'[id].votes_for) >= Gov!QuorumThreshold
  <2>1. PICK ps \in Seq(Gov!Proposal) : \E k \in 1..Len(ps) : Proposed(ps, k, proposer, kind, target)
    BY <1>1, <1>6, ProposeOutcome
  <2>2. PICK k \in 1..Len(ps) : Proposed(ps, k, proposer, kind, target)
    BY <2>1
  <2>3. /\ k = Len(proposals) + 1 /\ Len(ps) = Len(proposals) + 1
        /\ \A i \in 1..Len(proposals) : ps[i] = proposals[i]
        /\ ps[k].votes_for = <<proposer>> /\ ps[k].state = "Pending"
        /\ \/ Gov!QuorumThreshold <= 1 /\ Gov!CheckAndExecute(ps, k)
           \/ proposals' = ps
    BY <2>2 DEF Proposed
  <2>4. Gov!Pending = {} /\ proposer \in Gov!Elements(validators)
    BY <1>6 DEF Gov!Propose, Gov!IsValidator, Gov!TypeOK
  <2>5. id \notin 1..Len(proposals)
    BY <1>3, <2>4 DEF Gov!Pending
  <2>6. Gov!QuorumThreshold <= 1 /\ Gov!CheckAndExecute(ps, k) /\ id = k
    <3>1. Len(proposals) \in Nat
      BY <1>1 DEF ProposalsOK
    <3>2. Len(proposals') = Len(ps)
      BY <2>3, CheckAndExecuteOutcome
    <3>3. id = k
      BY <1>3, <2>3, <2>5, <3>1, <3>2
    <3> QED
      BY <1>3, <2>3, <3>3
  <2>7. proposals'[id].votes_for = <<proposer>>
    BY <2>3, <2>6, CheckAndExecuteOutcome
  <2>8. Gov!Elements(<<proposer>>) = {proposer} /\ Len(<<proposer>>) = 1
    BY DEF Gov!Elements
  <2>9. Gov!QuorumThreshold \in Int
    BY <1>1, ValidatorManagerAssumption DEF Gov!QuorumThreshold
  <2> QED
    BY <2>4, <2>5, <2>6, <2>7, <2>8, <2>9
<1>7. ASSUME NEW k \in 1..Len(proposals), NEW voter \in Candidate,
             NEW approve \in BOOLEAN, Gov!Vote(k, voter, approve)
      PROVE  /\ proposals'[id].votes_against = proposals[id].votes_against
             /\ Gov!Elements(proposals'[id].votes_for) \subseteq Gov!Elements(validators)
             /\ Len(proposals'[id].votes_for) >= Gov!QuorumThreshold
  <2>1. PICK ps \in Seq(Gov!Proposal) :
               /\ Len(ps) = Len(proposals)
               /\ \A i \in 1..Len(ps) : i # k => ps[i] = proposals[i]
               /\ \/ /\ ps[k].votes_for = Append(proposals[k].votes_for, voter)
                     /\ ps[k].votes_against = proposals[k].votes_against
                  \/ ps[k].votes_for = proposals[k].votes_for
               /\ ps[k].state = "Pending"
               /\ Gov!CheckAndExecute(ps, k)
    BY <1>1, <1>7, VoteOutcome
  <2>2. k \in Gov!Pending /\ voter \in Gov!Elements(validators)
    BY <1>7 DEF Gov!Vote, Gov!MayVote, Gov!Pending, Gov!IsValidator
  <2>3. /\ Len(proposals') = Len(ps)
        /\ \A i \in 1..Len(ps) : i # k => proposals'[i] = ps[i]
        /\ proposals'[k].votes_for = ps[k].votes_for
        /\ proposals'[k].votes_against = ps[k].votes_against
        /\ \/ Len(ps[k].votes_for) >= Gov!QuorumThreshold
           \/ proposals'[k].state \in {"Rejected", ps[k].state}
    BY <2>1, CheckAndExecuteOutcome
  <2>4. id = k
    BY <1>3, <2>1, <2>3
  <2>5. Len(ps[k].votes_for) >= Gov!QuorumThreshold
    BY <1>3, <2>1, <2>3, <2>4
  <2>6. /\ Gov!Elements(proposals[k].votes_for) \subseteq Gov!Elements(validators)
        /\ Len(proposals[k].votes_for) < Gov!QuorumThreshold
    BY <1>2, <2>2 DEF Gov!OneSoundProposal
  <2>7. proposals[k].votes_for \in Seq(Candidate)
    <3>1. proposals[k] \in Gov!Proposal
      BY <1>1 DEF ProposalsOK
    <3> QED
      BY <3>1, ProposalFields
  <2>8. Gov!Elements(Append(proposals[k].votes_for, voter)) = Gov!Elements(proposals[k].votes_for) \cup {voter}
    BY <2>7, AppendFacts
  <2>9. Gov!QuorumThreshold \in Int /\ Len(proposals[k].votes_for) \in Nat
    BY <1>1, <2>7, ValidatorManagerAssumption DEF Gov!QuorumThreshold
  <2>10. /\ ps[k].votes_for = Append(proposals[k].votes_for, voter)
         /\ ps[k].votes_against = proposals[k].votes_against
    BY <2>1, <2>5, <2>6, <2>9
  <2> QED
    BY <2>2, <2>3, <2>4, <2>5, <2>6, <2>8, <2>10
<1>8. CASE Gov!ExpireProposals
  <2>1. /\ Len(proposals') = Len(proposals)
        /\ \A i \in 1..Len(proposals) : proposals'[i].state \in {"Expired", proposals[i].state}
    BY <1>1, <1>8, ExpireOutcome
  <2> QED
    BY <1>3, <2>1
<1>9. CASE proposals' = proposals
  BY <1>3, <1>9
<1> QED
  BY <1>5, <1>6, <1>7, <1>8, <1>9 DEF Gov!Next, Gov!NextBlock, Gov!vars

\* As long as no proposal was made while another was pending, check_and_execute
\* changes the validators only on the votes of the configured fraction of the
\* validators of that moment and by a vote for the change, and the list stays
\* within its limits and free of repetitions: for every set of addresses, every
\* quorum and every initial list that is itself sound.  No decision is revised.
THEOREM ChangesAreRight ==
  ASSUME Gov!InitialSetSound
  PROVE  MCSpec => ExecutedRightly
<1> DEFINE Right(id) ==
      /\ Gov!Cardinality(Gov!Elements(proposals'[id].votes_for) \cap Gov!Elements(validators))
           * quorum_denominator >= Gov!Cardinality(Gov!Elements(validators)) * quorum_numerator
      /\ id \in 1..Len(proposals) => proposals'[id].votes_against = proposals[id].votes_against
    Step == ~proposal_overlap' => \A id \in Gov!ExecutedNow : Right(id)
<1>1. Gov!TypeOK /\ Gov!GovernanceInv /\ BallotsInv' /\ ProposalsOK' /\ [Gov!Next]_Gov!vars
        => [Step]_Gov!vars
  BY ExecutionIsRight, GovernanceCounts
<1>2. Gov!GovernanceInv => Gov!SizeWithinLimits /\ Gov!NoDuplicates
  BY DEF Gov!GovernanceInv, Gov!OneSoundProposal, Gov!SizeWithinLimits, Gov!NoDuplicates,
         Gov!Distinct
<1>3. Gov!Spec => []Gov!GovernanceInv
  BY GovernanceInvariant
<1>4. Gov!Spec => [][Step]_Gov!vars
  BY <1>1, <1>3, TypesHold, BallotsInvariant, PTL DEF Gov!Spec
<1>5. [Step]_Gov!vars => [~proposal_overlap' => \A id \in Gov!ExecutedNow :
         Gov!Cardinality(Gov!Elements(proposals'[id].votes_for) \cap Gov!Elements(validators))
           * quorum_denominator >= Gov!Cardinality(Gov!Elements(validators)) * quorum_numerator]_Gov!vars
  OBVIOUS
<1>6. [Step]_Gov!vars => [~proposal_overlap' => \A id \in Gov!ExecutedNow :
         id \in 1..Len(proposals) => proposals'[id].votes_against = proposals[id].votes_against]_Gov!vars
  OBVIOUS
<1>7. Gov!Spec => Gov!QuorumOfCurrentValidators
  BY <1>4, <1>5, PTL DEF Gov!QuorumOfCurrentValidators
<1>8. Gov!Spec => Gov!NoVoteAgainstExecutes
  BY <1>4, <1>6, PTL DEF Gov!NoVoteAgainstExecutes
<1> QED
  BY <1>2, <1>3, <1>7, <1>8, DecisionsAreFinal, GovernanceCalls, PTL
     DEF Gov!ExecutedRightly, ExecutedRightly
=============================================================================
