--------------------------- MODULE BroadcastProofs ---------------------------
(***************************************************************************)
(* The two broadcasts, for every committee and every proposer.  The strong *)
(* provable broadcast of spb.go is safe and implements the abstract        *)
(* broadcast.  The consistent broadcast of cbc.go, an instance here,       *)
(* notifies a core only about content that the node and 2f+1 nodes hold,   *)
(* and implements the first phase of the same abstract broadcast.          *)
(***************************************************************************)
EXTENDS SPB, CommitteeProofs

LEMMA TypeStep == TypeOK /\ [Next]_vars => TypeOK'
<1> SUFFICES ASSUME TypeOK, [Next]_vars PROVE TypeOK'
  OBVIOUS
<1> USE DEF TypeOK, OneStatus, MsgStatus, Phase
<1>1. ASSUME NEW i \in Node, StoreBlockHash(i) PROVE TypeOK'
  BY <1>1 DEF StoreBlockHash
<1>2. ASSUME NEW i \in Node, DrainUnhandled(i) PROVE TypeOK'
  BY <1>2 DEF DrainUnhandled, Resume
<1>3. ASSUME NEW i \in Node, HandleTwo(i) PROVE TypeOK'
  BY <1>3 DEF HandleTwo
<1>4. ASSUME NEW i \in Node, ParkTwo(i) PROVE TypeOK'
  BY <1>4 DEF ParkTwo
<1>5. ASSUME NEW ph \in Phase, NEW i \in Node, CountVote(ph, i) PROVE TypeOK'
  BY <1>5 DEF CountVote
<1>6. ASSUME NEW ph \in Phase, NEW i \in Node, CheckVote(ph, i) PROVE TypeOK'
  BY <1>6 DEF CheckVote
<1>7. ASSUME NEW ph \in Phase, NEW i \in Node, ParkVote(ph, i) PROVE TypeOK'
  BY <1>7 DEF ParkVote
<1>8. CASE UNCHANGED vars
  BY <1>8 DEF vars
<1> QED
  BY <1>1, <1>2, <1>3, <1>4, <1>5, <1>6, <1>7, <1>8 DEF Next, ProposalStep, VoteStep

-----------------------------------------------------------------------------
(* The inductive invariant: what has been counted, sent and locked.        *)

\* The counters count the votes handled.
VotesAreCounted == \A ph \in Phase : Votes[ph] = Cardinality(Counted(ph))

\* A vote of phase one comes from a node with the BlockHash, a vote of phase
\* two from a locked node.
VotersAreHonest ==
  \A i \in Node : /\ vote[1][i] # "unsent" => i \in Stored
                  /\ vote[2][i] # "unsent" => i \in LockFlag

\* The phase-two proposal goes out after 2f+1 votes of phase one.
TwoIsCounted == \A i \in Node : two[i] # "unsent" => Votes[1] >= HightThreshold

\* A node locks when it handles the phase-two proposal, with a BlockHash.
LocksAreStored == \A i \in LockFlag : i \in Stored /\ two[i] = "handled"

\* Finish goes out with the 2f+1-th vote of phase two.
FinishIsCounted == finish = IF Votes[2] >= HightThreshold THEN 1 ELSE 0

IInv ==
  /\ TypeOK
  /\ VotesAreCounted
  /\ VotersAreHonest
  /\ TwoIsCounted
  /\ LocksAreStored
  /\ FinishIsCounted

LEMMA InitIInv == Init => IInv
<1> SUFFICES ASSUME Init PROVE IInv
  OBVIOUS
<1>1. TypeOK
  BY DEF Init, TypeOK, OneStatus, MsgStatus, Phase
<1>2. \A ph \in Phase : Counted(ph) = {}
  BY DEF Init, Counted, Phase
<1>3. VotesAreCounted
  BY <1>2, FS_EmptySet DEF Init, VotesAreCounted
<1>4. FinishIsCounted
  BY ThresholdType DEF Init, FinishIsCounted, Phase
<1> QED
  BY <1>1, <1>3, <1>4
  DEF Init, IInv, VotersAreHonest, TwoIsCounted, LocksAreStored, Phase

LEMMA NextIInv == IInv /\ [Next]_vars => IInv'
<1> SUFFICES ASSUME IInv, [Next]_vars PROVE IInv'
  OBVIOUS
<1> TypeOK /\ TypeOK'
  BY TypeStep DEF IInv
<1>1. ASSUME NEW i \in Node, StoreBlockHash(i) PROVE IInv'
  <2>1. Stored \subseteq Stored' /\ (one'[i] = "stored" => i \in Stored')
    BY <1>1 DEF StoreBlockHash, Stored, TypeOK
  <2>2. i \notin Stored /\ vote[1][i] = "unsent"
    BY <1>1 DEF StoreBlockHash, Stored, IInv, VotersAreHonest
  <2>3. \A ph \in Phase : Counted(ph)' = Counted(ph)
    BY <1>1, <2>2 DEF StoreBlockHash, Counted, TypeOK, Phase
  <2>4. VotersAreHonest'
    BY <1>1, <2>1 DEF StoreBlockHash, IInv, VotersAreHonest, TypeOK, Phase
  <2>5. VotesAreCounted'
    BY <1>1, <2>3 DEF StoreBlockHash, IInv, VotesAreCounted
  <2>6. TwoIsCounted' /\ LocksAreStored' /\ FinishIsCounted'
    BY <1>1, <2>1 DEF StoreBlockHash, IInv, TwoIsCounted, LocksAreStored, FinishIsCounted
  <2> QED
    BY <2>4, <2>5, <2>6 DEF IInv
<1>2. ASSUME NEW i \in Node, DrainUnhandled(i) PROVE IInv'
  <2>1. Stored' = Stored
    BY <1>2 DEF DrainUnhandled, Stored, TypeOK
  <2>2. \A ph \in Phase, j \in Node :
          /\ vote'[ph][j] = "unsent" <=> vote[ph][j] = "unsent"
          /\ vote'[ph][j] = "handled" <=> vote[ph][j] = "handled"
    BY <1>2 DEF DrainUnhandled, Resume, TypeOK, Phase
  <2>3. \A ph \in Phase : Counted(ph)' = Counted(ph)
    BY <2>2 DEF Counted
  <2>4. \A j \in Node : /\ two'[j] = "unsent" <=> two[j] = "unsent"
                        /\ two'[j] = "handled" <=> two[j] = "handled"
    BY <1>2 DEF DrainUnhandled, Resume, TypeOK
  <2>5. VotersAreHonest'
    BY <1>2, <2>1, <2>2 DEF DrainUnhandled, IInv, VotersAreHonest, Phase
  <2>6. TwoIsCounted' /\ LocksAreStored'
    BY <1>2, <2>1, <2>4 DEF DrainUnhandled, IInv, TwoIsCounted, LocksAreStored, TypeOK
  <2>7. VotesAreCounted' /\ FinishIsCounted'
    BY <1>2, <2>3 DEF DrainUnhandled, IInv, VotesAreCounted, FinishIsCounted
  <2> QED
    BY <2>5, <2>6, <2>7 DEF IInv
<1>3. ASSUME NEW i \in Node, HandleTwo(i) PROVE IInv'
  <2>1. Stored' = Stored
    BY <1>3 DEF HandleTwo, Stored
  <2>2. i \notin LockFlag /\ vote[2][i] = "unsent"
    BY <1>3 DEF HandleTwo, IInv, LocksAreStored, VotersAreHonest
  <2>3. \A ph \in Phase : Counted(ph)' = Counted(ph)
    BY <1>3, <2>2 DEF HandleTwo, Counted, TypeOK, Phase
  <2>4. VotesAreCounted' /\ FinishIsCounted'
    BY <1>3, <2>3 DEF HandleTwo, IInv, VotesAreCounted, FinishIsCounted
  <2>5. VotersAreHonest'
    BY <1>3, <2>1 DEF HandleTwo, IInv, VotersAreHonest, TypeOK, Phase
  <2>6. TwoIsCounted'
    BY <1>3 DEF HandleTwo, IInv, TwoIsCounted, TypeOK
  <2>7. LocksAreStored'
    BY <1>3, <2>1, <2>2 DEF HandleTwo, IInv, LocksAreStored, TypeOK
  <2> QED
    BY <2>4, <2>5, <2>6, <2>7 DEF IInv
<1>4. ASSUME NEW i \in Node, ParkTwo(i) PROVE IInv'
  <2>1. Stored' = Stored /\ \A ph \in Phase : Counted(ph)' = Counted(ph)
    BY <1>4 DEF ParkTwo, Stored, Counted
  <2> QED
    BY <1>4, <2>1
    DEF ParkTwo, IInv, VotesAreCounted, VotersAreHonest, TwoIsCounted, LocksAreStored,
        FinishIsCounted, TypeOK
<1>5. ASSUME NEW ph \in Phase, NEW i \in Node, CountVote(ph, i) PROVE IInv'
  <2>1. Stored' = Stored
    BY <1>5 DEF CountVote, Stored
  <2>2. i \notin Counted(ph) /\ Counted(ph)' = Counted(ph) \cup {i}
    BY <1>5 DEF CountVote, Counted, TypeOK, Phase
  <2>3. \A q \in Phase \ {ph} : Counted(q)' = Counted(q)
    BY <1>5 DEF CountVote, Counted, TypeOK
  <2>4. Cardinality(Counted(ph)') = Cardinality(Counted(ph)) + 1
    <3>1. IsFiniteSet(Counted(ph))
      BY NodeSets DEF Counted
    <3> QED
      BY <2>2, <3>1, FS_AddElement
  <2>5. VotesAreCounted'
    BY <1>5, <2>3, <2>4 DEF CountVote, IInv, VotesAreCounted, TypeOK
  <2>6. VotersAreHonest'
    BY <1>5, <2>1 DEF CountVote, IInv, VotersAreHonest, TypeOK, Phase
  <2>7. FinishIsCounted'
    BY <1>5, ThresholdType DEF CountVote, Quorum, IInv, FinishIsCounted, TypeOK, Phase
  <2>8. TwoIsCounted' /\ LocksAreStored'
    <3>1. CASE ph = 1 /\ Votes[1] + 1 = HightThreshold
      <4>1. \A j \in Node : two[j] = "unsent"
        BY <3>1, ThresholdType DEF IInv, TwoIsCounted, TypeOK, Phase
      <4>2. LockFlag' = {}
        BY <1>5, <4>1 DEF CountVote, IInv, LocksAreStored, TypeOK
      <4>3. Votes'[1] >= HightThreshold
        BY <1>5, <3>1, ThresholdType DEF CountVote, TypeOK, Phase
      <4> QED
        BY <4>2, <4>3 DEF TwoIsCounted, LocksAreStored
    <3>2. CASE ~ (ph = 1 /\ Votes[1] + 1 = HightThreshold)
      <4>1. two' = two /\ LockFlag' = LockFlag /\ Votes'[1] >= Votes[1]
        BY <1>5, <3>2 DEF CountVote, Quorum, TypeOK, Phase
      <4> QED
        BY <2>1, <4>1, ThresholdType DEF IInv, TwoIsCounted, LocksAreStored, TypeOK, Phase
    <3> QED
      BY <3>1, <3>2
  <2> QED
    BY <2>5, <2>6, <2>7, <2>8 DEF IInv
<1>6. ASSUME NEW ph \in Phase, NEW i \in Node, CheckVote(ph, i) \/ ParkVote(ph, i)
      PROVE  IInv'
  <2>1. Stored' = Stored
    BY <1>6 DEF CheckVote, ParkVote, Stored
  <2>2. \A q \in Phase : Counted(q)' = Counted(q)
    BY <1>6 DEF CheckVote, ParkVote, Counted, TypeOK
  <2>3. VotersAreHonest'
    BY <1>6, <2>1 DEF CheckVote, ParkVote, IInv, VotersAreHonest, TypeOK, Phase
  <2> QED
    BY <1>6, <2>1, <2>2, <2>3
    DEF CheckVote, ParkVote, IInv, VotesAreCounted, TwoIsCounted, LocksAreStored,
        FinishIsCounted
<1>7. CASE UNCHANGED vars
  BY <1>7
  DEF vars, IInv, VotesAreCounted, VotersAreHonest, TwoIsCounted, LocksAreStored,
      FinishIsCounted, Stored, Counted
<1> QED
  BY <1>1, <1>2, <1>3, <1>4, <1>5, <1>6, <1>7 DEF Next, ProposalStep, VoteStep

-----------------------------------------------------------------------------
\* A set of nodes that includes a quorum is one.
LEMMA LargerQuorum ==
  ASSUME NEW T \in SUBSET Node, NEW S \in SUBSET T, Cardinality(S) >= HightThreshold
  PROVE  Cardinality(T) >= HightThreshold
BY NodeSets, ThresholdType

\* A counted quorum of phase-one votes is a quorum of nodes with the block.
LEMMA QuorumStored ==
  ASSUME IInv, Votes[1] >= HightThreshold
  PROVE  Cardinality(Stored) >= HightThreshold
<1>1. Counted(1) \in SUBSET Stored /\ Stored \in SUBSET Node
  BY DEF IInv, VotersAreHonest, Counted, Stored
<1>2. Cardinality(Counted(1)) >= HightThreshold
  BY DEF IInv, VotesAreCounted, Phase
<1> QED
  BY <1>1, <1>2, LargerQuorum

\* A counted quorum of phase-two votes is a quorum of locked nodes.
LEMMA QuorumLocked ==
  ASSUME IInv, Votes[2] >= HightThreshold
  PROVE  Cardinality(LockFlag) >= HightThreshold
<1>1. Counted(2) \in SUBSET LockFlag /\ LockFlag \in SUBSET Node
  BY DEF IInv, VotersAreHonest, Counted, TypeOK
<1>2. Cardinality(Counted(2)) >= HightThreshold
  BY DEF IInv, VotesAreCounted, Phase
<1> QED
  BY <1>1, <1>2, LargerQuorum

LEMMA SPBInvariant == Spec => []IInv
<1> QED
  BY InitIInv, NextIInv, PTL DEF Spec

\* The variables of the instances keep their types in every interleaving of
\* the goroutines.
THEOREM SPBTypeOK == Spec => []TypeOK
<1>1. IInv => TypeOK
  BY DEF IInv
<1> QED
  BY <1>1, SPBInvariant, PTL

\* A node with LockFlag has the BlockHash, and so have 2f+1 nodes: the comment
\* "if lock ensure SPB_ONE_PHASE has received" of processProposal, and why
\* processLeader does not panic.
THEOREM SPBLockIsBacked == Spec => []LockIsBacked
<1>1. IInv => LockIsBacked
  <2> SUFFICES ASSUME IInv, NEW i \in LockFlag PROVE LockIsBacked
    BY DEF LockIsBacked
  <2>1. LockFlag \subseteq Stored
    BY DEF IInv, LocksAreStored
  <2>2. Votes[1] >= HightThreshold
    BY DEF IInv, LocksAreStored, TwoIsCounted, TypeOK
  <2> QED
    BY <2>1, <2>2, QuorumStored DEF LockIsBacked
<1> QED
  BY <1>1, SPBInvariant, PTL

\* Finish is broadcast once at most, and only with 2f+1 nodes locked.
THEOREM SPBFinishIsLocked == Spec => []FinishIsLocked
<1>1. IInv => FinishIsLocked
  <2> SUFFICES ASSUME IInv, finish > 0 PROVE finish = 1 /\ Votes[2] >= HightThreshold
    BY QuorumLocked DEF FinishIsLocked
  <2> QED
    BY DEF IInv, FinishIsCounted
<1> QED
  BY <1>1, SPBInvariant, PTL

\* Every step of spb.go is a step of the abstract broadcast or changes nothing
\* that the abstract broadcast shows.
THEOREM SPBImplementsBroadcast == Spec => ImplementsBroadcast
<1>1. Init => PB!Init
  BY DEF Init, PB!Init, Stored
<1>2. IInv /\ [Next]_vars => [PB!Next]_(PB!pbVars)
  <2> SUFFICES ASSUME IInv, [Next]_vars PROVE PB!Next \/ UNCHANGED PB!pbVars
    OBVIOUS
  <2>1. ASSUME NEW i \in Node, StoreBlockHash(i) PROVE PB!Next \/ UNCHANGED PB!pbVars
    <3>1. Stored' = Stored \cup {i} \/ Stored' = Stored
      BY <2>1 DEF StoreBlockHash, Stored, IInv, TypeOK
    <3> QED
      BY <2>1, <3>1 DEF StoreBlockHash, PB!Next, PB!Store, PB!pbVars
  <2>2. ASSUME NEW i \in Node, DrainUnhandled(i) PROVE UNCHANGED PB!pbVars
    BY <2>2 DEF DrainUnhandled, Stored, PB!pbVars, IInv, TypeOK
  <2>3. ASSUME NEW i \in Node, HandleTwo(i) PROVE PB!Next \/ UNCHANGED PB!pbVars
    <3>1. Stored' = Stored
      BY <2>3 DEF HandleTwo, Stored
    <3>2. Cardinality(Stored) >= HightThreshold /\ Stored \in SUBSET Node
      BY <2>3, QuorumStored DEF HandleTwo, IInv, TwoIsCounted, Stored
    <3> QED
      BY <2>3, <3>1, <3>2
      DEF HandleTwo, PB!Next, PB!Lock, PB!pbVars, Quorums
  <2>4. ASSUME NEW i \in Node, ParkTwo(i) PROVE UNCHANGED PB!pbVars
    BY <2>4 DEF ParkTwo, Stored, PB!pbVars
  <2>5. ASSUME NEW ph \in Phase, NEW i \in Node, CountVote(ph, i)
        PROVE  PB!Next \/ UNCHANGED PB!pbVars
    <3>1. Stored' = Stored /\ LockFlag' = LockFlag
      BY <2>5 DEF CountVote, Stored
    <3>2. CASE finish' = finish
      BY <3>1, <3>2 DEF PB!pbVars
    <3>3. CASE finish' # finish
      <4>1. finish = 0 /\ finish' = 1 /\ Votes'[2] >= HightThreshold
        BY <2>5, <3>3, ThresholdType
        DEF CountVote, Quorum, IInv, FinishIsCounted, TypeOK, Phase
      <4>2. IInv'
        BY NextIInv
      <4>3. Cardinality(LockFlag') >= HightThreshold
        <5>1. Counted(2)' \in SUBSET LockFlag' /\ LockFlag' \in SUBSET Node
          BY <4>2 DEF IInv, VotersAreHonest, Counted, TypeOK
        <5>2. Cardinality(Counted(2)') >= HightThreshold
          BY <4>1, <4>2 DEF IInv, VotesAreCounted, Phase
        <5> QED
          BY <5>1, <5>2, LargerQuorum
      <4> QED
        BY <3>1, <4>1, <4>3
        DEF IInv, TypeOK, PB!Next, PB!Finish, Quorums
    <3> QED
      BY <3>2, <3>3
  <2>6. ASSUME NEW ph \in Phase, NEW i \in Node, CheckVote(ph, i) \/ ParkVote(ph, i)
        PROVE  UNCHANGED PB!pbVars
    BY <2>6 DEF CheckVote, ParkVote, Stored, PB!pbVars
  <2>7. CASE UNCHANGED vars
    BY <2>7 DEF vars, Stored, PB!pbVars
  <2> QED
    BY <2>1, <2>2, <2>3, <2>4, <2>5, <2>6, <2>7 DEF Next, ProposalStep, VoteStep
<1> QED
  BY <1>1, <1>2, SPBInvariant, PTL DEF Spec, ImplementsBroadcast, PB!Spec

-----------------------------------------------------------------------------
\* The consistent broadcast of the MVBA protocol.
VARIABLES content, ready, final, readyCnts, finalCnts
C == INSTANCE CBC

\* Its committee is the same one.
LEMMA SameCommittee == C!HightThreshold = HightThreshold /\ C!Quorums = Quorums
<1>1. \A S : C!IsFiniteSet(S) = IsFiniteSet(S)
  BY Zenon DEF C!IsFiniteSet, IsFiniteSet
<1>2. \A S : C!Cardinality(S) = Cardinality(S)
  BY <1>1, Zenon DEF C!Cardinality, Cardinality
<1> QED
  BY <1>2 DEF C!HightThreshold, HightThreshold, C!Size, Size, C!Quorums, Quorums

Readied == {i \in Node : ready[i] = "handled"}

\* The variables but for the bound on finalCnts, which follows from the rest.
CBCTypes ==
  /\ content \in [Node -> C!ContentStatus]
  /\ ready \in [Node -> C!MsgStatus]
  /\ final \in [Node -> C!MsgStatus]
  /\ readyCnts \in Nat
  /\ finalCnts \in [Node -> Nat]

\* The proposer's counter counts the Readies handled.
ReadiesAreCounted == readyCnts = Cardinality(Readied)

\* A Ready comes from a node that has the content and drained its lists.
ReadyIsHonest == \A i \in Node : ready[i] # "unsent" => content[i] = "drained"

\* The Final goes out with the 2f+1-th Ready.
FinalIsCounted == \A i \in Node : final[i] # "unsent" => readyCnts >= HightThreshold

\* A node counts the Final once, with the content there.
FinalsAreStored ==
  \A i \in Node : /\ finalCnts[i] = IF final[i] = "handled" THEN 1 ELSE 0
                  /\ final[i] = "handled" => i \in C!Stored

CBCInv ==
  /\ CBCTypes
  /\ ReadiesAreCounted
  /\ ReadyIsHonest
  /\ FinalIsCounted
  /\ FinalsAreStored

LEMMA CBCInit == C!Init => CBCInv
<1> SUFFICES ASSUME C!Init PROVE CBCInv
  OBVIOUS
<1>1. Readied = {}
  BY DEF C!Init, Readied
<1>2. ReadiesAreCounted
  BY <1>1, FS_EmptySet DEF C!Init, ReadiesAreCounted
<1> QED
  BY <1>2
  DEF C!Init, CBCInv, CBCTypes, C!ContentStatus, C!MsgStatus, ReadyIsHonest, FinalIsCounted,
      FinalsAreStored

LEMMA CBCContent ==
  ASSUME CBCInv, NEW i \in Node, C!ContentStep(i)
  PROVE  CBCInv'
<1> USE DEF CBCInv, CBCTypes, C!ContentStatus, C!MsgStatus
<1>1. CASE C!StoreContent(i)
  <2>1. Readied' = Readied /\ C!Stored \subseteq C!Stored'
    BY <1>1 DEF C!StoreContent, Readied, C!Stored
  <2>2. ReadyIsHonest'
    BY <1>1 DEF C!StoreContent, ReadyIsHonest
  <2> QED
    BY <1>1, <2>1, <2>2 DEF C!StoreContent, ReadiesAreCounted, FinalIsCounted, FinalsAreStored
<1>2. CASE C!DrainAndReady(i)
  <2>1. ready[i] = "unsent"
    BY <1>2 DEF C!DrainAndReady, ReadyIsHonest
  <2>2. CBCTypes'
    BY <1>2 DEF C!DrainAndReady, C!Resume
  <2>3. \A j \in Node : /\ ready'[j] = "handled" <=> ready[j] = "handled"
                        /\ ready'[j] # "unsent" => j = i \/ ready[j] # "unsent"
                        /\ final'[j] = "handled" <=> final[j] = "handled"
                        /\ final'[j] = "unsent" <=> final[j] = "unsent"
    BY <1>2, <2>1 DEF C!DrainAndReady, C!Resume
  <2>4. Readied' = Readied
    BY <2>3 DEF Readied
  <2>5. C!Stored' = C!Stored
    BY <1>2 DEF C!DrainAndReady, C!Stored
  <2>6. ReadyIsHonest'
    BY <1>2, <2>3 DEF C!DrainAndReady, ReadyIsHonest
  <2>7. ReadiesAreCounted' /\ FinalIsCounted'
    BY <1>2, <2>3, <2>4 DEF C!DrainAndReady, ReadiesAreCounted, FinalIsCounted
  <2>8. FinalsAreStored'
    BY <1>2, <2>3, <2>5 DEF C!DrainAndReady, FinalsAreStored
  <2> QED
    BY <2>2, <2>6, <2>7, <2>8
<1> QED
  BY <1>1, <1>2 DEF C!ContentStep

LEMMA CBCReady ==
  ASSUME CBCInv, NEW i \in Node, C!ReadyStep(i)
  PROVE  CBCInv'
<1> USE DEF CBCInv, CBCTypes, C!ContentStatus, C!MsgStatus
<1>1. CASE C!CountReady(i)
  <2>1. i \notin Readied /\ Readied' = Readied \cup {i}
    BY <1>1 DEF C!CountReady, Readied
  <2>2. ReadiesAreCounted'
    <3>1. IsFiniteSet(Readied)
      BY NodeSets DEF Readied
    <3> QED
      BY <1>1, <2>1, <3>1, FS_AddElement, Zenon DEF C!CountReady, ReadiesAreCounted
  <2>3. CBCTypes'
    BY <1>1 DEF C!CountReady
  <2>4. ReadyIsHonest' /\ C!Stored' = C!Stored
    BY <1>1 DEF C!CountReady, ReadyIsHonest, C!Stored
  <2>5. CASE readyCnts + 1 = HightThreshold
    <3>1. \A j \in Node : final[j] = "unsent" /\ final'[j] = "sent"
      BY <1>1, <2>5, SameCommittee, ThresholdType DEF C!CountReady, C!IsFinal, FinalIsCounted
    <3>2. FinalIsCounted' /\ FinalsAreStored'
      BY <1>1, <2>5, <3>1, ThresholdType DEF C!CountReady, FinalIsCounted, FinalsAreStored
    <3> QED
      BY <2>2, <2>3, <2>4, <3>2
  <2>6. CASE readyCnts + 1 # HightThreshold
    <3>1. final' = final /\ readyCnts' = readyCnts + 1
      BY <1>1, <2>6, SameCommittee DEF C!CountReady, C!IsFinal
    <3>2. FinalIsCounted' /\ FinalsAreStored'
      BY <1>1, <2>4, <3>1, ThresholdType DEF C!CountReady, FinalIsCounted, FinalsAreStored
    <3> QED
      BY <2>2, <2>3, <2>4, <3>2
  <2> QED
    BY <2>5, <2>6
<1>2. CASE C!CheckReady(i) \/ C!ParkReady(i)
  <2>1. Readied' = Readied /\ C!Stored' = C!Stored
    BY <1>2 DEF C!CheckReady, C!ParkReady, Readied, C!Stored
  <2>2. ReadyIsHonest' /\ CBCTypes'
    BY <1>2 DEF C!CheckReady, C!ParkReady, ReadyIsHonest
  <2> QED
    BY <1>2, <2>1, <2>2
    DEF C!CheckReady, C!ParkReady, ReadiesAreCounted, FinalIsCounted, FinalsAreStored
<1> QED
  BY <1>1, <1>2 DEF C!ReadyStep

LEMMA CBCFinal ==
  ASSUME CBCInv, NEW i \in Node, C!FinalStep(i)
  PROVE  CBCInv'
<1> USE DEF CBCInv, CBCTypes, C!ContentStatus, C!MsgStatus, C!FinalStep,
            C!CountFinal, C!CheckFinal, C!ParkFinal
<1>1. Readied' = Readied /\ C!Stored' = C!Stored
  BY DEF Readied, C!Stored
<1>2. CBCTypes' /\ ReadyIsHonest' /\ ReadiesAreCounted'
  BY <1>1 DEF ReadyIsHonest, ReadiesAreCounted
<1>3. FinalIsCounted'
  BY DEF FinalIsCounted
<1>4. FinalsAreStored'
  BY <1>1 DEF FinalsAreStored
<1> QED
  BY <1>2, <1>3, <1>4

LEMMA CBCNext == CBCInv /\ [C!Next]_C!vars => CBCInv'
<1>1. CBCInv /\ UNCHANGED C!vars => CBCInv'
  BY DEF C!vars, CBCInv, CBCTypes, ReadiesAreCounted, ReadyIsHonest, FinalIsCounted,
         FinalsAreStored, Readied, C!Stored
<1> QED
  BY <1>1, CBCContent, CBCReady, CBCFinal DEF C!Next

LEMMA CBCInvariance == C!Spec => []CBCInv
<1> QED
  BY CBCInit, CBCNext, PTL DEF C!Spec

\* The variables keep their types; ProcessFinal counts at most one Final, so
\* the core is notified at most once about an instance.
THEOREM CBCTypeOK == C!Spec => []C!TypeOK
<1>1. CBCInv => C!TypeOK
  BY DEF CBCInv, CBCTypes, FinalsAreStored, C!TypeOK
<1> QED
  BY <1>1, CBCInvariance, PTL

\* A counted quorum of Readies is a quorum of nodes with the content.
LEMMA CountedReadies ==
  ASSUME CBCInv, readyCnts >= HightThreshold
  PROVE  C!Stored \in Quorums
<1>1. Readied \subseteq C!Stored /\ C!Stored \subseteq Node
  BY DEF Readied, C!Stored, CBCInv, ReadyIsHonest
<1>2. Cardinality(C!Stored) >= HightThreshold
  BY <1>1, NodeSets, ThresholdType DEF CBCInv, ReadiesAreCounted
<1> QED
  BY <1>1, <1>2 DEF Quorums

\* A notified node has the content, and 2f+1 nodes have it.
THEOREM CBCBackIsBacked == C!Spec => []C!BackIsBacked
<1>1. CBCInv => C!BackIsBacked
  <2> SUFFICES ASSUME CBCInv, NEW i \in Node, finalCnts[i] > 0
               PROVE  i \in C!Stored /\ C!Stored \in Quorums
    BY SameCommittee DEF C!BackIsBacked
  <2>1. i \in C!Stored /\ readyCnts >= HightThreshold
    BY DEF CBCInv, FinalsAreStored, FinalIsCounted
  <2> QED
    BY <2>1, CountedReadies
<1> QED
  BY <1>1, CBCInvariance, PTL

\* The nodes whose core was notified.
Notified == {i \in Node : finalCnts[i] > 0}

\* Every step of cbc.go is a step of the abstract broadcast or changes nothing
\* that the abstract broadcast shows: a node is notified only once 2f+1 nodes,
\* itself among them, hold the content.
THEOREM CBCImplementsBroadcast == C!Spec => C!ImplementsBroadcast
<1>1. C!Init => C!PB!Init
  BY DEF C!Init, C!PB!Init, C!Stored
<1>2. CBCInv /\ [C!Next]_C!vars => [C!PB!Next]_(C!PB!pbVars)
  <2> SUFFICES ASSUME CBCInv, [C!Next]_C!vars PROVE C!PB!Next \/ UNCHANGED C!PB!pbVars
    OBVIOUS
  <2>1. ASSUME NEW i \in Node, C!StoreContent(i) PROVE C!PB!Next \/ UNCHANGED C!PB!pbVars
    <3>1. C!Stored' = C!Stored \cup {i} /\ Notified' = Notified
      BY <2>1 DEF C!StoreContent, C!Stored, Notified, CBCInv, CBCTypes, C!ContentStatus
    <3> QED
      BY <2>1, <3>1 DEF Notified, C!PB!Next, C!PB!Store
  <2>2. ASSUME NEW i \in Node, C!DrainAndReady(i) \/ C!ReadyStep(i) \/ C!CheckFinal(i) \/ C!ParkFinal(i)
        PROVE  UNCHANGED C!PB!pbVars
    <3>1. C!Stored' = C!Stored /\ finalCnts' = finalCnts
      BY <2>2
      DEF C!DrainAndReady, C!ReadyStep, C!CountReady, C!CheckReady, C!ParkReady, C!CheckFinal,
          C!ParkFinal, C!Stored, CBCInv, CBCTypes, C!ContentStatus
    <3> QED
      BY <3>1 DEF C!PB!pbVars
  <2>3. ASSUME NEW i \in Node, C!CountFinal(i) PROVE C!PB!Next \/ UNCHANGED C!PB!pbVars
    <3>1. C!Stored' = C!Stored /\ i \in C!Stored
      BY <2>3 DEF C!CountFinal, C!Stored
    <3>2. Notified' = Notified \cup {i}
      BY <2>3 DEF C!CountFinal, Notified, CBCInv, CBCTypes
    <3>3. C!Stored \in C!Quorums
      BY <2>3, CountedReadies, SameCommittee DEF C!CountFinal, CBCInv, FinalIsCounted
    <3> QED
      BY <3>1, <3>2, <3>3 DEF Notified, C!PB!Next, C!PB!Lock
  <2>4. CASE UNCHANGED C!vars
    BY <2>4 DEF C!vars, C!Stored, C!PB!pbVars
  <2> QED
    BY <2>1, <2>2, <2>3, <2>4 DEF C!Next, C!ContentStep, C!FinalStep
<1> QED
  BY <1>1, <1>2, CBCInvariance, PTL DEF C!Spec, C!ImplementsBroadcast, C!PB!Spec

=============================================================================
