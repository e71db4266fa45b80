----------------------------- MODULE SMVBAProofs -----------------------------
(***************************************************************************)
(* Safety of an SMVBA epoch for every committee, every coin, any number of *)
(* rounds, any set of crashed nodes and whatever the network does: what a  *)
(* Halt names is available, and a commit excludes a negative outcome.      *)
(* If a block arrives before any Halt for it (Prompt), the next round      *)
(* carries a committed block only, and nodes that halt commit the same:    *)
(* in one round, in a committee of four, or where no leader is voted down. *)
(* In the first two cases the epoch implements one agreement on a block.   *)
(***************************************************************************)
EXTENDS SMVBA, CommitteeProofs

-----------------------------------------------------------------------------
(* The inductive invariant.                                                *)

\* A vote is for the proposer's own block, which the voter has stored; a lock
\* needs a quorum of votes, and a Finish needs a lock.
BroadcastInv ==
  \A r \in Round, p \in Node :
    /\ \A i \in voted[r][p] : p \in store[i]
    /\ voted[r][p] # {} => proposal[r][p] = p
    /\ locked[r][p] # {} => voted[r][p] \in Quorums
    /\ p \in finish[r] => locked[r][p] # {}

\* A handled Finish was sent.
FlagsInv == \A i \in Node, r \in Round : FinishFlags[i][r] \subseteq finish[r]

\* A node proposes in the next round when its FinVotes are in, not before.
RoundInv ==
  \A r \in Round, i \in Node :
    r < MaxRound /\ action[r][i] = "ACTION_NONE" => proposal[r + 1][i] = NONE

\* A positive vote names a block that a quorum has stored.
VoteInv ==
  \A r \in Round, i \in Node :
    /\ prevote[r][i] \in Node => Available(prevote[r][i])
    /\ finvote[r][i] \in Node => Available(finvote[r][i])

\* What the FinVote aggregator returned is backed by a quorum of FinVotes.
ActionInv ==
  \A r \in Round, i \in Node :
    /\ action[r][i] = "ACTION_COMMIT" => \E Q \in Quorums : \A j \in Q : finvote[r][j] \in Node
    /\ action[r][i] = "ACTION_NO" => \E Q \in Quorums : \A j \in Q : finvote[r][j] = NO

IInv ==
  /\ TypeOK
  /\ BroadcastInv
  /\ FlagsInv
  /\ RoundInv
  /\ VoteInv
  /\ ActionInv
  /\ HaltIsAvailable

-----------------------------------------------------------------------------
\* A quorum stays one when nodes are added.
LEMMA QuorumGrows ==
  ASSUME NEW S \in Quorums, NEW T \in SUBSET Node, S \subseteq T
  PROVE  T \in Quorums
<1>1. /\ Cardinality(S) \in Nat
      /\ Cardinality(T) \in Nat
      /\ Cardinality(S) <= Cardinality(T)
  BY NodeSets
<1> QED
  BY <1>1, ThresholdType DEF Quorums

\* The round and the block of a Halt.
LEMMA HaltFields ==
  ASSUME NEW a, NEW l, NEW r, NEW b
  PROVE  /\ [author |-> a, leader |-> l, round |-> r, block |-> b].round = r
         /\ [author |-> a, leader |-> l, round |-> r, block |-> b].block = b
OBVIOUS

\* What is available stays so, because no block is ever deleted.
LEMMA AvailableStays ==
  ASSUME \A i \in Node : store[i] \subseteq store'[i], NEW b, Available(b)
  PROVE  Available(b)'
<1>1. {i \in Node : b \in store[i]} \subseteq {i \in Node : b \in store'[i]}
  OBVIOUS
<1> QED
  BY <1>1, QuorumGrows DEF Available

\* A locked block is its proposer's and available: 2f+1 nodes voted for it.
LEMMA LockedAvailable ==
  ASSUME IInv, NEW r \in Round, NEW p \in Node, locked[r][p] # {}
  PROVE  proposal[r][p] = p /\ Available(p)
<1>1. voted[r][p] \in Quorums
  BY DEF IInv, BroadcastInv
<1>2. voted[r][p] # {}
  BY <1>1, FS_EmptySet, ThresholdType DEF Quorums
<1>3. proposal[r][p] = p
  BY <1>2 DEF IInv, BroadcastInv
<1>4. voted[r][p] \subseteq {i \in Node : p \in store[i]}
  BY DEF IInv, BroadcastInv, TypeOK
<1> QED
  BY <1>1, <1>3, <1>4, QuorumGrows DEF Available

\* A part of the invariant is kept by a step that leaves its variables alone.
LEMMA Frames ==
  ASSUME IInv
  PROVE  /\ UNCHANGED <<proposal, store, voted, locked, finish>> => BroadcastInv'
         /\ UNCHANGED <<FinishFlags, finish>> => FlagsInv'
         /\ UNCHANGED <<proposal, action>> => RoundInv'
         /\ UNCHANGED <<store, prevote, finvote>> => VoteInv'
         /\ UNCHANGED <<finvote, action>> => ActionInv'
         /\ UNCHANGED <<store, halts>> => HaltIsAvailable'
<1>1. UNCHANGED <<proposal, store, voted, locked, finish>> => BroadcastInv'
  BY DEF IInv, BroadcastInv
<1>2. UNCHANGED <<FinishFlags, finish>> => FlagsInv'
  BY DEF IInv, FlagsInv
<1>3. UNCHANGED <<proposal, action>> => RoundInv'
  BY DEF IInv, RoundInv
<1>4. UNCHANGED <<store, prevote, finvote>> => VoteInv'
  BY DEF IInv, VoteInv, Available
<1>5. UNCHANGED <<finvote, action>> => ActionInv'
  BY DEF IInv, ActionInv
<1>6. UNCHANGED <<store, halts>> => HaltIsAvailable'
  BY DEF IInv, HaltIsAvailable, Available
<1> QED
  BY <1>1, <1>2, <1>3, <1>4, <1>5, <1>6

LEMMA InitIInv == Init => IInv
<1> SUFFICES ASSUME Init PROVE IInv
  OBVIOUS
<1>1. TypeOK
  BY SMVBAAssumption DEF Init, TypeOK
<1>2. BroadcastInv /\ FlagsInv /\ VoteInv /\ ActionInv /\ HaltIsAvailable
  BY SMVBAAssumption, CommitteeAssumption
  DEF Init, BroadcastInv, FlagsInv, VoteInv, ActionInv, HaltIsAvailable
<1>3. RoundInv
  BY SMVBAAssumption DEF Init, RoundInv, Round
<1> QED
  BY <1>1, <1>2, <1>3 DEF IInv

-----------------------------------------------------------------------------
(* One lemma per group of actions.                                         *)

LEMMA StoreStep ==
  ASSUME IInv, NEW i \in Node, NEW r \in Round, NEW p \in Node, HandleSpbProposal(i, r, p)
  PROVE  IInv'
<1> USE DEF HandleSpbProposal, electVars, voteVars, haltVars
<1>1. TypeOK'
  BY DEF IInv, TypeOK
<1>2. \A j \in Node : store[j] \subseteq store'[j]
  BY DEF IInv, TypeOK
<1>3. BroadcastInv'
  BY <1>2 DEF IInv, BroadcastInv, TypeOK
<1>4. VoteInv'
  BY <1>2, AvailableStays DEF IInv, VoteInv
<1>5. HaltIsAvailable'
  BY <1>2, AvailableStays DEF IInv, HaltIsAvailable
<1> QED
  BY <1>1, <1>3, <1>4, <1>5, Frames DEF IInv

LEMMA VoteOneStep ==
  ASSUME IInv, NEW i \in Node, NEW r \in Round, NEW p \in Node, SpbVote(i, r, p)
  PROVE  IInv'
<1> USE DEF SpbVote, electVars, voteVars, haltVars
<1>1. TypeOK'
  BY DEF IInv, TypeOK
<1>2. voted[r][p] \in Quorums => voted'[r][p] \in Quorums
  <2>1. voted[r][p] \subseteq voted'[r][p] /\ voted'[r][p] \in SUBSET Node
    BY DEF IInv, TypeOK
  <2> QED
    BY <2>1, QuorumGrows, Zenon
<1>3. \A q \in Round, k \in Node :
        voted'[q][k] = IF q = r /\ k = p THEN voted[r][p] \cup {i} ELSE voted[q][k]
  BY Zenon DEF IInv, TypeOK
<1>4. BroadcastInv'
  <2> SUFFICES ASSUME NEW q \in Round, NEW k \in Node
               PROVE  /\ \A j \in voted'[q][k] : k \in store[j]
                      /\ voted'[q][k] # {} => proposal[q][k] = k
                      /\ locked[q][k] # {} => voted'[q][k] \in Quorums
                      /\ k \in finish[q] => locked[q][k] # {}
    BY Zenon DEF BroadcastInv
  <2>1. CASE q = r /\ k = p
    BY <1>2, <1>3, <2>1 DEF IInv, BroadcastInv
  <2>2. CASE ~ (q = r /\ k = p)
    BY <1>3, <2>2 DEF IInv, BroadcastInv
  <2> QED
    BY <2>1, <2>2, Zenon
<1> QED
  BY <1>1, <1>4, Frames, Zenon DEF IInv

LEMMA LockStep ==
  ASSUME IInv, NEW i \in Node, NEW r \in Round, NEW p \in Node, SpbLock(i, r, p)
  PROVE  IInv'
<1> USE DEF SpbLock, electVars, voteVars, haltVars
<1>1. TypeOK'
  BY DEF IInv, TypeOK
<1>2. voted[r][p] \in Quorums
  BY DEF IInv, TypeOK, Quorums
<1>3. BroadcastInv'
  BY <1>2 DEF IInv, BroadcastInv, TypeOK
<1> QED
  BY <1>1, <1>3, Frames, Zenon DEF IInv

LEMMA FinishStep ==
  ASSUME IInv, NEW i \in Node, NEW r \in Round, SpbFinish(i, r)
  PROVE  IInv'
<1> USE DEF SpbFinish, electVars, voteVars, haltVars
<1>1. TypeOK'
  BY ZenonT(40) DEF IInv, TypeOK
<1>2. locked[r][i] # {}
  BY FS_EmptySet, ThresholdType
<1>3. BroadcastInv'
  BY <1>2 DEF IInv, BroadcastInv, TypeOK
<1>4. FlagsInv'
  BY Zenon DEF IInv, FlagsInv, TypeOK
<1> QED
  BY <1>1, <1>3, <1>4, Frames, Zenon DEF IInv

LEMMA HandleFinishStep ==
  ASSUME IInv, NEW i \in Node, NEW r \in Round, NEW p \in Node, HandleFinish(i, r, p)
  PROVE  IInv'
<1> USE DEF HandleFinish, InvokeDoneAndShare, spbVars, voteVars, haltVars
<1>1. p \in finish[r]
  BY Zenon DEF Heard
<1>2. FinishFlags' \in [Node -> [Round -> SUBSET Node]]
  BY DEF IInv, TypeOK
<1>3. done' \in [Round -> SUBSET Node]
  <2>1. done' = done \/ done' = [done EXCEPT ![r] = @ \cup {i}]
    BY Zenon
  <2> QED
    BY <2>1 DEF IInv, TypeOK
<1>5. TypeOK'
  BY <1>2, <1>3, Zenon DEF IInv, TypeOK
<1>4. FlagsInv'
  BY <1>1, Zenon DEF IInv, FlagsInv, TypeOK
<1> QED
  BY <1>4, <1>5, Frames, Zenon DEF IInv

LEMMA DoneLowStep ==
  ASSUME IInv, NEW i \in Node, NEW r \in Round, HandleDoneLow(i, r)
  PROVE  IInv'
<1> USE DEF HandleDoneLow, InvokeDoneAndShare, spbVars, voteVars, haltVars
<1>1. TypeOK'
  BY ZenonT(40) DEF IInv, TypeOK
<1> QED
  BY <1>1, Frames, Zenon DEF IInv

\* processLeader votes for, or halts on, an available block only.
LEMMA LeaderStep ==
  ASSUME IInv, NEW i \in Node, NEW r \in Round, NEW ld \in Node, ProcessLeader(i, r, ld),
         UNCHANGED <<spbVars, FinishFlags, finvote, action>>
  PROVE  /\ prevote' \in [Round -> [Node -> Node \cup {NO, NONE}]]
         /\ halts' \subseteq Halt
         /\ VoteInv'
         /\ HaltIsAvailable'
<1>0. \A b : Available(b)' <=> Available(b)
  BY Zenon DEF Available, spbVars
<1>1. CASE ld \in FinishFlags[i][r]
  <2>1. locked[r][ld] # {}
    BY <1>1, Zenon DEF IInv, FlagsInv, BroadcastInv
  <2>2. proposal[r][ld] = ld /\ Available(ld)
    BY <2>1, LockedAvailable, Zenon
  <2>3. prevote' = prevote /\ finvote' = finvote
    BY <1>1, Zenon DEF ProcessLeader
  <2>4. halts' = halts \cup {[author |-> i, leader |-> ld, round |-> r, block |-> ld]}
    BY <1>1, <2>2, Zenon DEF ProcessLeader
  <2>5. VoteInv'
    BY <1>0, <2>3, Zenon DEF IInv, VoteInv
  <2>6. HaltIsAvailable'
    BY <1>0, <2>2, <2>4 DEF IInv, HaltIsAvailable
  <2>7. halts' \subseteq Halt
    BY <2>4 DEF IInv, TypeOK, Halt
  <2> QED
    BY <2>3, <2>5, <2>6, <2>7, Zenon DEF IInv, TypeOK
<1>2. CASE ld \notin FinishFlags[i][r]
  <2>1. i \in locked[r][ld] => proposal[r][ld] = ld /\ Available(ld)
    BY LockedAvailable, Zenon
  <2> DEFINE v == IF i \in locked[r][ld] THEN proposal[r][ld] ELSE NO
  <2>2. v = NO \/ (v \in Node /\ Available(v))
    BY <2>1, Zenon
  <2>3. halts' = halts /\ finvote' = finvote
    BY <1>2, Zenon DEF ProcessLeader
  <2>4. prevote' = prevote \/ prevote' = [prevote EXCEPT ![r][i] = v]
    BY <1>2, Zenon DEF ProcessLeader
  <2> HIDE DEF v
  <2>5. /\ prevote \in [Round -> [Node -> Node \cup {NO, NONE}]]
        /\ v \in Node \cup {NO, NONE}
    BY <2>2, Zenon DEF IInv, TypeOK
  <2>6. /\ prevote' \in [Round -> [Node -> Node \cup {NO, NONE}]]
        /\ \A q \in Round, k \in Node :
             prevote'[q][k] = prevote[q][k] \/ prevote'[q][k] = v
    <3>1. CASE prevote' = prevote
      BY <2>5, <3>1, Zenon
    <3>2. CASE prevote' = [prevote EXCEPT ![r][i] = v]
      BY <2>5, <3>2, EntryUpdate
    <3> QED
      BY <2>4, <3>1, <3>2, Zenon
  <2>7. VoteInv'
    BY <1>0, <2>2, <2>3, <2>6, SMVBAAssumption, ZenonT(40) DEF IInv, VoteInv
  <2>8. HaltIsAvailable' /\ halts' \subseteq Halt
    BY <1>0, <2>3, Zenon DEF IInv, HaltIsAvailable, TypeOK
  <2> QED
    BY <2>6, <2>7, <2>8, Zenon
<1> QED
  BY <1>1, <1>2, Zenon

\* The two steps that may call processLeader.
LEMMA ElectionStep ==
  ASSUME IInv, NEW i \in Node, NEW r \in Round,
         UNCHANGED <<spbVars, FinishFlags, done, finvote, action, output>>,
         ready' \in [Round -> SUBSET Node], elected' \in [Round -> SUBSET Node],
         leader' \in [Node -> [Round -> Node \cup {NONE}]],
         \/ UNCHANGED <<prevote, halts>>
         \/ \E ld \in Node : ProcessLeader(i, r, ld)
  PROVE  IInv'
<1>1. /\ prevote' \in [Round -> [Node -> Node \cup {NO, NONE}]]
      /\ halts' \subseteq Halt
      /\ VoteInv'
      /\ HaltIsAvailable'
  <2>1. CASE UNCHANGED <<prevote, halts>>
    BY <2>1, Frames, Zenon DEF IInv, TypeOK, spbVars
  <2>2. CASE \E ld \in Node : ProcessLeader(i, r, ld)
    BY <2>2, LeaderStep, Zenon
  <2> QED
    BY <2>1, <2>2, Zenon
<1>2. TypeOK'
  BY <1>1, Zenon DEF IInv, TypeOK, spbVars
<1> QED
  BY <1>1, <1>2, Frames, Zenon DEF IInv, spbVars

LEMMA DoneHighStep ==
  ASSUME IInv, NEW i \in Node, NEW r \in Round, HandleDoneHigh(i, r)
  PROVE  IInv'
<1>1. ready' \in [Round -> SUBSET Node]
  BY Zenon DEF HandleDoneHigh, IInv, TypeOK
<1>2. leader[i][r] # NONE => leader[i][r] \in Node
  BY DEF IInv, TypeOK
<1>3. \/ UNCHANGED <<prevote, halts>>
      \/ \E ld \in Node : ProcessLeader(i, r, ld)
  BY <1>2, Zenon DEF HandleDoneHigh
<1>4. elected' \in [Round -> SUBSET Node] /\ leader' \in [Node -> [Round -> Node \cup {NONE}]]
  BY Zenon DEF HandleDoneHigh, IInv, TypeOK
<1>5. UNCHANGED <<spbVars, FinishFlags, done, finvote, action, output>>
  BY Zenon DEF HandleDoneHigh
<1> QED
  BY <1>1, <1>3, <1>4, <1>5, ElectionStep, Zenon

LEMMA ElectShareStep ==
  ASSUME IInv, NEW i \in Node, NEW r \in Round, HandleElectShare(i, r)
  PROVE  IInv'
<1>1. Coin[r] \in Node
  BY SMVBAAssumption, Zenon
<1>2. leader' \in [Node -> [Round -> Node \cup {NONE}]]
  BY <1>1, Zenon DEF HandleElectShare, AddShareVote, SetLeader, IInv, TypeOK
<1>3. \/ UNCHANGED <<prevote, halts>>
      \/ \E ld \in Node : ProcessLeader(i, r, ld)
  BY <1>1, Zenon DEF HandleElectShare, AddShareVote, SetLeader
<1>4. ready' \in [Round -> SUBSET Node] /\ elected' \in [Round -> SUBSET Node]
  BY Zenon DEF HandleElectShare, AddShareVote, SetLeader, IInv, TypeOK
<1>5. UNCHANGED <<spbVars, FinishFlags, done, finvote, action, output>>
  BY Zenon DEF HandleElectShare, AddShareVote, SetLeader
<1> QED
  BY <1>2, <1>3, <1>4, <1>5, ElectionStep, Zenon

\* A FinVote is sent once.
LEMMA FinvoteSet ==
  ASSUME IInv, NEW i \in Node, NEW r \in Round, finvote[r][i] = NONE,
         NEW v \in Node \cup {NO}, v \in Node => Available(v),
         finvote' = [finvote EXCEPT ![r][i] = v],
         UNCHANGED <<spbVars, electVars, prevote, action, haltVars>>
  PROVE  IInv'
<1> USE DEF spbVars, electVars, haltVars
<1>1. finvote \in [Round -> [Node -> Node \cup {NO, NONE}]]
  BY Zenon DEF IInv, TypeOK
<1>2. /\ finvote' \in [Round -> [Node -> Node \cup {NO, NONE}]]
      /\ \A q \in Round, k \in Node :
           finvote'[q][k] = IF q = r /\ k = i THEN v ELSE finvote[q][k]
  BY <1>1, EntryUpdate
<1>3. TypeOK'
  BY <1>2, Zenon DEF IInv, TypeOK
<1>4. VoteInv'
  <2>1. \A b : Available(b)' <=> Available(b)
    BY Zenon DEF Available
  <2> QED
    BY <1>2, <2>1, Zenon DEF IInv, VoteInv
<1>5. \A q \in Round, k \in Node : finvote[q][k] # NONE => finvote'[q][k] = finvote[q][k]
  BY <1>2, Zenon
<1>6. ActionInv'
  <2> SUFFICES ASSUME NEW q \in Round, NEW k \in Node
               PROVE  /\ action[q][k] = "ACTION_COMMIT" =>
                           \E Q \in Quorums : \A j \in Q : finvote'[q][j] \in Node
                      /\ action[q][k] = "ACTION_NO" =>
                           \E Q \in Quorums : \A j \in Q : finvote'[q][j] = NO
    BY Zenon DEF ActionInv
  <2>1. \A Q \in Quorums : Q \subseteq Node
    BY Zenon DEF Quorums
  <2> QED
    BY <1>5, <2>1, SMVBAAssumption, CommitteeAssumption DEF IInv, ActionInv
<1> QED
  BY <1>3, <1>4, <1>6, Frames, Zenon DEF IInv

LEMMA PrevoteYesStep ==
  ASSUME IInv, NEW i \in Node, NEW r \in Round, NEW j \in Node, HandlePrevoteYes(i, r, j)
  PROVE  IInv'
<1>1. Available(prevote[r][j]) /\ prevote[r][j] \in Node
  BY Zenon DEF HandlePrevoteYes, IInv, VoteInv
<1> QED
  BY <1>1, FinvoteSet, Zenon DEF HandlePrevoteYes

LEMMA PrevoteNoStep ==
  ASSUME IInv, NEW i \in Node, NEW r \in Round, HandlePrevoteNo(i, r)
  PROVE  IInv'
BY FinvoteSet, SMVBAAssumption, Zenon DEF HandlePrevoteNo

LEMMA HaltedStep ==
  ASSUME IInv, NEW i \in Node, NEW h \in halts, HandleHalt(i, h)
  PROVE  IInv'
<1> USE DEF HandleHalt, SetLeader, spbVars, voteVars
<1>1. h \in Halt
  BY Zenon DEF IInv, TypeOK
<1>2. leader' \in [Node -> [Round -> Node \cup {NONE}]]
  BY <1>1, Zenon DEF IInv, TypeOK, Halt
<1>3. output' \in [Node -> Node \cup {NONE}]
  BY <1>1, Zenon DEF IInv, TypeOK, Halt
<1>4. TypeOK'
  BY <1>2, <1>3, Zenon DEF IInv, TypeOK
<1> QED
  BY <1>4, Frames, Zenon DEF IInv

\* A proposal for the next round is made once, so no vote was cast for it yet.
LEMMA NextRoundStep ==
  ASSUME IInv, NEW i \in Node, NEW r \in Round, NEW b, AdvanceNextRound(i, r, b),
         action[r][i] = "ACTION_NONE",
         NEW a \in {"ACTION_YES", "ACTION_NO"},
         action' = [action EXCEPT ![r][i] = a],
         UNCHANGED <<store, voted, locked, finish>>
  PROVE  /\ proposal' \in [Round -> [Node -> Node \cup {NONE}]]
         /\ BroadcastInv'
         /\ RoundInv'
<1>1. action \in [Round -> [Node -> {"ACTION_NONE", "ACTION_YES", "ACTION_NO", "ACTION_COMMIT"}]]
  BY Zenon DEF IInv, TypeOK
<1>2. \A q \in Round, k \in Node :
        action'[q][k] = IF q = r /\ k = i THEN a ELSE action[q][k]
  BY <1>1, EntryUpdate
<1>3. CASE proposal' = proposal
  <2>1. RoundInv'
    BY <1>2, <1>3 DEF IInv, RoundInv
  <2> QED
    BY <1>3, <2>1, Frames, Zenon DEF IInv, TypeOK
<1>4. CASE b \in store[i] /\ r < MaxRound /\ proposal' = [proposal EXCEPT ![r + 1][i] = b]
  <2>1. r + 1 \in Round /\ b \in Node
    BY <1>4, SMVBAAssumption DEF Round, IInv, TypeOK
  <2>2. /\ proposal' \in [Round -> [Node -> Node \cup {NONE}]]
        /\ \A q \in Round, k \in Node :
             proposal'[q][k] = IF q = r + 1 /\ k = i THEN b ELSE proposal[q][k]
    BY <1>4, <2>1, EntryUpdate DEF IInv, TypeOK
  <2>3. proposal[r + 1][i] = NONE
    BY <1>4, Zenon DEF IInv, RoundInv
  <2>4. voted[r + 1][i] = {}
    BY <2>1, <2>3, CommitteeAssumption, Zenon DEF IInv, BroadcastInv
  <2>5. BroadcastInv'
    BY <2>2, <2>4 DEF IInv, BroadcastInv
  <2>6. RoundInv'
    <3> SUFFICES ASSUME NEW q \in Round, NEW k \in Node, q < MaxRound,
                        action'[q][k] = "ACTION_NONE"
                 PROVE  proposal'[q + 1][k] = NONE
      BY Zenon DEF RoundInv
    <3>1. ~ (q = r /\ k = i) /\ action[q][k] = "ACTION_NONE"
      BY <1>2, ZenonT(40)
    <3>2. q + 1 \in Round /\ ~ (q + 1 = r + 1 /\ k = i)
      BY <3>1, SMVBAAssumption DEF Round
    <3> QED
      BY <2>2, <3>1, <3>2 DEF IInv, RoundInv
  <2> QED
    BY <2>2, <2>5, <2>6, Zenon
<1> QED
  BY <1>3, <1>4, Zenon DEF AdvanceNextRound

\* handleFinvote: what it returns is backed by the FinVotes it counted.
LEMMA FinvoteStep ==
  ASSUME IInv, NEW i \in Node, NEW r \in Round, NEW Q \in FinVoteQuorums(i, r),
         NEW last \in Q, HandleFinvote(i, r, Q, last)
  PROVE  IInv'
<1> DEFINE a == FinVoteAction(r, Q)
<1>1. Q \in Quorums /\ Q \subseteq Node /\ \A j \in Q : finvote[r][j] \in Node \cup {NO}
  BY ThresholdType DEF FinVoteQuorums, Heard, Quorums, IInv, TypeOK
<1>2. a \in {"ACTION_YES", "ACTION_NO", "ACTION_COMMIT"}
  BY Zenon DEF FinVoteAction
<1>3. a = "ACTION_COMMIT" => \A j \in Q : finvote[r][j] \in Node
  BY <1>1, Zenon DEF FinVoteAction
<1>4. a = "ACTION_NO" => \A j \in Q : finvote[r][j] = NO
  BY Zenon DEF FinVoteAction
<1>5. /\ action[r][i] = "ACTION_NONE"
      /\ action' = [action EXCEPT ![r][i] = a]
      /\ UNCHANGED <<store, voted, locked, finish, electVars, prevote, finvote, output>>
  BY Zenon DEF HandleFinvote
<1>6. /\ action' \in [Round -> [Node -> {"ACTION_NONE", "ACTION_YES", "ACTION_NO", "ACTION_COMMIT"}]]
      /\ \A q \in Round, k \in Node :
           action'[q][k] = IF q = r /\ k = i THEN a ELSE action[q][k]
  <2>1. action \in [Round -> [Node -> {"ACTION_NONE", "ACTION_YES", "ACTION_NO", "ACTION_COMMIT"}]]
    BY Zenon DEF IInv, TypeOK
  <2> HIDE DEF a
  <2> QED
    BY <1>2, <1>5, <2>1, EntryUpdate
<1>7. \A b : Available(b)' <=> Available(b)
  BY <1>5, Zenon DEF Available
<1> DEFINE Outcome == /\ proposal' \in [Round -> [Node -> Node \cup {NONE}]]
                      /\ halts' \subseteq Halt
                      /\ BroadcastInv'
                      /\ RoundInv'
                      /\ HaltIsAvailable'
<1>8. ASSUME a = "ACTION_COMMIT" PROVE Outcome
  <2>1. /\ halts' = halts \cup {[author |-> i, leader |-> NodeZero, round |-> r,
                                 block |-> finvote[r][last]]}
        /\ proposal' = proposal
    BY <1>8, Zenon DEF HandleFinvote
  <2>2. finvote[r][last] \in Node /\ last \in Node
    BY <1>1, <1>3, <1>8, Zenon
  <2>3. Available(finvote[r][last])
    BY <2>2, Zenon DEF IInv, VoteInv
  <2>4. HaltIsAvailable'
    BY <1>7, <2>1, <2>3 DEF IInv, HaltIsAvailable
  <2>5. halts' \subseteq Halt
    BY <2>1, <2>2, SMVBAAssumption DEF IInv, TypeOK, Halt
  <2>6. RoundInv'
    BY <1>6, <1>8, <2>1, ZenonT(40) DEF IInv, RoundInv
  <2>7. proposal' \in [Round -> [Node -> Node \cup {NONE}]]
    BY <2>1, Zenon DEF IInv, TypeOK
  <2>8. BroadcastInv'
    BY <1>5, <2>1, Frames, Zenon
  <2> QED
    BY <2>4, <2>5, <2>6, <2>7, <2>8, Zenon
<1>9. ASSUME a \in {"ACTION_YES", "ACTION_NO"} PROVE Outcome
  <2>1. halts' = halts /\ \E b : AdvanceNextRound(i, r, b)
    BY <1>9, Zenon DEF HandleFinvote
  <2>2. HaltIsAvailable' /\ halts' \subseteq Halt
    BY <1>5, <2>1, Frames, Zenon DEF IInv, TypeOK
  <2> HIDE DEF a
  <2> QED
    BY <1>5, <1>9, <2>1, <2>2, NextRoundStep, Zenon
<1>10. Outcome
  BY <1>2, <1>8, <1>9, Zenon
<1>11. ActionInv'
  <2> HIDE DEF a
  <2> SUFFICES ASSUME NEW q \in Round, NEW k \in Node
               PROVE  /\ action'[q][k] = "ACTION_COMMIT" =>
                           \E P \in Quorums : \A j \in P : finvote[q][j] \in Node
                      /\ action'[q][k] = "ACTION_NO" =>
                           \E P \in Quorums : \A j \in P : finvote[q][j] = NO
    BY <1>5, Zenon DEF ActionInv
  <2>1. CASE q = r /\ k = i
    BY <1>1, <1>3, <1>4, <1>6, <2>1, Zenon
  <2>2. CASE ~ (q = r /\ k = i)
    BY <1>6, <2>2, ZenonT(40) DEF IInv, ActionInv
  <2> QED
    BY <2>1, <2>2, Zenon
<1>12. TypeOK'
  BY <1>5, <1>6, <1>10, Zenon DEF IInv, TypeOK, electVars
<1>13. VoteInv' /\ FlagsInv'
  BY <1>5, Frames, Zenon DEF electVars
<1> QED
  BY <1>10, <1>11, <1>12, <1>13, Zenon DEF IInv

-----------------------------------------------------------------------------
LEMMA NextIInv == IInv /\ [Next]_vars => IInv'
<1> SUFFICES ASSUME IInv, [Next]_vars PROVE IInv'
  BY Zenon
<1>1. ASSUME NEW i \in Node, SpbStep(i) PROVE IInv'
  BY <1>1, StoreStep, VoteOneStep, LockStep, FinishStep, Zenon DEF SpbStep
<1>2. ASSUME NEW i \in Node, ElectStep(i) PROVE IInv'
  BY <1>2, HandleFinishStep, DoneLowStep, DoneHighStep, ElectShareStep, Zenon DEF ElectStep
<1>3. ASSUME NEW i \in Node, VoteStep(i) PROVE IInv'
  BY <1>3, PrevoteYesStep, PrevoteNoStep, FinvoteStep, Zenon DEF VoteStep
<1>4. ASSUME NEW i \in Node, HaltStep(i) PROVE IInv'
  BY <1>4, HaltedStep, Zenon DEF HaltStep
<1>5. CASE UNCHANGED vars
  <2>1. TypeOK'
    BY <1>5, Zenon DEF vars, spbVars, electVars, voteVars, haltVars, IInv, TypeOK
  <2> QED
    BY <1>5, <2>1, Frames, Zenon DEF vars, spbVars, electVars, voteVars, haltVars, IInv
<1> QED
  BY <1>1, <1>2, <1>3, <1>4, <1>5, SMVBAAssumption, Zenon DEF Next

LEMMA SMVBAInvariant == Spec => []IInv
<1> QED
  BY InitIInv, NextIInv, PTL DEF Spec

\* Every variable of the epoch keeps its type; in particular a Halt always
\* names a block, never the empty digest of a negative vote.
THEOREM SMVBATypeOK == Spec => []TypeOK
<1>1. IInv => TypeOK
  BY Zenon DEF IInv
<1> QED
  BY <1>1, SMVBAInvariant, PTL

\* The block a Halt names is stored by 2f+1 nodes, so the nodes that miss it
\* can obtain it as long as f nodes at most have crashed.
THEOREM SMVBAHaltIsAvailable == Spec => []HaltIsAvailable
<1>1. IInv => HaltIsAvailable
  BY Zenon DEF IInv
<1> QED
  BY <1>1, SMVBAInvariant, PTL

\* In a committee where two quorums meet, ACTION_COMMIT at one node and
\* ACTION_NO at another are exclusive in a round.
THEOREM SMVBACommitExcludesNo ==
  ASSUME 2 * HightThreshold > Size
  PROVE  Spec => []CommitExcludesNo
<1>1. IInv => CommitExcludesNo
  <2> SUFFICES ASSUME IInv, NEW r \in Round, NEW i \in Node, NEW j \in Node,
                      action[r][i] = "ACTION_COMMIT", action[r][j] = "ACTION_NO"
               PROVE  FALSE
    BY Zenon DEF CommitExcludesNo
  <2>1. PICK P \in Quorums : \A k \in P : finvote[r][k] \in Node
    BY Zenon DEF IInv, ActionInv
  <2>2. PICK Q \in Quorums : \A k \in Q : finvote[r][k] = NO
    BY Zenon DEF IInv, ActionInv
  <2>3. P \cap Q # {}
    BY QuorumsMeet, Zenon DEF Quorums
  <2> QED
    BY <2>1, <2>2, <2>3, SMVBAAssumption, Zenon
<1> QED
  BY <1>1, SMVBAInvariant, PTL

-----------------------------------------------------------------------------
\* The thresholds are equal where both are one, in committees of up to three.
LEMMA OneThreshold == HightThreshold = 1 <=> LowThreshold = HightThreshold
BY ThresholdType DEF LowThreshold, HightThreshold

\* A Done takes 2f+1 Finishes, and one more if the thresholds are not one: the
\* count of 2f+2 is the one AddFinishVote reaches then.
DoneInv ==
  \A r \in Round : done[r] # {} =>
    /\ Cardinality(finish[r]) >= HightThreshold
    /\ LowThreshold # HightThreshold => Cardinality(finish[r]) > HightThreshold

\* A step keeps DoneInv if no Finish is taken back and a first Done of a
\* round comes from a set of Finishes that AddFinishVote accepts.
LEMMA BackedStep ==
  ASSUME IInv, DoneInv, TypeOK',
         \A r \in Round : finish[r] \subseteq finish'[r],
         \A r \in Round : done'[r] # {} =>
           \/ done[r] # {}
           \/ \E S \in SUBSET finish[r] : AddFinishVote(S)
  PROVE  DoneInv'
<1> SUFFICES ASSUME NEW r \in Round, done'[r] # {}
             PROVE  /\ Cardinality(finish'[r]) >= HightThreshold
                    /\ LowThreshold # HightThreshold => Cardinality(finish'[r]) > HightThreshold
  BY Zenon DEF DoneInv
<1>1. finish[r] \in SUBSET Node /\ finish'[r] \in SUBSET Node
  BY Zenon DEF IInv, TypeOK
<1>2. /\ Cardinality(finish[r]) >= HightThreshold
      /\ LowThreshold # HightThreshold => Cardinality(finish[r]) > HightThreshold
  <2>1. CASE done[r] # {}
    BY <2>1, Zenon DEF DoneInv
  <2>2. CASE \E S \in SUBSET finish[r] : AddFinishVote(S)
    <3>1. PICK S \in SUBSET finish[r] : AddFinishVote(S)
      BY <2>2, Zenon
    <3>2. /\ Cardinality(S) \in Nat
          /\ Cardinality(finish[r]) \in Nat
          /\ Cardinality(S) <= Cardinality(finish[r])
      BY <1>1, NodeSets, Zenon
    <3> QED
      BY <3>1, <3>2, ThresholdType, OneThreshold DEF AddFinishVote
  <2> QED
    BY <2>1, <2>2, Zenon
<1>3. /\ Cardinality(finish[r]) \in Nat
      /\ Cardinality(finish'[r]) \in Nat
      /\ Cardinality(finish[r]) <= Cardinality(finish'[r])
  BY <1>1, NodeSets, Zenon
<1> QED
  BY <1>2, <1>3, ThresholdType

LEMMA NextDoneInv == IInv /\ DoneInv /\ [Next]_vars => DoneInv'
<1> SUFFICES ASSUME IInv, DoneInv, [Next]_vars PROVE DoneInv'
  BY Zenon
<1>1. TypeOK'
  BY NextIInv, Zenon DEF IInv
<1>2. CASE UNCHANGED <<finish, done>>
  BY <1>2, Zenon DEF DoneInv
<1>3. ASSUME NEW i \in Node, SpbStep(i) PROVE DoneInv'
  <2>1. /\ done' = done
        /\ \/ finish' = finish
           \/ \E r \in Round : finish' = [finish EXCEPT ![r] = @ \cup {i}]
    <3>1. ASSUME NEW r \in Round, SpbFinish(i, r)
          PROVE  done' = done /\ finish' = [finish EXCEPT ![r] = @ \cup {i}]
      BY <3>1, Zenon DEF SpbFinish, electVars
    <3>2. ASSUME NEW r \in Round, NEW p \in Node,
                 HandleSpbProposal(i, r, p) \/ SpbVote(i, r, p) \/ SpbLock(i, r, p)
          PROVE  done' = done /\ finish' = finish
      BY <3>2, Zenon DEF HandleSpbProposal, SpbVote, SpbLock, electVars
    <3> QED
      BY <1>3, <3>1, <3>2, Zenon DEF SpbStep
  <2>2. \A r \in Round : finish[r] \subseteq finish'[r]
    <3>1. finish \in [Round -> SUBSET Node]
      BY Zenon DEF IInv, TypeOK
    <3>2. ASSUME NEW q \in Round, finish' = [finish EXCEPT ![q] = @ \cup {i}]
          PROVE  \A r \in Round : finish[r] \subseteq finish'[r]
      BY <3>1, <3>2, Zenon
    <3> QED
      BY <2>1, <3>2, Zenon
  <2> QED
    BY <1>1, <2>1, <2>2, BackedStep, Zenon
<1>4. ASSUME NEW i \in Node, NEW r \in Round, NEW p \in Node, HandleFinish(i, r, p)
      PROVE  DoneInv'
  <2>1. finish' = finish
    BY <1>4, Zenon DEF HandleFinish, spbVars
  <2>2. FinishFlags[i][r] \cup {p} \in SUBSET finish[r]
    BY <1>4, Zenon DEF HandleFinish, Heard, IInv, FlagsInv
  <2>3. CASE AddFinishVote(FinishFlags[i][r] \cup {p})
    <3>1. \A q \in Round : done'[q] # {} => done[q] # {} \/ q = r
      BY <1>4, <2>3, Zenon DEF HandleFinish, InvokeDoneAndShare, IInv, TypeOK
    <3> QED
      BY <1>1, <2>1, <2>2, <2>3, <3>1, BackedStep, Zenon
  <2>4. CASE ~ AddFinishVote(FinishFlags[i][r] \cup {p})
    BY <1>2, <1>4, <2>1, <2>4, Zenon DEF HandleFinish
  <2> QED
    BY <2>3, <2>4, Zenon
<1>5. ASSUME NEW i \in Node, NEW r \in Round, HandleDoneLow(i, r) PROVE DoneInv'
  <2>1. finish' = finish
    BY <1>5, Zenon DEF HandleDoneLow, spbVars
  <2>2. done[r] # {}
    <3>1. Heard(i, done[r]) \subseteq done[r]
      BY Zenon DEF Heard
    <3>2. Heard(i, done[r]) # {}
      BY <1>5, FS_EmptySet, ThresholdType DEF HandleDoneLow
    <3> QED
      BY <3>1, <3>2, Zenon
  <2>3. \A q \in Round : done'[q] # {} => done[q] # {}
    BY <1>5, <2>2, Zenon DEF HandleDoneLow, InvokeDoneAndShare, IInv, TypeOK
  <2> QED
    BY <1>1, <2>1, <2>3, BackedStep, Zenon
<1>6. ASSUME NEW i \in Node, NEW r \in Round, HandleDoneHigh(i, r) \/ HandleElectShare(i, r)
      PROVE  DoneInv'
  BY <1>2, <1>6, Zenon DEF HandleDoneHigh, HandleElectShare, spbVars
<1>7. ASSUME NEW i \in Node, VoteStep(i) PROVE DoneInv'
  BY <1>2, <1>7, Zenon
  DEF VoteStep, HandlePrevoteYes, HandlePrevoteNo, HandleFinvote, spbVars, electVars
<1>8. ASSUME NEW i \in Node, HaltStep(i) PROVE DoneInv'
  BY <1>2, <1>8, Zenon DEF HaltStep, HandleHalt, spbVars
<1>9. CASE UNCHANGED vars
  BY <1>2, <1>9, Zenon DEF vars, spbVars, electVars
<1> QED
  BY <1>3, <1>4, <1>5, <1>6, <1>7, <1>8, <1>9, SMVBAAssumption, Zenon DEF Next, ElectStep

\* No node asks for an election before 2f+1 proposers have finished.
THEOREM SMVBADoneIsBacked == Spec => []DoneIsBacked
<1>1. Init => DoneInv
  BY Zenon DEF Init, DoneInv
<1>2. DoneInv => DoneIsBacked
  BY Zenon DEF DoneInv, DoneIsBacked
<1> QED
  BY <1>1, <1>2, InitIInv, NextIInv, NextDoneInv, PTL DEF Spec

-----------------------------------------------------------------------------
(* Agreement.  When a block arrives before any Halt for it (Prompt), a     *)
(* Halt that is handled ends the epoch, so that the wrong leader it may    *)
(* carry is never used: in a round everybody speaks of the block of the    *)
(* coin.                                                                   *)

LeaderInv ==
  \A i \in Node, r \in Round : Running(i) => leader[i][r] \in {NONE, Coin[r]}

\* Positive votes, Halts and outputs name the coin's block, which is locked.
NameInv ==
  /\ \A r \in Round, i \in Node :
       /\ prevote[r][i] \in Node => prevote[r][i] = Coin[r] /\ locked[r][Coin[r]] # {}
       /\ finvote[r][i] \in Node => finvote[r][i] = Coin[r] /\ locked[r][Coin[r]] # {}
  /\ \A h \in halts : h.block = Coin[h.round]
  /\ \A i \in Node : output[i] # NONE => \E h \in halts : output[i] = h.block

\* A proposal of the next round is the coin's block, unless its proposer saw
\* 2f+1 negative FinVotes.
CarryInv ==
  \A r \in Round, p \in Node :
    r < MaxRound /\ proposal[r + 1][p] # NONE =>
      \/ action[r][p] = "ACTION_YES" /\ proposal[r + 1][p] = Coin[r]
      \/ action[r][p] = "ACTION_NO"

\* A Done was sent that can be followed by an election.
Begun(r) == done[r] # {} /\ LowThreshold # HightThreshold

\* Votes and Halts come after the first Done; a Finish has 2f+1 locks.
StartInv ==
  /\ \A r \in Round : ~ Begun(r) =>
       \A i \in Node : prevote[r][i] = NONE /\ finvote[r][i] = NONE
  /\ \A h \in halts : Begun(h.round)
  /\ \A r \in Round : ready[r] # {} => Begun(r)
  /\ \A r \in Round, p \in Node : p \in finish[r] => locked[r][p] \in Quorums

\* A negative FinVote comes from 2f+1 negative Prevotes.  If Done takes the
\* Finish of everybody, 2f+1 nodes were locked on the coin's block by then, and
\* none of them votes it down.
NegativeInv ==
  \A r \in Round :
    /\ \A i \in Node : finvote[r][i] = NO => {j \in Node : prevote[r][j] = NO} \in Quorums
    /\ Size <= HightThreshold + 1 /\ (\E i \in Node : prevote[r][i] = NO) =>
         \E Q \in Quorums : Q \subseteq locked[r][Coin[r]] /\ \A j \in Q : prevote[r][j] # NO

CoinInv == LeaderInv /\ NameInv /\ CarryInv /\ StartInv /\ NegativeInv

\* Everything the argument rests on.
AInv == IInv /\ DoneInv /\ CoinInv

LEMMA InitCoinInv == Init => CoinInv
<1> SUFFICES ASSUME Init PROVE CoinInv
  BY Zenon
<1>1. LeaderInv /\ NameInv /\ StartInv
  BY SMVBAAssumption, CommitteeAssumption, Zenon DEF Init, LeaderInv, NameInv, StartInv, Begun
<1>2. CarryInv
  BY SMVBAAssumption DEF Init, CarryInv, Round
<1>3. NegativeInv
  BY SMVBAAssumption, Zenon DEF Init, NegativeInv
<1> QED
  BY <1>1, <1>2, <1>3, Zenon DEF CoinInv

\* A part of the invariant is kept by a step that leaves its variables alone.
LEMMA CoinFrames ==
  ASSUME AInv
  PROVE  /\ UNCHANGED <<leader, output>> => LeaderInv'
         /\ UNCHANGED <<prevote, finvote, halts, output, locked>> => NameInv'
         /\ UNCHANGED <<proposal, action>> => CarryInv'
         /\ UNCHANGED <<done, ready, prevote, finvote, halts, finish, locked>> => StartInv'
         /\ UNCHANGED <<prevote, finvote, locked>> => NegativeInv'
<1>1. UNCHANGED <<leader, output>> => LeaderInv'
  BY Zenon DEF AInv, CoinInv, LeaderInv, Running
<1>2. UNCHANGED <<prevote, finvote, halts, output, locked>> => NameInv'
  BY DEF AInv, CoinInv, NameInv
<1>3. UNCHANGED <<proposal, action>> => CarryInv'
  BY Zenon DEF AInv, CoinInv, CarryInv
<1>4. UNCHANGED <<done, ready, prevote, finvote, halts, finish, locked>> => StartInv'
  BY Zenon DEF AInv, CoinInv, StartInv, Begun
<1>5. UNCHANGED <<prevote, finvote, locked>> => NegativeInv'
  BY Zenon DEF AInv, CoinInv, NegativeInv
<1> QED
  BY <1>1, <1>2, <1>3, <1>4, <1>5, Zenon

\* A step keeps NameInv if its new Prevotes and Halts name the coin's block.
LEMMA NameStep ==
  ASSUME NameInv, UNCHANGED <<finvote, output, locked>>, halts \subseteq halts',
         \A h \in halts' : h.block = Coin[h.round],
         \A q \in Round, k \in Node : prevote'[q][k] \in Node =>
           prevote'[q][k] = Coin[q] /\ locked[q][Coin[q]] # {}
  PROVE  NameInv'
BY Zenon DEF NameInv

\* Steps of the broadcasts: locks and Finishes are only added.
LEMMA CoinSpbStep ==
  ASSUME AInv, NEW i \in Node, SpbStep(i)
  PROVE  CoinInv'
<1>1. UNCHANGED <<proposal, electVars, voteVars, haltVars>>
  BY Zenon DEF SpbStep, SpbFinish, HandleSpbProposal, SpbVote, SpbLock
<1>2. LeaderInv' /\ CarryInv'
  BY <1>1, CoinFrames, Zenon DEF electVars, voteVars, haltVars
<1>3. CASE UNCHANGED <<locked, finish>>
  BY <1>1, <1>2, <1>3, CoinFrames, Zenon DEF electVars, voteVars, haltVars, CoinInv
<1>4. ASSUME NEW r \in Round, NEW p \in Node, SpbLock(i, r, p) PROVE CoinInv'
  <2>1. locked \in [Round -> [Node -> SUBSET Node]] /\ locked[r][p] \cup {i} \in SUBSET Node
    BY DEF AInv, IInv, TypeOK
  <2>2. /\ \A q \in Round, k \in Node : locked'[q][k] \in SUBSET Node
        /\ \A q \in Round, k \in Node : locked[q][k] \subseteq locked'[q][k]
    <3>1. locked' = [locked EXCEPT ![r][p] = locked[r][p] \cup {i}]
      BY <1>4, Zenon DEF SpbLock
    <3>2. \A q \in Round, k \in Node :
            locked'[q][k] = IF q = r /\ k = p THEN locked[r][p] \cup {i} ELSE locked[q][k]
      BY <2>1, <3>1, EntryUpdate
    <3> QED
      BY <2>1, <3>2, ZenonT(40)
  <2>3. finish' = finish
    BY <1>4, Zenon DEF SpbLock
  <2>4. NameInv'
    BY <1>1, <2>2, SMVBAAssumption DEF AInv, CoinInv, NameInv, voteVars, haltVars
  <2>5. StartInv'
    BY <1>1, <2>2, <2>3, QuorumGrows, Zenon
    DEF AInv, CoinInv, StartInv, Begun, electVars, voteVars, haltVars
  <2>6. NegativeInv'
    <3> SUFFICES ASSUME NEW q \in Round
                 PROVE  /\ \A j \in Node : finvote[q][j] = NO =>
                             {k \in Node : prevote[q][k] = NO} \in Quorums
                        /\ Size <= HightThreshold + 1 /\ (\E j \in Node : prevote[q][j] = NO) =>
                             \E Q \in Quorums : /\ Q \subseteq locked'[q][Coin[q]]
                                                /\ \A j \in Q : prevote[q][j] # NO
      BY <1>1, Zenon DEF NegativeInv, voteVars
    <3>1. locked[q][Coin[q]] \subseteq locked'[q][Coin[q]]
      BY <2>2, SMVBAAssumption, Zenon
    <3> QED
      BY <3>1, Zenon DEF AInv, CoinInv, NegativeInv
  <2> QED
    BY <1>2, <2>4, <2>5, <2>6, Zenon DEF CoinInv
<1>5. ASSUME NEW r \in Round, SpbFinish(i, r) PROVE CoinInv'
  <2>1. locked' = locked
    BY <1>5, Zenon DEF SpbFinish
  <2>2. \A q \in Round : finish'[q] = IF q = r THEN finish[q] \cup {i} ELSE finish[q]
    BY <1>5, Zenon DEF SpbFinish, AInv, IInv, TypeOK
  <2>3. locked[r][i] \in Quorums
    BY <1>5 DEF SpbFinish, AInv, IInv, TypeOK, Quorums
  <2>4. ASSUME NEW q \in Round, NEW p \in Node, p \in finish'[q]
        PROVE  locked'[q][p] \in Quorums
    <3>1. p \in finish[q] \/ (q = r /\ p = i)
      BY <2>2, <2>4, Zenon
    <3>2. CASE p \in finish[q]
      BY <2>1, <3>2, Zenon DEF AInv, CoinInv, StartInv
    <3>3. CASE q = r /\ p = i
      BY <2>1, <2>3, <3>3, Zenon
    <3> QED
      BY <3>1, <3>2, <3>3, Zenon
  <2>5. StartInv'
    BY <1>1, <2>4, Zenon DEF AInv, CoinInv, StartInv, Begun, electVars, voteVars, haltVars
  <2> QED
    BY <1>1, <1>2, <2>1, <2>5, CoinFrames, Zenon DEF voteVars, haltVars, CoinInv
<1>6. ASSUME NEW r \in Round, NEW p \in Node, HandleSpbProposal(i, r, p) \/ SpbVote(i, r, p)
      PROVE  UNCHANGED <<locked, finish>>
  BY <1>6, Zenon DEF HandleSpbProposal, SpbVote
<1> QED
  BY <1>3, <1>4, <1>5, <1>6, Zenon DEF SpbStep

\* Steps that at most add a Done.
LEMMA CoinDoneStep ==
  ASSUME AInv, NEW i \in Node, NEW r \in Round,
         HandleDoneLow(i, r) \/ \E p \in Node : HandleFinish(i, r, p)
  PROVE  CoinInv'
<1>1. UNCHANGED <<spbVars, ready, leader, voteVars, haltVars>>
  BY Zenon DEF HandleDoneLow, HandleFinish
<1>2. done' = done \/ done' = [done EXCEPT ![r] = @ \cup {i}]
  BY Zenon DEF HandleDoneLow, HandleFinish, InvokeDoneAndShare
<1>3. \A q \in Round : done[q] \subseteq done'[q]
  <2>1. done \in [Round -> SUBSET Node]
    BY Zenon DEF AInv, IInv, TypeOK
  <2> QED
    BY <1>2, <2>1, Zenon
<1>4. \A h \in halts : h.round \in Round
  BY Zenon DEF AInv, IInv, TypeOK, Halt
<1>5. StartInv'
  BY <1>1, <1>3, <1>4, Zenon DEF AInv, CoinInv, StartInv, Begun, spbVars, voteVars, haltVars
<1> QED
  BY <1>1, <1>5, CoinFrames, Zenon DEF spbVars, voteVars, haltVars, CoinInv

\* processLeader speaks of the coin's block.
LEMMA CoinLeaderStep ==
  ASSUME AInv, NEW i \in Node, NEW r \in Round, ProcessLeader(i, r, Coin[r]), Begun(r),
         \A q \in Round : ready'[q] # {} => Begun(q),
         UNCHANGED <<spbVars, done, finvote, action, output>>
  PROVE  NameInv' /\ StartInv' /\ NegativeInv'
<1> DEFINE c == Coin[r]
<1>0. c \in Node
  BY SMVBAAssumption, Zenon
<1>1. locked[r][c] # {} => proposal[r][c] = c
  BY <1>0, LockedAvailable, Zenon DEF AInv
<1>2. NameInv /\ StartInv
  BY Zenon DEF AInv, CoinInv
<1>3. CASE c \in FinishFlags[i][r]
  <2>1. locked[r][c] # {}
    BY <1>0, <1>3, Zenon DEF AInv, IInv, FlagsInv, BroadcastInv
  <2> DEFINE x == [author |-> i, leader |-> c, round |-> r, block |-> c]
  <2>2. halts' = halts \cup {x} /\ prevote' = prevote
    BY <1>1, <1>3, <2>1, Zenon DEF ProcessLeader
  <2>3. x.round = r /\ x.block = c
    BY HaltFields, Zenon
  <2> HIDE DEF x
  <2>4. \A h \in halts' : h \in halts \/ (h.round = r /\ h.block = c)
    BY <2>2, <2>3, Zenon
  <2>5. NameInv'
    <3>1. \A h \in halts' : h.block = Coin[h.round]
      BY <1>2, <2>4, Zenon DEF NameInv
    <3>2. halts \subseteq halts' /\ UNCHANGED <<finvote, output, locked>>
      BY <2>2, Zenon DEF spbVars
    <3>3. \A q \in Round, k \in Node : prevote'[q][k] \in Node =>
            prevote'[q][k] = Coin[q] /\ locked[q][Coin[q]] # {}
      BY <1>2, <2>2, Zenon DEF NameInv
    <3> QED
      BY <1>2, <3>1, <3>2, <3>3, NameStep, Zenon
  <2>6. StartInv'
    <3>1. \A h \in halts' : Begun(h.round)
      BY <2>4, <1>2, Zenon DEF StartInv
    <3>2. UNCHANGED <<done, prevote, finvote, finish, locked>>
      BY <2>2, Zenon DEF spbVars
    <3> QED
      BY <3>1, <3>2, <1>2, ZenonT(40) DEF StartInv, Begun
  <2> QED
    BY <2>2, <2>5, <2>6, CoinFrames, Zenon DEF spbVars
<1>4. CASE c \notin FinishFlags[i][r]
  <2> DEFINE v == IF i \in locked[r][c] THEN proposal[r][c] ELSE NO
  <2>1. \/ v = NO /\ i \notin locked[r][c]
        \/ v = c /\ locked[r][c] # {}
    BY <1>1, Zenon
  <2>2. halts' = halts
    BY <1>4, Zenon DEF ProcessLeader
  <2>3. prevote' = prevote \/ (prevote[r][i] = NONE /\ prevote' = [prevote EXCEPT ![r][i] = v])
    BY <1>4, Zenon DEF ProcessLeader
  <2> HIDE DEF v
  <2>4. CASE prevote' = prevote
    <3>1. StartInv'
      BY <1>2, <2>2, <2>4, Zenon DEF StartInv, Begun, spbVars
    <3> QED
      BY <2>2, <2>4, <3>1, CoinFrames, Zenon DEF spbVars
  <2>5. CASE prevote[r][i] = NONE /\ prevote' = [prevote EXCEPT ![r][i] = v]
    <3>1. \A q \in Round, k \in Node :
            prevote'[q][k] = IF q = r /\ k = i THEN v ELSE prevote[q][k]
      <4>1. prevote \in [Round -> [Node -> Node \cup {NO, NONE}]] /\ v \in Node \cup {NO, NONE}
        BY <1>0, <2>1, Zenon DEF AInv, IInv, TypeOK
      <4> QED
        BY <2>5, <4>1, EntryUpdate
    <3>2. UNCHANGED <<done, finvote, halts, output, finish, locked>>
      BY <2>2, Zenon DEF spbVars
    <3>3. \A q \in Round, k \in Node :
            prevote'[q][k] = prevote[q][k] \/ (q = r /\ prevote'[q][k] = v)
      BY <3>1, Zenon
    <3>4. NameInv'
      <4>1. v \in Node => v = Coin[r] /\ locked[r][Coin[r]] # {}
        BY <2>1, SMVBAAssumption, Zenon
      <4>2. ASSUME NEW q \in Round, NEW k \in Node, prevote'[q][k] \in Node
            PROVE  prevote'[q][k] = Coin[q] /\ locked[q][Coin[q]] # {}
        <5>1. CASE prevote'[q][k] = prevote[q][k]
          BY <1>2, <4>2, <5>1, Zenon DEF NameInv
        <5>2. CASE q = r /\ prevote'[q][k] = v
          BY <4>1, <4>2, <5>2, Zenon
        <5> QED
          BY <3>3, <5>1, <5>2, Zenon
      <4>3. \A h \in halts' : h.block = Coin[h.round]
        BY <1>2, <3>2, Zenon DEF NameInv
      <4> QED
        BY <1>2, <3>2, <4>2, <4>3, NameStep, Zenon
    <3>5. StartInv'
      <4>1. \A q \in Round : ~ Begun(q) =>
              \A k \in Node : prevote'[q][k] = NONE /\ finvote[q][k] = NONE
        BY <3>3, <1>2, Zenon DEF StartInv
      <4> QED
        BY <3>2, <4>1, <1>2, ZenonT(40) DEF StartInv, Begun
    <3>6. NegativeInv'
      <4> SUFFICES ASSUME NEW q \in Round
                   PROVE  /\ \A j \in Node : finvote[q][j] = NO =>
                               {k \in Node : prevote'[q][k] = NO} \in Quorums
                          /\ Size <= HightThreshold + 1 /\ (\E j \in Node : prevote'[q][j] = NO) =>
                               \E Q \in Quorums : /\ Q \subseteq locked[q][Coin[q]]
                                                  /\ \A j \in Q : prevote'[q][j] # NO
        BY Zenon DEF NegativeInv, spbVars
      <4>1. {k \in Node : prevote[q][k] = NO} \subseteq {k \in Node : prevote'[q][k] = NO}
        BY <2>5, <3>1, SMVBAAssumption
      <4>2. ASSUME NEW j \in Node, finvote[q][j] = NO
            PROVE  {k \in Node : prevote'[q][k] = NO} \in Quorums
        BY <4>1, <4>2, QuorumGrows, Zenon DEF AInv, CoinInv, NegativeInv
      <4>3. ASSUME Size <= HightThreshold + 1, NEW j \in Node, prevote'[q][j] = NO
            PROVE  \E Q \in Quorums : /\ Q \subseteq locked[q][Coin[q]]
                                      /\ \A k \in Q : prevote'[q][k] # NO
        <5>1. CASE \E k \in Node : prevote[q][k] = NO
          <6>1. PICK Q \in Quorums : /\ Q \subseteq locked[q][Coin[q]]
                                     /\ \A k \in Q : prevote[q][k] # NO
            BY <4>3, <5>1, Zenon DEF AInv, CoinInv, NegativeInv
          <6>2. Q \subseteq Node
            BY ZenonT(40) DEF Quorums
          <6>3. \A k \in Q : prevote'[q][k] # NO
            BY <2>1, <3>1, <6>1, <6>2, <1>0, SMVBAAssumption
          <6> QED
            BY <6>1, <6>3, Zenon
        <5>2. CASE \A k \in Node : prevote[q][k] # NO
          <6>1. q = r /\ v = NO /\ i \notin locked[r][c]
            BY <2>1, <3>1, <4>3, <5>2, <1>0, SMVBAAssumption, Zenon
          <6>2. finish[r] = Node
            <7>1. finish[r] \in SUBSET Node /\ Cardinality(finish[r]) > HightThreshold
              BY Zenon DEF AInv, DoneInv, Begun, IInv, TypeOK
            <7>2. /\ Cardinality(finish[r]) \in Nat
                  /\ Cardinality(Node) \in Nat
                  /\ Cardinality(finish[r]) <= Cardinality(Node)
              BY <7>1, NodeSets, Zenon
            <7>3. Cardinality(Node) = Cardinality(finish[r])
              BY <4>3, <7>1, <7>2, ThresholdType DEF Size
            <7> QED
              BY <7>1, <7>3, CommitteeAssumption, FS_Subset, Zenon
          <6>3. locked[r][c] \in Quorums
            BY <1>0, <6>2, Zenon DEF AInv, CoinInv, StartInv
          <6>4. \A k \in locked[r][c] : prevote'[r][k] # NO
            <7>1. locked[r][c] \subseteq Node
              BY <1>0 DEF AInv, IInv, TypeOK
            <7> QED
              BY <3>1, <5>2, <6>1, <7>1, Zenon
          <6> QED
            BY <6>1, <6>3, <6>4, Zenon
        <5> QED
          BY <5>1, <5>2, Zenon
      <4> QED
        BY <4>2, <4>3, Zenon
    <3> QED
      BY <3>4, <3>5, <3>6, ZenonT(40)
  <2> QED
    BY <2>3, <2>4, <2>5, Zenon
<1> QED
  BY <1>3, <1>4, Zenon

LEMMA CoinElectStep ==
  ASSUME AInv, NEW i \in Node, NEW r \in Round, HandleDoneHigh(i, r) \/ HandleElectShare(i, r)
  PROVE  CoinInv'
<1>1. UNCHANGED <<spbVars, FinishFlags, done, finvote, action, output>>
  BY Zenon DEF HandleDoneHigh, HandleElectShare, AddShareVote
<1>2. /\ \A q \in Round : ready'[q] # {} => Begun(q)
      /\ UNCHANGED <<prevote, halts>> \/ Begun(r)
  <2>1. CASE HandleDoneHigh(i, r)
    <3>1. Begun(r)
      BY <2>1, Zenon DEF HandleDoneHigh, Begun
    <3>2. \A q \in Round : ready'[q] # {} => ready[q] # {} \/ q = r
      BY <2>1, Zenon DEF HandleDoneHigh, AInv, IInv, TypeOK
    <3> QED
      BY <3>1, <3>2, Zenon DEF AInv, CoinInv, StartInv
  <2>2. CASE HandleElectShare(i, r)
    BY <2>2, Zenon DEF HandleElectShare, AInv, CoinInv, StartInv
  <2> QED
    BY <2>1, <2>2, Zenon
<1>3. UNCHANGED <<prevote, halts>> \/ ProcessLeader(i, r, Coin[r])
  BY Zenon DEF HandleDoneHigh, HandleElectShare, AInv, CoinInv, LeaderInv
<1>4. NameInv' /\ StartInv' /\ NegativeInv'
  <2>1. CASE UNCHANGED <<prevote, halts>>
    <3>1. StartInv'
      BY <1>1, <1>2, <2>1, Zenon DEF AInv, CoinInv, StartInv, Begun, spbVars
    <3> QED
      BY <1>1, <2>1, <3>1, CoinFrames, Zenon DEF spbVars
  <2>2. CASE ProcessLeader(i, r, Coin[r]) /\ Begun(r)
    BY <1>1, <1>2, <2>2, CoinLeaderStep, Zenon
  <2> QED
    BY <1>2, <1>3, <2>1, <2>2, Zenon
<1>5. LeaderInv'
  <2>1. leader' = leader \/ leader' = [leader EXCEPT ![i][r] = Coin[r]]
    BY Zenon DEF HandleDoneHigh, HandleElectShare, AddShareVote, SetLeader
  <2>2. leader \in [Node -> [Round -> Node \cup {NONE}]] /\ Coin[r] \in Node \cup {NONE}
    BY SMVBAAssumption, Zenon DEF AInv, IInv, TypeOK
  <2>3. CASE leader' = leader
    BY <1>1, <2>3, CoinFrames, Zenon
  <2>4. CASE leader' = [leader EXCEPT ![i][r] = Coin[r]]
    <3>1. \A k \in Node, q \in Round :
            leader'[k][q] = IF k = i /\ q = r THEN Coin[r] ELSE leader[k][q]
      BY <2>2, <2>4, EntryUpdate
    <3> QED
      BY <1>1, <3>1, Zenon DEF AInv, CoinInv, LeaderInv, Running
  <2> QED
    BY <2>1, <2>3, <2>4, Zenon
<1>6. CarryInv'
  BY <1>1, CoinFrames, Zenon DEF spbVars
<1> QED
  BY <1>4, <1>5, <1>6, Zenon DEF CoinInv

\* A FinVote repeats a positive Prevote or follows 2f+1 negative ones.
LEMMA CoinFinvoteSet ==
  ASSUME AInv, NEW i \in Node, NEW r \in Round, NEW v,
         \/ v = Coin[r] /\ locked[r][Coin[r]] # {}
         \/ v = NO /\ {j \in Node : prevote[r][j] = NO} \in Quorums,
         Begun(r),
         finvote' = [finvote EXCEPT ![r][i] = v],
         UNCHANGED <<spbVars, electVars, prevote, action, haltVars>>
  PROVE  CoinInv'
<1> USE DEF spbVars, electVars, haltVars
<1>1. \A q \in Round, k \in Node :
        finvote'[q][k] = IF q = r /\ k = i THEN v ELSE finvote[q][k]
  <2>1. finvote \in [Round -> [Node -> Node \cup {NO, NONE}]] /\ v \in Node \cup {NO, NONE}
    BY SMVBAAssumption, Zenon DEF AInv, IInv, TypeOK
  <2> QED
    BY <2>1, EntryUpdate
<1>2. NameInv'
  <2>1. \A q \in Round, k \in Node : finvote'[q][k] \in Node =>
          finvote'[q][k] = Coin[q] /\ locked[q][Coin[q]] # {}
    BY <1>1, SMVBAAssumption DEF AInv, CoinInv, NameInv
  <2> QED
    BY <2>1, ZenonT(40) DEF AInv, CoinInv, NameInv
<1>3. StartInv'
  BY <1>1 DEF AInv, CoinInv, StartInv, Begun
<1>4. NegativeInv'
  <2>1. ASSUME NEW q \in Round, NEW k \in Node, finvote'[q][k] = NO
        PROVE  {j \in Node : prevote[q][j] = NO} \in Quorums
    <3>1. CASE q = r /\ k = i
      BY <1>1, <2>1, <3>1, SMVBAAssumption
    <3>2. CASE ~ (q = r /\ k = i)
      BY <1>1, <2>1, <3>2 DEF AInv, CoinInv, NegativeInv
    <3> QED
      BY <3>1, <3>2, Zenon
  <2> QED
    BY <2>1, Zenon DEF AInv, CoinInv, NegativeInv
<1> QED
  BY <1>2, <1>3, <1>4, CoinFrames, Zenon DEF CoinInv

LEMMA CoinPrevoteStep ==
  ASSUME AInv, NEW i \in Node, NEW r \in Round,
         HandlePrevoteNo(i, r) \/ \E j \in Node : HandlePrevoteYes(i, r, j)
  PROVE  CoinInv'
<1>1. CASE HandlePrevoteNo(i, r)
  <2> DEFINE N == {j \in Node : prevote[r][j] = NO}
  <2>1. N \in Quorums
    <3> DEFINE S == {j \in Heard(i, Node) : prevote[r][j] = NO}
    <3>1. S \subseteq N /\ N \in SUBSET Node
      BY Zenon DEF Heard
    <3>2. S \in Quorums
      BY <1>1, <3>1, Zenon DEF HandlePrevoteNo, Quorums
    <3> QED
      BY <3>1, <3>2, QuorumGrows, Zenon
  <2>2. N # {}
    BY <2>1, FS_EmptySet, ThresholdType DEF Quorums
  <2>3. Begun(r)
    BY <2>2, SMVBAAssumption, Zenon DEF AInv, CoinInv, StartInv
  <2> QED
    BY <1>1, <2>1, <2>3, CoinFinvoteSet, Zenon DEF HandlePrevoteNo
<1>2. ASSUME NEW j \in Node, HandlePrevoteYes(i, r, j) PROVE CoinInv'
  <2>1. prevote[r][j] = Coin[r] /\ locked[r][Coin[r]] # {}
    BY <1>2, Zenon DEF HandlePrevoteYes, AInv, CoinInv, NameInv
  <2>2. Begun(r)
    BY <1>2, CommitteeAssumption, Zenon DEF HandlePrevoteYes, AInv, CoinInv, StartInv
  <2> QED
    BY <1>2, <2>1, <2>2, CoinFinvoteSet, Zenon DEF HandlePrevoteYes
<1> QED
  BY <1>1, <1>2, Zenon

\* handleFinvote: a Halt for the coin's block, or the proposal of the next round.
LEMMA CoinFinvoteStep ==
  ASSUME AInv, NEW i \in Node, NEW r \in Round, NEW Q \in FinVoteQuorums(i, r),
         NEW last \in Q, HandleFinvote(i, r, Q, last)
  PROVE  CoinInv'
<1> DEFINE a == FinVoteAction(r, Q)
<1>1. last \in Node /\ finvote[r][last] \in Node \cup {NO}
  BY DEF FinVoteQuorums, Heard, AInv, IInv, TypeOK
<1>2. Begun(r)
  BY <1>1, SMVBAAssumption, CommitteeAssumption, Zenon DEF AInv, CoinInv, StartInv
<1>3. /\ action[r][i] = "ACTION_NONE"
      /\ action' = [action EXCEPT ![r][i] = a]
      /\ UNCHANGED <<store, voted, locked, finish, electVars, prevote, finvote, output>>
  BY Zenon DEF HandleFinvote
<1>4. a \in {"ACTION_YES", "ACTION_NO", "ACTION_COMMIT"}
  BY Zenon DEF FinVoteAction
<1>5. a = "ACTION_COMMIT" => finvote[r][last] = Coin[r]
  BY <1>1, ZenonT(40) DEF FinVoteAction, AInv, CoinInv, NameInv
<1>6. finvote[r][last] = NO \/ finvote[r][last] = Coin[r]
  BY <1>1, Zenon DEF AInv, CoinInv, NameInv
<1>7. LeaderInv' /\ NegativeInv'
  BY <1>3, CoinFrames, Zenon DEF electVars
<1>8. /\ action \in [Round -> [Node -> {"ACTION_NONE", "ACTION_YES", "ACTION_NO", "ACTION_COMMIT"}]]
      /\ proposal \in [Round -> [Node -> Node \cup {NONE}]]
      /\ store[i] \subseteq Node
      /\ proposal[r][i] \in Node \cup {NONE}
  BY DEF AInv, IInv, TypeOK
<1>9. \A q \in Round, k \in Node : action'[q][k] = IF q = r /\ k = i THEN a ELSE action[q][k]
  <2> HIDE DEF a
  <2>1. action' = [action EXCEPT ![r][i] = a]
    BY <1>3, Zenon
  <2>2. action \in [Round -> [Node -> {"ACTION_NONE", "ACTION_YES", "ACTION_NO", "ACTION_COMMIT"}]]
    BY <1>8, Zenon
  <2> QED
    BY <2>1, <2>2, Zenon
<1>10. r < MaxRound => r + 1 \in Round /\ proposal[r + 1][i] = NONE
  BY <1>3, SMVBAAssumption DEF Round, AInv, IInv, RoundInv
\* The proposals of the next round.
<1>11. ASSUME proposal' = proposal PROVE CarryInv'
  <2> HIDE DEF a
  <2> SUFFICES ASSUME NEW q \in Round, NEW p \in Node, q < MaxRound, proposal[q + 1][p] # NONE
               PROVE  \/ action'[q][p] = "ACTION_YES" /\ proposal[q + 1][p] = Coin[q]
                      \/ action'[q][p] = "ACTION_NO"
    BY <1>11, Zenon DEF CarryInv
  <2>1. ~ (q = r /\ p = i)
    BY <1>10, Zenon
  <2> QED
    BY <1>9, <2>1 DEF AInv, CoinInv, CarryInv
<1>12. ASSUME NEW b, AdvanceNextRound(i, r, b), a = "ACTION_NO" \/ (a = "ACTION_YES" /\ b \in {NO, Coin[r]})
       PROVE  CarryInv'
  <2>1. CASE b \in store[i] /\ r < MaxRound
    <3>1. proposal' = [proposal EXCEPT ![r + 1][i] = b] /\ b \in Node
      BY <1>8, <1>12, <2>1, ZenonT(40) DEF AdvanceNextRound
    <3>2. \A q \in Round, k \in Node :
            proposal'[q][k] = IF q = r + 1 /\ k = i THEN b ELSE proposal[q][k]
      BY <1>8, <1>10, <2>1, <3>1, EntryUpdate
    <3> HIDE DEF a
    <3> SUFFICES ASSUME NEW q \in Round, NEW p \in Node, q < MaxRound, proposal'[q + 1][p] # NONE
                 PROVE  \/ action'[q][p] = "ACTION_YES" /\ proposal'[q + 1][p] = Coin[q]
                        \/ action'[q][p] = "ACTION_NO"
      BY Zenon DEF CarryInv
    <3>3. CASE q = r /\ p = i
      <4>1. action'[r][i] = a
        BY <1>9, Zenon
      <4>2. proposal'[r + 1][i] = b
        BY <1>10, <2>1, <3>2, Zenon
      <4>3. b # NO
        BY <3>1, SMVBAAssumption, Zenon
      <4> QED
        BY <1>12, <3>3, <4>1, <4>2, <4>3, Zenon
    <3>4. CASE ~ (q = r /\ p = i)
      <4>1. q + 1 \in Round /\ ~ (q + 1 = r + 1 /\ p = i)
        BY <3>4, SMVBAAssumption DEF Round
      <4>2. action'[q][p] = action[q][p] /\ proposal'[q + 1][p] = proposal[q + 1][p]
        BY <1>9, <3>2, <3>4, <4>1, Zenon
      <4> QED
        BY <4>2, Zenon DEF AInv, CoinInv, CarryInv
    <3> QED
      BY <3>3, <3>4, Zenon
  <2>2. CASE ~ (b \in store[i] /\ r < MaxRound)
    BY <1>11, <1>12, <2>2, Zenon DEF AdvanceNextRound
  <2> QED
    BY <2>1, <2>2, Zenon
<1>13. ASSUME halts' = halts PROVE NameInv' /\ StartInv'
  BY <1>3, <1>13, CoinFrames, Zenon DEF electVars
<1>14. CASE a = "ACTION_COMMIT"
  <2> DEFINE x == [author |-> i, leader |-> NodeZero, round |-> r, block |-> Coin[r]]
  <2>1. halts' = halts \cup {x} /\ proposal' = proposal
    BY <1>5, <1>14, Zenon DEF HandleFinvote
  <2>2. \A h \in halts' : h.block = Coin[h.round] /\ Begun(h.round)
    <3>1. \A h \in halts : h.block = Coin[h.round] /\ Begun(h.round)
      BY Zenon DEF AInv, CoinInv, NameInv, StartInv
    <3>2. x.round = r /\ x.block = Coin[r]
      BY HaltFields, Zenon
    <3> HIDE DEF x
    <3> QED
      BY <1>2, <2>1, <3>1, <3>2, Zenon
  <2>3. halts \subseteq halts'
    BY <2>1, Zenon
  <2>4. NameInv'
    BY <1>3, <2>2, <2>3, Zenon DEF AInv, CoinInv, NameInv
  <2>5. StartInv'
    BY <1>3, <2>2, Zenon DEF AInv, CoinInv, StartInv, Begun, electVars
  <2> QED
    BY <1>7, <1>11, <2>1, <2>4, <2>5, Zenon DEF CoinInv
<1>15. CASE a = "ACTION_YES"
  <2>1. AdvanceNextRound(i, r, finvote[r][last]) /\ halts' = halts
    BY <1>15, Zenon DEF HandleFinvote
  <2> QED
    BY <1>6, <1>7, <1>12, <1>13, <1>15, <2>1, Zenon DEF CoinInv
<1>16. CASE a = "ACTION_NO"
  <2>1. AdvanceNextRound(i, r, OwnBlock(i, r)) /\ halts' = halts
    BY <1>16, Zenon DEF HandleFinvote
  <2> QED
    BY <1>7, <1>12, <1>13, <1>16, <2>1, Zenon DEF CoinInv
<1> QED
  BY <1>4, <1>14, <1>15, <1>16, Zenon

\* handleHalt overwrites the leader and, as the block is there, ends the epoch.
LEMMA CoinHaltStep ==
  ASSUME Prompt, AInv, NEW i \in Node, NEW h \in halts, HandleHalt(i, h)
  PROVE  CoinInv'
<1>1. UNCHANGED <<spbVars, done, ready, voteVars, halts>>
  BY Zenon DEF HandleHalt
<1>2. h.block \in Node /\ h.round \in Round /\ h.leader \in Node
  BY Zenon DEF AInv, IInv, TypeOK, Halt
<1>3. output' = [output EXCEPT ![i] = h.block]
  BY Zenon DEF HandleHalt
<1>4. output \in [Node -> Node \cup {NONE}] /\ leader \in [Node -> [Round -> Node \cup {NONE}]]
  BY Zenon DEF AInv, IInv, TypeOK
<1>5. \A k \in Node : output'[k] = IF k = i THEN h.block ELSE output[k]
  BY <1>3, <1>4, Zenon
<1>6. \A k \in Node \ {i} : leader'[k] = leader[k]
  BY <1>4, Zenon DEF HandleHalt, SetLeader
<1>7. LeaderInv'
  <2>1. output'[i] # NONE
    BY <1>2, <1>5, CommitteeAssumption, Zenon
  <2>2. \A k \in Node \ {i} : output'[k] = output[k] /\ leader'[k] = leader[k]
    BY <1>5, <1>6, Zenon
  <2> QED
    BY <2>1, <2>2, Zenon DEF AInv, CoinInv, LeaderInv, Running
<1>8. NameInv'
  <2>1. NameInv /\ UNCHANGED <<prevote, finvote, halts, locked>>
    BY <1>1, Zenon DEF AInv, CoinInv, spbVars, voteVars
  <2>2. ASSUME NEW k \in Node, output'[k] # NONE
        PROVE  \E g \in halts : output'[k] = g.block
    <3>1. CASE k = i
      BY <1>5, <3>1, Zenon
    <3>2. CASE k # i
      <4>1. output'[k] = output[k]
        BY <1>5, <3>2, Zenon
      <4>2. output[k] # NONE => \E g \in halts : output[k] = g.block
        BY <2>1, Zenon DEF NameInv
      <4> QED
        BY <2>2, <4>1, <4>2, Zenon
    <3> QED
      BY <3>1, <3>2, Zenon
  <2> QED
    BY <2>1, <2>2, Zenon DEF NameInv
<1> QED
  BY <1>1, <1>7, <1>8, CoinFrames, Zenon DEF CoinInv, spbVars, voteVars

LEMMA NextAInv ==
  ASSUME Prompt
  PROVE  AInv /\ [Next]_vars => AInv'
<1> SUFFICES ASSUME AInv, [Next]_vars PROVE CoinInv'
  BY NextIInv, NextDoneInv, Zenon DEF AInv
<1>1. ASSUME NEW i \in Node, ElectStep(i) PROVE CoinInv'
  BY <1>1, CoinDoneStep, CoinElectStep, Zenon DEF ElectStep
<1>2. ASSUME NEW i \in Node, VoteStep(i) PROVE CoinInv'
  BY <1>2, CoinPrevoteStep, CoinFinvoteStep, Zenon DEF VoteStep
<1>3. ASSUME NEW i \in Node, HaltStep(i) PROVE CoinInv'
  BY <1>3, CoinHaltStep, Zenon DEF HaltStep
<1>4. CASE UNCHANGED vars
  BY <1>4, CoinFrames, Zenon DEF vars, spbVars, electVars, voteVars, haltVars, CoinInv
<1> QED
  BY <1>1, <1>2, <1>3, <1>4, CoinSpbStep, SMVBAAssumption, Zenon DEF Next

LEMMA CoinInvariant ==
  ASSUME Prompt
  PROVE  Spec => []AInv
<1>1. Init => AInv
  BY InitIInv, InitCoinInv, Zenon DEF AInv, Init, DoneInv
<1> QED
  BY <1>1, NextAInv, PTL DEF Spec

\* After a commit on FinVotes the next round knows one block only: whoever is
\* in it proposes the committed one (handleFinvote, advanceNextRound).
THEOREM SMVBACommitIsCarried ==
  ASSUME Prompt, 2 * HightThreshold > Size
  PROVE  Spec => []CommitIsCarried
<1>1. AInv /\ CommitExcludesNo => CommitIsCarried
  <2> SUFFICES ASSUME AInv, CommitExcludesNo, NEW r \in Round, r < MaxRound,
                      NEW i \in Node, NEW p \in Node, action[r][i] = "ACTION_COMMIT"
               PROVE  proposal[r + 1][p] \in {proposal[r][Coin[r]], NONE}
    BY Zenon DEF CommitIsCarried
  <2>1. PICK Q \in Quorums : \A j \in Q : finvote[r][j] \in Node
    BY Zenon DEF AInv, IInv, ActionInv
  <2>2. PICK j \in Q : j \in Node
    BY QuorumNotEmpty, Zenon
  <2>3. locked[r][Coin[r]] # {} /\ Coin[r] \in Node
    BY <2>1, <2>2, SMVBAAssumption, Zenon DEF AInv, CoinInv, NameInv
  <2>4. proposal[r][Coin[r]] = Coin[r]
    BY <2>3, LockedAvailable, Zenon DEF AInv
  <2>5. action[r][p] # "ACTION_NO"
    BY Zenon DEF CommitExcludesNo
  <2> QED
    BY <2>4, <2>5, Zenon DEF AInv, CoinInv, CarryInv
<1> QED
  BY <1>1, CoinInvariant, SMVBACommitExcludesNo, PTL

\* Only the block of round 0 can be elected, unless somebody has taken its own
\* block to a later round.
LEMMA LaterRoundsNeedNo ==
  ASSUME AInv, NEW r \in Round, r # 0, Begun(r)
  PROVE  \E p \in Node : action[r - 1][p] = "ACTION_NO"
<1>1. r - 1 \in Round /\ r - 1 < MaxRound /\ (r - 1) + 1 = r
  BY SMVBAAssumption DEF Round
<1>2. SUFFICES ASSUME \A p \in Node : action[r - 1][p] # "ACTION_NO" PROVE FALSE
  BY Zenon
<1>3. \A p \in Node : proposal[r][p] \in {NONE, Coin[r - 1]}
  BY <1>1, <1>2, Zenon DEF AInv, CoinInv, CarryInv
<1>4. ASSUME NEW p \in finish[r] PROVE p = Coin[r - 1]
  <2>1. p \in Node /\ locked[r][p] # {}
    BY Zenon DEF AInv, IInv, TypeOK, BroadcastInv
  <2> QED
    BY <1>3, <2>1, LockedAvailable, CommitteeAssumption, Zenon DEF AInv
<1>5. finish[r] \subseteq {Coin[r - 1]}
  BY <1>4, Zenon
<1>6. Cardinality(finish[r]) <= 1
  <2>1. IsFiniteSet({Coin[r - 1]}) /\ Cardinality({Coin[r - 1]}) = 1
    BY FS_Singleton, Zenon
  <2> QED
    BY <1>5, <2>1, FS_Subset
<1>7. Cardinality(finish[r]) > HightThreshold
  BY Zenon DEF AInv, DoneInv, Begun
<1>8. Cardinality(finish[r]) \in Nat
  BY NodeSets, Zenon DEF AInv, IInv, TypeOK
<1> QED
  BY <1>6, <1>7, <1>8, ThresholdType

\* All Halts name the block of the coin of round 0.
OneBlock == \A h \in halts : h.block = Coin[0]

LEMMA RoundsNameOneBlock ==
  ASSUME AInv, \A r \in Round, i \in Node : action[r][i] # "ACTION_NO"
  PROVE  OneBlock
<1> SUFFICES ASSUME NEW h \in halts PROVE h.block = Coin[0]
  BY Zenon DEF OneBlock
<1>1. h.block = Coin[h.round] /\ h.round \in Round /\ Begun(h.round)
  BY Zenon DEF AInv, IInv, TypeOK, Halt, CoinInv, NameInv, StartInv
<1>2. h.round - 1 \in Round \/ h.round = 0
  BY <1>1, SMVBAAssumption DEF Round
<1> QED
  BY <1>1, <1>2, LaterRoundsNeedNo, Zenon

\* Nodes commit the blocks of Halts.
LEMMA OutputsAgree ==
  ASSUME NameInv, OneBlock
  PROVE  Agreement
BY Zenon DEF NameInv, OneBlock, Agreement

\* Agreement, unless some node has taken its own block to a next round.
AgreementOrNo == Agreement \/ \E r \in Round, i \in Node : action[r][i] = "ACTION_NO"

\* Two nodes that halt commit the same block, for every committee, coin and
\* number of rounds, unless a node saw 2f+1 negative FinVotes in some round.
THEOREM SMVBAAgreementOrNo ==
  ASSUME Prompt
  PROVE  Spec => []AgreementOrNo
<1>1. AInv => AgreementOrNo
  BY RoundsNameOneBlock, OutputsAgree, Zenon DEF AgreementOrNo, AInv, CoinInv
<1> QED
  BY <1>1, CoinInvariant, PTL

\* With a single round there is one coin.  If an election takes the Finish of
\* all, as it does with four nodes, nobody sees 2f+1 negative FinVotes.
LEMMA HaltsNameOneBlock ==
  ASSUME AInv,
         MaxRound = 0 \/ (Size <= HightThreshold + 1 /\ 2 * HightThreshold > Size)
  PROVE  OneBlock
<1>1. CASE MaxRound = 0
  BY <1>1 DEF AInv, IInv, TypeOK, Halt, Round, CoinInv, NameInv, OneBlock
<1>2. CASE Size <= HightThreshold + 1 /\ 2 * HightThreshold > Size
  <2> SUFFICES ASSUME NEW r \in Round, NEW i \in Node, action[r][i] = "ACTION_NO"
               PROVE  FALSE
    BY RoundsNameOneBlock, Zenon
  <2>1. PICK P \in Quorums : \A j \in P : finvote[r][j] = NO
    BY Zenon DEF AInv, IInv, ActionInv
  <2>2. PICK j \in P : j \in Node
    BY QuorumNotEmpty, Zenon
  <2> DEFINE N == {k \in Node : prevote[r][k] = NO}
  <2>3. N \in Quorums
    BY <2>1, <2>2, Zenon DEF AInv, CoinInv, NegativeInv
  <2>4. N # {}
    BY <2>3, QuorumNotEmpty, Zenon
  <2>5. PICK Q \in Quorums : \A k \in Q : prevote[r][k] # NO
    BY <1>2, <2>4, Zenon DEF AInv, CoinInv, NegativeInv
  <2>6. N \cap Q # {}
    BY <1>2, <2>3, QuorumsMeet, Zenon DEF Quorums
  <2> QED
    BY <2>5, <2>6, Zenon
<1> QED
  BY <1>1, <1>2, Zenon

\* Two nodes that halt commit the same block (handleOutput): with a single
\* round in every committee, and with any number of rounds in a committee of
\* four, where an election takes the Finish of all and no leader is voted down.
\* In a larger one the broadcast of a slow leader may finish after 2f+1 nodes
\* voted the leader down: the slow node halts on it, the others in a later round.
THEOREM SMVBAAgreement ==
  ASSUME Prompt,
         MaxRound = 0 \/ (Size <= HightThreshold + 1 /\ 2 * HightThreshold > Size)
  PROVE  Spec => []Agreement
<1>1. AInv => Agreement
  BY HaltsNameOneBlock, OutputsAgree, Zenon DEF AInv, CoinInv
<1> QED
  BY <1>1, CoinInvariant, PTL

-----------------------------------------------------------------------------
(* The epoch as a single choice.                                           *)

\* What a step may do to the stores, the Halts and the outputs.
LEMMA StepShape ==
  ASSUME IInv, [Next]_vars
  PROVE  \/ /\ UNCHANGED <<halts, output>>
            /\ \A i \in Node : store[i] \subseteq store'[i]
         \/ UNCHANGED <<store, output>> /\ halts \subseteq halts'
         \/ /\ UNCHANGED <<store, halts>>
            /\ \E i \in Node, h \in halts :
                 output[i] = NONE /\ output' \in {output, [output EXCEPT ![i] = h.block]}
<1> DEFINE Stores == \A i \in Node : store[i] \subseteq store'[i]
           Halts == UNCHANGED <<store, output>> /\ halts \subseteq halts'
<1>1. ASSUME NEW i \in Node, SpbStep(i) PROVE UNCHANGED <<halts, output>> /\ Stores
  <2>1. UNCHANGED <<halts, output>>
    BY <1>1, Zenon DEF SpbStep, SpbFinish, HandleSpbProposal, SpbVote, SpbLock, haltVars
  <2>2. ASSUME NEW r \in Round, NEW p \in Node, HandleSpbProposal(i, r, p) PROVE Stores
    BY <2>2, Zenon DEF HandleSpbProposal, IInv, TypeOK
  <2>3. ASSUME NEW r \in Round, NEW p \in Node,
               SpbFinish(i, r) \/ SpbVote(i, r, p) \/ SpbLock(i, r, p)
        PROVE  Stores
    BY <2>3, Zenon DEF SpbFinish, SpbVote, SpbLock
  <2> QED
    BY <1>1, <2>1, <2>2, <2>3, Zenon DEF SpbStep
<1>2. ASSUME NEW i \in Node, ElectStep(i) PROVE Halts
  <2>1. ASSUME NEW r \in Round, NEW ld, ProcessLeader(i, r, ld) PROVE halts \subseteq halts'
    BY <2>1, Zenon DEF ProcessLeader
  <2> QED
    BY <1>2, <2>1, Zenon
    DEF ElectStep, HandleFinish, HandleDoneLow, HandleDoneHigh, HandleElectShare, spbVars, haltVars
<1>3. ASSUME NEW i \in Node, VoteStep(i) PROVE Halts
  <2>1. ASSUME NEW r \in Round, NEW Q \in FinVoteQuorums(i, r), NEW last \in Q,
               HandleFinvote(i, r, Q, last)
        PROVE  Halts
    <3>1. halts \subseteq halts'
      BY <2>1, Zenon DEF HandleFinvote, FinVoteAction
    <3> QED
      BY <2>1, <3>1, Zenon DEF HandleFinvote
  <2> QED
    BY <1>3, <2>1, Zenon DEF VoteStep, HandlePrevoteYes, HandlePrevoteNo, spbVars, haltVars
<1>4. ASSUME NEW i \in Node, NEW h \in halts, HandleHalt(i, h)
      PROVE  /\ UNCHANGED <<store, halts>>
             /\ output[i] = NONE /\ output' \in {output, [output EXCEPT ![i] = h.block]}
  BY <1>4, Zenon DEF HandleHalt, Running, spbVars
<1>5. CASE UNCHANGED vars
  BY <1>5, Zenon DEF vars, spbVars, haltVars
<1> QED
  BY <1>1, <1>2, <1>3, <1>4, <1>5, SMVBAAssumption, Zenon DEF Next, HaltStep

\* Under the conditions of SMVBAAgreement every step of an epoch is a step of an
\* agreement on a block that 2f+1 nodes store, or changes nothing the agreement
\* shows: the first Halt is the choice, whether a Finish or FinVotes made it, and
\* it is available at that moment already.
THEOREM SMVBAImplementsConsensus ==
  ASSUME Prompt,
         MaxRound = 0 \/ (Size <= HightThreshold + 1 /\ 2 * HightThreshold > Size)
  PROVE  Spec => ImplementsConsensus
<1> DEFINE Known == IInv /\ OneBlock /\ HaltIsAvailable
           Step == Con!Next \/ UNCHANGED Con!conVars
<1>1. Init => Con!Init
  BY Zenon DEF Init, Con!Init, HaltBlock, Supported
<1>2. Coin[0] \in Node /\ Coin[0] # NONE
  BY SMVBAAssumption, CommitteeAssumption DEF Round
<1>3. Known /\ Known' /\ [Next]_vars => [Con!Next]_(Con!conVars)
  <2> SUFFICES ASSUME Known, Known', [Next]_vars PROVE Step
    BY Zenon
  <2>1. /\ halts # {} => HaltBlock = Coin[0]
        /\ halts' # {} => HaltBlock' = Coin[0]
    BY <1>2, Zenon DEF OneBlock, HaltBlock
  <2>b. halts' = halts => HaltBlock' = HaltBlock
    BY DEF HaltBlock
  <2>c. store' = store => Supported' = Supported
    BY Zenon DEF Supported, Available
  <2>2. ASSUME UNCHANGED <<halts, output>>, \A i \in Node : store[i] \subseteq store'[i]
        PROVE  Step
    <3>1. Supported \subseteq Supported'
      BY <2>2, AvailableStays, Zenon DEF Supported
    <3>2. Supported' \subseteq Node /\ HaltBlock' = HaltBlock
      BY <2>2, <2>b, Zenon DEF Supported
    <3>3. Con!Support
      BY <2>2, <3>1, <3>2, Zenon DEF Con!Support
    <3> QED
      BY <3>3, Zenon DEF Con!Next
  <2>3. ASSUME UNCHANGED <<store, output>>, halts \subseteq halts' PROVE Step
    <3>1. Supported' = Supported
      BY <2>3, <2>c, ZenonT(40)
    <3>2. CASE halts # {} \/ halts' = {}
      BY <2>1, <2>3, <3>1, <3>2, Zenon DEF Con!conVars, HaltBlock
    <3>3. CASE halts = {} /\ halts' # {}
      <4>1. Coin[0] \in Supported'
        <5>1. Available(Coin[0])'
          BY <3>3, Zenon DEF OneBlock, HaltIsAvailable
        <5> QED
          BY <1>2, <5>1, Zenon DEF Supported
      <4>2. Con!Choose(Coin[0])
        BY <2>1, <2>3, <3>1, <3>3, <4>1, Zenon DEF Con!Choose, HaltBlock
      <4> QED
        BY <1>2, <4>2, Zenon DEF Con!Next
    <3> QED
      BY <3>2, <3>3, Zenon
  <2>4. ASSUME UNCHANGED <<store, halts>>, NEW i \in Node, NEW h \in halts, output[i] = NONE,
               output' \in {output, [output EXCEPT ![i] = h.block]}
        PROVE  Step
    <3>1. Supported' = Supported /\ HaltBlock' = HaltBlock
      BY <2>4, <2>b, <2>c, ZenonT(40)
    <3>2. HaltBlock = h.block /\ HaltBlock # NONE
      BY <1>2, <2>1, Zenon DEF OneBlock
    <3>3. CASE output' = output
      BY <3>1, <3>3, Zenon DEF Con!conVars
    <3>4. CASE output' = [output EXCEPT ![i] = h.block]
      <4>1. output' = [output EXCEPT ![i] = HaltBlock]
        BY <3>2, <3>4, Zenon
      <4>2. Con!Output(i)
        BY <2>4, <3>1, <3>2, <4>1, Zenon DEF Con!Output
      <4> QED
        BY <4>2, Zenon DEF Con!Next
    <3> QED
      BY <2>4, <3>3, <3>4, Zenon
  <2> HIDE DEF Step
  <2> QED
    BY <2>2, <2>3, <2>4, StepShape, Zenon
<1>4. AInv => Known
  BY HaltsNameOneBlock, Zenon DEF AInv, IInv
<1> QED
  BY <1>1, <1>3, <1>4, CoinInvariant, PTL DEF Spec, ImplementsConsensus, Con!Spec

=============================================================================
