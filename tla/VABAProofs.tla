------------------------------ MODULE VABAProofs -----------------------------
(***************************************************************************)
(* For every committee, any number of epochs, any set of crashed nodes and *)
(* whatever the network does: what VABA commits was locked by a quorum, a  *)
(* node outputs no block of an epoch but its leader's, and where all gather*)
(* the same ViewChanges, nobody outputs an empty block for a committed one.*)
(***************************************************************************)
EXTENDS VABA, CommitteeProofs

\* The variables the argument is about.
lockVars == <<stage, viewChange, halts>>

Types ==
  /\ stage \in [Epochs -> [Node -> {0} \cup Phases]]
  /\ viewChange \in [Epochs -> [Node -> ViewChangeMsg \cup {NONE}]]
  /\ halts \subseteq Epochs

\* Nobody votes in a phase before a quorum has voted in the one before.
StageInv ==
  \A e \in Epochs, i \in Node, k \in 2 .. 4 :
    stage[e][i] >= k => IsQuorum(VotedIn(e, k - 1))

\* Somebody has voted in the last phase.
LastPhase(e) == \E j \in Node : stage[e][j] = 4

\* A ViewChange that says commit, and a Halt, come from a vote in the last phase.
CommitInv ==
  \A e \in Epochs :
    /\ \A i \in Node : viewChange[e][i] # NONE /\ viewChange[e][i].commit => LastPhase(e)
    /\ e \in halts => LastPhase(e)

IInv == Types /\ StageInv /\ CommitInv

-----------------------------------------------------------------------------
\* A set of voters stays a quorum when nodes are added.
LEMMA QuorumGrows ==
  ASSUME NEW S \in SUBSET Node, NEW T \in SUBSET Node, S \subseteq T, IsQuorum(S)
  PROVE  IsQuorum(T)
<1>1. /\ Cardinality(S) \in Nat
      /\ Cardinality(T) \in Nat
      /\ Cardinality(S) <= Cardinality(T)
  BY NodeSets
<1> QED
  BY <1>1, ThresholdType DEF IsQuorum

LEMMA InitIInv == Init => IInv
<1> SUFFICES ASSUME Init PROVE IInv
  OBVIOUS
<1>1. /\ stage = [e \in Epochs |-> [i \in Node |-> 0]]
      /\ viewChange = [e \in Epochs |-> [i \in Node |-> NONE]]
      /\ halts = {}
  BY DEF Init, InitWith
<1>2. Types
  BY <1>1 DEF Types
<1>3. StageInv
  BY <1>1 DEF StageInv
<1>4. CommitInv
  BY <1>1 DEF CommitInv
<1> QED
  BY <1>2, <1>3, <1>4 DEF IInv

LEMMA Frame ==
  ASSUME IInv, UNCHANGED lockVars
  PROVE  IInv'
<1>1. Types'
  BY DEF IInv, Types, lockVars
<1>2. StageInv'
  BY Zenon DEF IInv, StageInv, VotedIn, IsQuorum, lockVars
<1>3. CommitInv'
  BY DEF IInv, CommitInv, LastPhase, lockVars
<1> QED
  BY <1>1, <1>2, <1>3 DEF IInv

\* A vote in phase k, behind which there are enough of phase k - 1.
LEMMA VoteStep ==
  ASSUME IInv, NEW i \in Node, NEW e \in Epochs, NEW k \in Phases,
         stage[e][i] = k - 1,
         k > 1 => IsQuorum(VotedIn(e, k - 1)),
         stage' = [stage EXCEPT ![e][i] = k],
         UNCHANGED <<viewChange, halts>>
  PROVE  IInv'
<1>1. /\ Types'
      /\ \A d \in Epochs, j \in Node :
           stage'[d][j] = IF d = e /\ j = i THEN k ELSE stage[d][j]
  BY DEF IInv, Types
<1>2. \A d \in Epochs, j \in Node : /\ stage[d][j] \in 0 .. 4
                                    /\ stage'[d][j] \in 0 .. 4
                                    /\ stage[d][j] <= stage'[d][j]
  BY <1>1 DEF IInv, Types, Phases
<1>3. \A d \in Epochs, m \in 1 .. 3 : IsQuorum(VotedIn(d, m)) => IsQuorum(VotedIn(d, m)')
  <2> SUFFICES ASSUME NEW d \in Epochs, NEW m \in 1 .. 3, IsQuorum(VotedIn(d, m))
               PROVE  IsQuorum(VotedIn(d, m)')
    OBVIOUS
  <2>1. VotedIn(d, m) \subseteq VotedIn(d, m)'
    BY <1>2 DEF VotedIn
  <2>2. VotedIn(d, m) \in SUBSET Node /\ VotedIn(d, m)' \in SUBSET Node
    BY DEF VotedIn
  <2> QED
    BY <2>1, <2>2, QuorumGrows
<1>4. StageInv'
  <2> SUFFICES ASSUME NEW d \in Epochs, NEW j \in Node, NEW m \in 2 .. 4, stage'[d][j] >= m
               PROVE  IsQuorum(VotedIn(d, m - 1)')
    BY DEF StageInv, IsQuorum
  <2>1. m - 1 \in 1 .. 3
    OBVIOUS
  <2>2. CASE stage[d][j] >= m
    BY <1>3, <2>1, <2>2 DEF IInv, StageInv
  <2>3. CASE d = e /\ j = i /\ m = k
    BY <1>3, <2>1, <2>3
  <2>4. stage[d][j] >= m \/ (d = e /\ j = i /\ m = k)
    BY <1>1, <1>2 DEF Phases
  <2> QED
    BY <2>2, <2>3, <2>4
<1>5. \A d \in Epochs : LastPhase(d) => LastPhase(d)'
  BY <1>2 DEF LastPhase
<1>6. CommitInv'
  BY <1>5 DEF IInv, CommitInv
<1> QED
  BY <1>1, <1>4, <1>6 DEF IInv

LEMMA ViewChangeMsgType ==
  ASSUME NEW h \in BOOLEAN, NEW c \in BOOLEAN, NEW l \in BOOLEAN
  PROVE  /\ [hash |-> h, commit |-> c, lock |-> l] \in ViewChangeMsg
         /\ [hash |-> h, commit |-> c, lock |-> l].commit = c
BY DEF ViewChangeMsg

\* invokeViewChange copies the commit flag.
LEMMA SendViewChangeStep ==
  ASSUME IInv, NEW i \in Node, NEW e \in Epochs, SendViewChange(i, e)
  PROVE  IInv'
<1> DEFINE v == [hash |-> hash[e][i] = "set",
                 commit |-> stage[e][i] = 4,
                 lock |-> stage[e][i] >= 3]
<1>1. v \in ViewChangeMsg /\ (v.commit => stage[e][i] = 4)
  <2>1. (hash[e][i] = "set") \in BOOLEAN /\ (stage[e][i] = 4) \in BOOLEAN
    BY Zenon
  <2>2. (stage[e][i] >= 3) \in BOOLEAN
    BY SMT DEF IInv, Types, Phases
  <2>3. v \in ViewChangeMsg /\ v.commit = (stage[e][i] = 4)
    BY <2>1, <2>2, ViewChangeMsgType, Zenon
  <2> QED
    BY <2>3, Zenon
<1>2. /\ viewChange' = [viewChange EXCEPT ![e][i] = v]
      /\ UNCHANGED <<stage, halts>>
  BY DEF SendViewChange, endVars, promoteVars
<1> HIDE DEF v
<1>3. /\ Types'
      /\ \A d \in Epochs, j \in Node :
           viewChange'[d][j] = IF d = e /\ j = i THEN v ELSE viewChange[d][j]
  BY <1>1, <1>2 DEF IInv, Types
<1>4. StageInv'
  BY <1>2, Zenon DEF IInv, StageInv, VotedIn, IsQuorum
<1>5. \A d \in Epochs : LastPhase(d)' = LastPhase(d)
  BY <1>2 DEF LastPhase
<1>6. v.commit => LastPhase(e)
  BY <1>1 DEF LastPhase
<1>7. CommitInv'
  BY <1>2, <1>3, <1>5, <1>6 DEF IInv, CommitInv
<1> QED
  BY <1>3, <1>4, <1>7 DEF IInv

\* A Halt goes out.
LEMMA CommitStep ==
  ASSUME IInv, NEW e \in Epochs, LastPhase(e), halts' = halts \cup {e},
         UNCHANGED <<stage, viewChange>>
  PROVE  IInv'
<1>1. Types'
  BY DEF IInv, Types
<1>2. StageInv'
  BY Zenon DEF IInv, StageInv, VotedIn, IsQuorum
<1>3. CommitInv'
  BY DEF IInv, CommitInv, LastPhase
<1> QED
  BY <1>1, <1>2, <1>3 DEF IInv

LEMMA PromoteStepIInv ==
  ASSUME IInv, NEW i \in Node, PromoteStep(i)
  PROVE  IInv'
<1> PICK e \in Epochs :
      \/ HandleProposal(i, e) \/ ProcessPhaseOne(i, e) \/ SendDone(i, e)
      \/ \E k \in 2 .. 4 : ProcessPhase(i, e, k)
  BY DEF PromoteStep
<1>1. CASE HandleProposal(i, e)
  BY <1>1, Frame DEF HandleProposal, electVars, lockVars
<1>2. CASE ProcessPhaseOne(i, e)
  <2>1. /\ stage[e][i] = 1 - 1
        /\ stage' = [stage EXCEPT ![e][i] = 1]
        /\ UNCHANGED <<viewChange, halts>>
    BY <1>2 DEF ProcessPhaseOne, endVars, electVars
  <2>2. 1 \in Phases /\ ~ (1 > 1)
    BY DEF Phases
  <2> QED
    BY <2>1, <2>2, VoteStep, Zenon
<1>3. CASE SendDone(i, e)
  BY <1>3, Frame DEF SendDone, endVars, promoteVars, lockVars
<1>4. ASSUME NEW k \in 2 .. 4, ProcessPhase(i, e, k) PROVE IInv'
  <2>1. k \in Phases
    BY DEF Phases
  <2>2. /\ stage[e][i] = k - 1
        /\ IsQuorum(VotedIn(e, k - 1))
        /\ stage' = [stage EXCEPT ![e][i] = k]
        /\ UNCHANGED <<viewChange, halts>>
    BY <1>4 DEF ProcessPhase, endVars, electVars
  <2> QED
    BY <2>1, <2>2, VoteStep, Zenon
<1> QED
  BY <1>1, <1>2, <1>3, <1>4

LEMMA ElectStepIInv ==
  ASSUME IInv, NEW i \in Node, ElectStep(i)
  PROVE  IInv'
<1> PICK e \in Epochs :
      HandleDone(i, e) \/ HandleSkip(i, e) \/ HandleElectShare(i, e) \/ SendViewChange(i, e)
  BY DEF ElectStep
<1>1. CASE HandleDone(i, e)
  BY <1>1, Frame DEF HandleDone, endVars, promoteVars, lockVars
<1>2. CASE HandleSkip(i, e)
  BY <1>2, Frame DEF HandleSkip, endVars, promoteVars, lockVars
<1>3. CASE HandleElectShare(i, e)
  BY <1>3, Frame DEF HandleElectShare, endVars, promoteVars, lockVars
<1>4. CASE SendViewChange(i, e)
  BY <1>4, SendViewChangeStep
<1> QED
  BY <1>1, <1>2, <1>3, <1>4

\* A node commits on a ViewChange that says so or on a Halt, and sends a Halt.
LEMMA EndStepIInv ==
  ASSUME IInv, NEW i \in Node, EndStep(i)
  PROVE  IInv'
<1>1. ASSUME NEW e \in Epochs, HandleHalt(i, e) PROVE IInv'
  <2>1. LastPhase(e)
    BY <1>1 DEF HandleHalt, IInv, CommitInv
  <2>2. halts' = halts \cup {e} /\ UNCHANGED <<stage, viewChange>>
    BY <1>1 DEF HandleHalt, CommitAndAdvance, promoteVars, electVars
  <2> QED
    BY <2>1, <2>2, CommitStep
<1>2. ASSUME NEW e \in Epochs, NEW j \in Node, HandleCommitView(i, e, j) PROVE IInv'
  <2>1. LastPhase(e)
    BY <1>2 DEF HandleCommitView, IInv, CommitInv
  <2>2. UNCHANGED <<stage, viewChange>>
    BY <1>2 DEF HandleCommitView, promoteVars, electVars
  <2>3. CASE halts' = halts \cup {e}
    BY <2>1, <2>2, <2>3, CommitStep
  <2>4. CASE UNCHANGED halts
    BY <2>2, <2>4, Frame DEF lockVars
  <2>5. halts' = halts \cup {e} \/ UNCHANGED halts
    BY <1>2 DEF HandleCommitView, CommitAndAdvance, endVars
  <2> QED
    BY <2>3, <2>4, <2>5
<1>3. ASSUME NEW e \in Epochs, NEW j \in Node, HandleLockView(i, e, j) PROVE IInv'
  BY <1>3, Frame DEF HandleLockView, endVars, promoteVars, electVars, lockVars
<1>4. ASSUME NEW e \in Epochs, NEW Q \in SUBSET Node, NEW j \in Q, HandleEmptyView(i, e, Q, j)
      PROVE  IInv'
  BY <1>4, Frame DEF HandleEmptyView, promoteVars, electVars, lockVars
<1> QED
  BY <1>1, <1>2, <1>3, <1>4 DEF EndStep

LEMMA NextIInv == IInv /\ [Next]_vars => IInv'
<1> SUFFICES ASSUME IInv, [Next]_vars PROVE IInv'
  OBVIOUS
<1>1. CASE Next
  BY <1>1, PromoteStepIInv, ElectStepIInv, EndStepIInv, VABAAssumption DEF Next, NodeStep
<1>2. CASE UNCHANGED vars
  BY <1>2, Frame DEF vars, endVars, promoteVars, electVars, lockVars
<1> QED
  BY <1>1, <1>2

\* An epoch is committed, by a ViewChange or by a Halt, only when 2f+1 nodes have
\* voted in each of the first three phases of the leader's Promote, however the
\* reads of invokeViewChange interleave with its goroutines.
THEOREM VABACommitIsLocked == Spec => []CommitIsLocked
<1>1. IInv => CommitIsLocked
  <2> SUFFICES ASSUME IInv, NEW e \in Epochs, NEW k \in 1 .. 3,
                      \/ e \in halts
                      \/ \E i \in Node : viewChange[e][i] # NONE /\ viewChange[e][i].commit
               PROVE  IsQuorum(VotedIn(e, k))
    BY DEF CommitIsLocked
  <2>1. PICK j \in Node : stage[e][j] = 4
    BY DEF IInv, CommitInv, LastPhase
  <2>2. k + 1 \in 2 .. 4 /\ stage[e][j] >= k + 1 /\ (k + 1) - 1 = k
    BY <2>1
  <2>3. IsQuorum(VotedIn(e, (k + 1) - 1))
    BY <2>2 DEF IInv, StageInv
  <2> QED
    BY <2>2, <2>3
<1> QED
  BY <1>1, InitIInv, NextIInv, PTL DEF Spec

-----------------------------------------------------------------------------
(* What is output: the block of the epoch's leader, or the empty block.    *)

RestTypes ==
  /\ Epoch \in [Node -> 0 .. MaxEpoch + 1]
  /\ Lock \in [Node -> Epochs]
  /\ proposal \in [Epochs -> [Node -> Block \cup {NONE}]]
  /\ received \in [Epochs -> SUBSET Node]
  /\ started \in [Epochs -> SUBSET Node]
  /\ done \in [Epochs -> SUBSET Node]
  /\ skipShare \in [Epochs -> SUBSET Node]
  /\ skip \in [Epochs -> SUBSET Node]
  /\ hash \in [Epochs -> [Node -> {"unread", "nil", "set"}]]
  /\ commitFlag \in [Node -> SUBSET Epochs]
  /\ store \in [Node -> SUBSET (Block \ {NONE})]
  /\ commitor \in [Node -> [Index : 0 .. MaxEpoch + 1,
                            Blocks : [Epochs -> Block \cup {Empty, NONE}]]]
  /\ queue \in [Node -> Seq(Batch)]
  /\ bcnt \in [Node -> Nat]
  /\ panicked \subseteq Node

\* A node proposes once per epoch: a block it makes for that epoch, or one that
\* the leader of the block's own epoch proposed there.
OriginInv ==
  \A e \in Epochs, p \in Node :
    proposal[e][p] # NONE =>
      /\ e <= Epoch[p]
      /\ \/ proposal[e][p].epoch = e
         \/ proposal[e][p] = LeaderBlock(proposal[e][p].epoch)

\* 2f+1 nodes sent a ViewChange that does not say commit.
EndsEmpty(e) ==
  \E Q \in SUBSET Node :
    /\ Cardinality(Q) = HightThreshold
    /\ \A k \in Q : viewChange[e][k] # NONE /\ ~ viewChange[e][k].commit

\* What may be in the slot of an epoch.
InSlot(e, s) ==
  \/ s = NONE
  \/ s = LeaderBlock(e)
  \/ s = Empty /\ EndsEmpty(e)

SlotInv == \A i \in Node, e \in Epochs : InSlot(e, commitor[i].Blocks[e])

\* A Halt comes from a ViewChange that says commit.
HaltInv ==
  \A e \in halts : \E j \in Node : viewChange[e][j] # NONE /\ viewChange[e][j].commit

OInv == RestTypes /\ OriginInv /\ SlotInv /\ HaltInv

LEMMA InitOInv == Init => OInv
<1> SUFFICES ASSUME Init PROVE OInv
  OBVIOUS
<1>1. /\ MaxEpoch \in Nat /\ 0 \in Epochs
      /\ \A i \in Node : FirstBlock(i) \in Block /\ FirstBlock(i).epoch = 0
  BY VABAAssumption DEF Epochs, FirstBlock, Block, Batch
<1>2. /\ Epoch = [i \in Node |-> 0]
      /\ Lock = [i \in Node |-> 0]
      /\ proposal = [e \in Epochs |-> [i \in Node |-> IF e = 0 THEN FirstBlock(i) ELSE NONE]]
      /\ received = [e \in Epochs |-> {}]
      /\ started = [e \in Epochs |-> {}]
      /\ done = [e \in Epochs |-> {}]
      /\ skipShare = [e \in Epochs |-> {}]
      /\ skip = [e \in Epochs |-> {}]
      /\ hash = [e \in Epochs |-> [i \in Node |-> "unread"]]
      /\ viewChange = [e \in Epochs |-> [i \in Node |-> NONE]]
      /\ commitFlag = [i \in Node |-> {}]
      /\ halts = {}
      /\ store = [i \in Node |-> {}]
      /\ commitor = [i \in Node |-> [Index |-> 0, Blocks |-> [e \in Epochs |-> NONE]]]
      /\ queue = [i \in Node |-> <<>>]
      /\ bcnt = [i \in Node |-> 1]
      /\ panicked = {}
  <2>1. ~ (0 > 0)
    OBVIOUS
  <2>2. \A e \in Epochs : (IF e = 0 THEN {} ELSE {}) = {}
    OBVIOUS
  <2> QED
    BY <2>1, <2>2 DEF Init, InitWith
<1>3. RestTypes
  <2>1. proposal \in [Epochs -> [Node -> Block \cup {NONE}]]
    BY <1>1, <1>2
  <2>2. commitor \in [Node -> [Index : 0 .. MaxEpoch + 1,
                               Blocks : [Epochs -> Block \cup {Empty, NONE}]]]
    BY <1>1, <1>2
  <2>3. queue \in [Node -> Seq(Batch)]
    BY <1>2
  <2>4. Epoch \in [Node -> 0 .. MaxEpoch + 1] /\ Lock \in [Node -> Epochs] /\ bcnt \in [Node -> Nat]
    BY <1>1, <1>2
  <2> QED
    BY <1>2, <2>1, <2>2, <2>3, <2>4 DEF RestTypes
<1>4. OriginInv
  <2> SUFFICES ASSUME NEW e \in Epochs, NEW p \in Node, proposal[e][p] # NONE
               PROVE  e <= Epoch[p] /\ proposal[e][p].epoch = e
    BY DEF OriginInv
  <2>1. e = 0 /\ proposal[e][p] = FirstBlock(p)
    BY <1>2
  <2> QED
    BY <1>1, <1>2, <2>1
<1>5. SlotInv
  BY <1>2 DEF SlotInv, InSlot
<1>6. HaltInv
  BY <1>2 DEF HaltInv
<1> QED
  BY <1>3, <1>4, <1>5, <1>6 DEF OInv

\* Commit fills the slot of the epoch and moves the index no further than the
\* first slot that is not filled.
LEMMA CommitSlot ==
  ASSUME NEW c \in [Index : 0 .. MaxEpoch + 1, Blocks : [Epochs -> Block \cup {Empty, NONE}]],
         NEW e \in Epochs, NEW b \in Block \cup {Empty}
  PROVE  /\ Commit(c, e, b) \in [Index : 0 .. MaxEpoch + 1,
                                 Blocks : [Epochs -> Block \cup {Empty, NONE}]]
         /\ \A d \in Epochs : \/ Commit(c, e, b).Blocks[d] = c.Blocks[d]
                              \/ d = e /\ Commit(c, e, b).Blocks[d] = b
<1>1. CASE e < c.Index
  BY <1>1 DEF Commit
<1>2. CASE ~ (e < c.Index)
  <2> DEFINE blocks == [c.Blocks EXCEPT ![e] = b]
             IsNext(k) == /\ \A m \in c.Index .. k - 1 : blocks[m] # NONE
                          /\ k \in Epochs => blocks[k] = NONE
             next == CHOOSE k \in c.Index .. MaxEpoch + 1 : IsNext(k)
  <2>1. Commit(c, e, b) = [Index |-> next, Blocks |-> blocks]
    BY <1>2 DEF Commit
  <2>2. /\ blocks \in [Epochs -> Block \cup {Empty, NONE}]
        /\ \A d \in Epochs : blocks[d] = IF d = e THEN b ELSE c.Blocks[d]
    OBVIOUS
  <2> HIDE DEF blocks
  <2>3. \E k \in c.Index .. MaxEpoch + 1 : IsNext(k)
    <3> DEFINE T == {k \in c.Index .. MaxEpoch + 1 : k \in Epochs => blocks[k] = NONE}
    <3>1. MaxEpoch \in Nat /\ c.Index \in 0 .. MaxEpoch + 1
      BY VABAAssumption
    <3>2. MaxEpoch + 1 \in T
      BY <3>1 DEF Epochs
    <3>3. T \in SUBSET Nat
      BY <3>1
    <3>4. PICK k \in T : \A y \in T : k <= y
      <4> HIDE DEF T
      <4> QED
        BY <3>2, <3>3, LeastElement
    <3>5. \A m \in c.Index .. k - 1 : m \notin T
      BY <3>1, <3>4
    <3>6. \A m \in c.Index .. k - 1 : m \in c.Index .. MaxEpoch + 1
      BY <3>1, <3>4
    <3> QED
      BY <3>4, <3>5, <3>6
  <2> HIDE DEF IsNext
  <2>4. next \in c.Index .. MaxEpoch + 1
    BY <2>3
  <2>5. next \in 0 .. MaxEpoch + 1
    BY <2>4, VABAAssumption
  <2> HIDE DEF next
  <2> QED
    BY <2>1, <2>2, <2>5
<1> QED
  BY <1>1, <1>2

-----------------------------------------------------------------------------
\* What no step takes back.
Keeps ==
  /\ \A j \in Node : Epoch[j] <= Epoch'[j]
  /\ \A e \in Epochs, p \in Node : proposal[e][p] # NONE => proposal'[e][p] = proposal[e][p]
  /\ \A e \in Epochs, j \in Node : viewChange[e][j] # NONE => viewChange'[e][j] = viewChange[e][j]

LEMMA KeptLeaderBlock ==
  ASSUME Keeps, NEW e \in Epochs, LeaderBlock(e) # NONE
  PROVE  LeaderBlock(e)' = LeaderBlock(e)
<1>1. Leader[e] \in Node
  BY VABAAssumption
<1> QED
  BY <1>1 DEF Keeps, LeaderBlock

LEMMA KeptSlot ==
  ASSUME Keeps, NEW e \in Epochs, NEW s, InSlot(e, s)
  PROVE  s = NONE \/ s = LeaderBlock(e)' \/ (s = Empty /\ EndsEmpty(e)')
<1>1. CASE s = NONE
  BY <1>1
<1>2. CASE s = LeaderBlock(e) /\ s # NONE
  BY <1>2, KeptLeaderBlock
<1>3. CASE s = Empty /\ EndsEmpty(e)
  <2>1. PICK Q \in SUBSET Node :
          /\ Cardinality(Q) = HightThreshold
          /\ \A k \in Q : viewChange[e][k] # NONE /\ ~ viewChange[e][k].commit
    BY <1>3 DEF EndsEmpty
  <2>2. \A k \in Q : viewChange'[e][k] = viewChange[e][k]
    BY <2>1 DEF Keeps
  <2>3. EndsEmpty(e)'
    BY <2>1, <2>2 DEF EndsEmpty
  <2> QED
    BY <1>3, <2>3
<1> QED
  BY <1>1, <1>2, <1>3, Zenon DEF InSlot

\* The slots of all nodes, when those that are filled are filled as they may be.
LEMMA SlotStep ==
  ASSUME OInv, Keeps,
         \A j \in Node, d \in Epochs :
           commitor'[j].Blocks[d] = commitor[j].Blocks[d] \/ InSlot(d, commitor'[j].Blocks[d])
  PROVE  SlotInv'
<1>1. ASSUME NEW j \in Node, NEW d \in Epochs
      PROVE  InSlot(d, commitor[j].Blocks[d])'
  <2>1. InSlot(d, commitor'[j].Blocks[d])
    BY Zenon DEF OInv, SlotInv
  <2>2. \/ commitor'[j].Blocks[d] = NONE
        \/ commitor'[j].Blocks[d] = LeaderBlock(d)'
        \/ commitor'[j].Blocks[d] = Empty /\ EndsEmpty(d)'
    BY <2>1, KeptSlot, Zenon
  <2> QED
    BY <2>2, Zenon DEF InSlot
<1> QED
  BY <1>1, Zenon DEF SlotInv

\* A step in which nobody changes epoch, proposes, commits or sends a ViewChange.
LEMMA QuietStep ==
  ASSUME OInv,
         UNCHANGED <<Epoch, proposal, viewChange, halts, commitor>>,
         RestTypes'
  PROVE  OInv'
<1>1. Keeps
  <2>1. \A j \in Node : Epoch[j] <= Epoch[j]
    BY VABAAssumption DEF OInv, RestTypes
  <2> QED
    BY <2>1, Zenon DEF Keeps
<1>2. OriginInv'
  BY Zenon DEF OInv, OriginInv, LeaderBlock
<1>3. SlotInv'
  BY <1>1, SlotStep, Zenon
<1>4. HaltInv'
  BY Zenon DEF OInv, HaltInv
<1> QED
  BY <1>2, <1>3, <1>4, Zenon DEF OInv

\* A late block goes to the slot of the epoch it was made for, and the leader of
\* that epoch proposed it there.
LEMMA ProposalOStep ==
  ASSUME OInv, NEW i \in Node, NEW e \in Epochs, HandleProposal(i, e)
  PROVE  OInv'
<1> DEFINE b == LeaderBlock(e)
<1>1. /\ b # NONE
      /\ received' = [received EXCEPT ![e] = @ \cup {i}]
      /\ \/ commitor' = commitor
         \/ commitor' = [commitor EXCEPT ![i] = Commit(commitor[i], b.epoch, b)]
      /\ store' = store \/ store' = [store EXCEPT ![i] = @ \cup {b}]
      /\ started' = started \/ started' = [started EXCEPT ![e] = @ \cup {i}]
      /\ UNCHANGED <<Epoch, Lock, proposal, done, skipShare, skip, hash, viewChange, commitFlag,
                     halts, queue, bcnt, panicked>>
  BY Zenon DEF HandleProposal, electVars
<1>2. b \in Block /\ b.epoch \in Epochs /\ b = LeaderBlock(b.epoch)
  <2>1. Leader[e] \in Node
    BY VABAAssumption, Zenon
  <2>2. b \in Block
    BY <1>1, <2>1 DEF OInv, RestTypes, LeaderBlock
  <2>3. b.epoch \in Epochs
    BY <2>2, Zenon DEF Block
  <2>4. b.epoch = e \/ b = LeaderBlock(b.epoch)
    BY <1>1, <2>1, Zenon DEF OInv, OriginInv, LeaderBlock
  <2> QED
    BY <2>2, <2>3, <2>4, Zenon
<1> HIDE DEF b
<1>3. commitor \in [Node -> [Index : 0 .. MaxEpoch + 1,
                             Blocks : [Epochs -> Block \cup {Empty, NONE}]]]
  BY Zenon DEF OInv, RestTypes
<1>4. /\ Commit(commitor[i], b.epoch, b) \in [Index : 0 .. MaxEpoch + 1,
                                              Blocks : [Epochs -> Block \cup {Empty, NONE}]]
      /\ \A d \in Epochs :
           \/ Commit(commitor[i], b.epoch, b).Blocks[d] = commitor[i].Blocks[d]
           \/ d = b.epoch /\ Commit(commitor[i], b.epoch, b).Blocks[d] = b
  BY <1>2, <1>3, CommitSlot
<1>5. /\ commitor' \in [Node -> [Index : 0 .. MaxEpoch + 1,
                                 Blocks : [Epochs -> Block \cup {Empty, NONE}]]]
      /\ \A j \in Node, d \in Epochs :
           commitor'[j].Blocks[d] = commitor[j].Blocks[d] \/ InSlot(d, commitor'[j].Blocks[d])
  <2> DEFINE c == Commit(commitor[i], b.epoch, b)
  <2>1. c \in [Index : 0 .. MaxEpoch + 1, Blocks : [Epochs -> Block \cup {Empty, NONE}]]
    BY <1>4, Zenon
  <2>2. \A d \in Epochs : c.Blocks[d] = commitor[i].Blocks[d] \/ InSlot(d, c.Blocks[d])
    BY <1>2, <1>4, Zenon DEF InSlot
  <2>3. commitor' = commitor \/ commitor' = [commitor EXCEPT ![i] = c]
    BY <1>1, Zenon
  <2> HIDE DEF c
  <2> QED
    BY <1>3, <2>1, <2>2, <2>3, Zenon
<1>6. RestTypes'
  <2>1. /\ received \in [Epochs -> SUBSET Node]
        /\ started \in [Epochs -> SUBSET Node]
        /\ store \in [Node -> SUBSET (Block \ {NONE})]
    BY Zenon DEF OInv, RestTypes
  <2>2. /\ [received EXCEPT ![e] = @ \cup {i}] \in [Epochs -> SUBSET Node]
        /\ [started EXCEPT ![e] = @ \cup {i}] \in [Epochs -> SUBSET Node]
    BY <2>1, Zenon
  <2>3. [store EXCEPT ![i] = @ \cup {b}] \in [Node -> SUBSET (Block \ {NONE})]
    <3>1. b \in Block \ {NONE}
      BY <1>1, <1>2, Zenon
    <3> QED
      BY <2>1, <3>1, Zenon
  <2>4. /\ received' \in [Epochs -> SUBSET Node]
        /\ started' \in [Epochs -> SUBSET Node]
        /\ store' \in [Node -> SUBSET (Block \ {NONE})]
    BY <1>1, <2>1, <2>2, <2>3, Zenon
  <2> QED
    BY <1>1, <1>5, <2>4, Zenon DEF OInv, RestTypes
<1>7. Keeps
  <2>1. \A j \in Node : Epoch[j] <= Epoch[j]
    BY VABAAssumption DEF OInv, RestTypes
  <2> QED
    BY <1>1, <2>1, Zenon DEF Keeps
<1>8. OriginInv'
  BY <1>1, Zenon DEF OInv, OriginInv, LeaderBlock
<1>9. SlotInv'
  BY <1>5, <1>7, SlotStep, Zenon
<1>10. HaltInv'
  BY <1>1, Zenon DEF OInv, HaltInv
<1> QED
  BY <1>6, <1>8, <1>9, <1>10, Zenon DEF OInv

LEMMA SendViewChangeOStep ==
  ASSUME OInv, IInv, NEW i \in Node, NEW e \in Epochs, SendViewChange(i, e)
  PROVE  OInv'
<1>1. /\ viewChange[e][i] = NONE
      /\ \E v : viewChange' = [viewChange EXCEPT ![e][i] = v]
      /\ UNCHANGED <<Epoch, Lock, proposal, received, started, done, skipShare, skip, hash,
                     commitFlag, halts, store, commitor, queue, bcnt, panicked>>
  BY ZenonT(40) DEF SendViewChange, endVars, promoteVars
<1>2. \A d \in Epochs, j \in Node :
        viewChange'[d][j] = viewChange[d][j] \/ (d = e /\ j = i)
  BY <1>1 DEF IInv, Types
<1>3. Keeps
  <2>1. \A j \in Node : Epoch[j] <= Epoch[j]
    BY VABAAssumption DEF OInv, RestTypes
  <2> QED
    BY <1>1, <1>2, <2>1, Zenon DEF Keeps
<1>4. RestTypes'
  BY <1>1, Zenon DEF OInv, RestTypes
<1>5. OriginInv'
  BY <1>1, Zenon DEF OInv, OriginInv, LeaderBlock
<1>6. SlotInv'
  BY <1>1, <1>3, SlotStep, Zenon
<1>7. HaltInv'
  <2> SUFFICES ASSUME NEW d \in halts
               PROVE  \E j \in Node : viewChange'[d][j] # NONE /\ viewChange'[d][j].commit
    BY <1>1, Zenon DEF HaltInv
  <2>1. PICK j \in Node : viewChange[d][j] # NONE /\ viewChange[d][j].commit
    BY Zenon DEF OInv, HaltInv
  <2>2. d \in Epochs
    BY Zenon DEF IInv, Types
  <2>3. viewChange'[d][j] = viewChange[d][j]
    BY <1>3, <2>1, <2>2, Zenon DEF Keeps
  <2> QED
    BY <2>1, <2>3, Zenon
<1> QED
  BY <1>4, <1>5, <1>6, <1>7, Zenon DEF OInv

-----------------------------------------------------------------------------
(* The end of an epoch.                                                    *)

\* What a node proposes in epoch e + 1: a new block, or the leader's of epoch e.
NewProposal(i, e) ==
  \/ proposal' = proposal
  \/ \E b \in Block :
       /\ e + 1 \in Epochs
       /\ proposal' = [proposal EXCEPT ![e + 1][i] = b]
       /\ b.epoch = e + 1 \/ (b = LeaderBlock(e) /\ b # NONE)

ProposeTypes ==
  /\ queue' \in [Node -> Seq(Batch)]
  /\ bcnt' \in [Node -> Nat]

LEMMA ProposeNewEffect ==
  ASSUME OInv, NEW i \in Node, NEW e \in Epochs, NEW q \in Seq(Batch), ProposeNew(i, e + 1, q)
  PROVE  NewProposal(i, e) /\ ProposeTypes
<1> DEFINE fresh == q = <<>>
           batch == IF fresh THEN [maker |-> i, num |-> bcnt[i] + 1] ELSE Head(q)
           block == [proposer |-> i, epoch |-> e + 1, batch |-> batch]
<1>1. /\ proposal' = IF e + 1 \in Epochs THEN [proposal EXCEPT ![e + 1][i] = block] ELSE proposal
      /\ queue' = [queue EXCEPT ![i] = IF fresh THEN q ELSE Tail(q)]
      /\ bcnt' = [bcnt EXCEPT ![i] = IF fresh THEN @ + 1 ELSE @]
  BY Zenon DEF ProposeNew
<1>2. queue \in [Node -> Seq(Batch)] /\ bcnt \in [Node -> Nat]
  BY Zenon DEF OInv, RestTypes
<1>3. batch \in Batch
  <2>1. CASE fresh
    BY <1>2, <2>1 DEF Batch
  <2>2. CASE ~ fresh
    BY <2>2
  <2> QED
    BY <2>1, <2>2, Zenon
<1>4. ~ fresh => Tail(q) \in Seq(Batch)
  OBVIOUS
<1>5. ProposeTypes
  <2>1. (IF fresh THEN q ELSE Tail(q)) \in Seq(Batch)
    BY <1>4, Zenon
  <2>2. queue' \in [Node -> Seq(Batch)]
    BY <1>1, <1>2, <2>1, Zenon
  <2>3. bcnt' \in [Node -> Nat]
    BY <1>1, <1>2
  <2> QED
    BY <2>2, <2>3, Zenon DEF ProposeTypes
<1>6. NewProposal(i, e)
  <2> HIDE DEF batch
  <2>1. e + 1 \in Epochs => block \in Block /\ block.epoch = e + 1
    BY <1>3, Zenon DEF Block
  <2> HIDE DEF block
  <2> QED
    BY <1>1, <2>1, Zenon DEF NewProposal
<1> QED
  BY <1>5, <1>6, Zenon

LEMMA ProposeCarriedEffect ==
  ASSUME OInv, NEW i \in Node, NEW e \in Epochs, ProposeCarried(i, e + 1, LeaderBlock(e))
  PROVE  NewProposal(i, e) /\ ProposeTypes
<1>1. ProposeTypes
  BY Zenon DEF ProposeCarried, OInv, RestTypes, ProposeTypes
<1>2. LeaderBlock(e) \in store[i] => LeaderBlock(e) \in Block /\ LeaderBlock(e) # NONE
  BY Zenon DEF OInv, RestTypes
<1>3. NewProposal(i, e)
  BY <1>2, Zenon DEF ProposeCarried, NewProposal
<1> QED
  BY <1>1, <1>3, Zenon

\* The batchChannel after PutBatch is one.
LEMMA PutBatchType ==
  ASSUME OInv, NEW i \in Node, NEW e \in Epochs, NEW b, NEW q \in PutBatch(i, e, b)
  PROVE  q \in Seq(Batch)
<1>1. queue[i] \in Seq(Batch)
  BY Zenon DEF OInv, RestTypes
<1>2. proposal[e][i] # NONE => proposal[e][i].batch \in Batch
  <2>1. proposal[e][i] \in Block \cup {NONE}
    BY DEF OInv, RestTypes
  <2> QED
    BY <2>1, Zenon DEF Block
<1>3. proposal[e][i] # NONE => Append(queue[i], proposal[e][i].batch) \in Seq(Batch)
  BY <1>1, <1>2
<1> QED
  BY <1>1, <1>3, Zenon DEF PutBatch

\* Node i leaves epoch e.
LEMMA AdvanceStep ==
  ASSUME OInv, IInv, NEW i \in Node, NEW e \in Epochs, Passes(i, e),
         Epoch' = [Epoch EXCEPT ![i] = e + 1],
         commitFlag' = [commitFlag EXCEPT ![i] = @ \cup {e}],
         NewProposal(i, e), ProposeTypes,
         Lock' \in [Node -> Epochs],
         \/ commitor' = commitor
         \/ \E b \in Block \cup {Empty} :
              InSlot(e, b) /\ commitor' = [commitor EXCEPT ![i] = Commit(commitor[i], e, b)],
         \/ halts' = halts
         \/ /\ halts' = halts \cup {e}
            /\ \E j \in Node : viewChange[e][j] # NONE /\ viewChange[e][j].commit,
         UNCHANGED <<received, started, done, skipShare, skip, hash, viewChange, store, panicked>>
  PROVE  OInv'
<1>1. /\ MaxEpoch \in Nat
      /\ Epoch \in [Node -> 0 .. MaxEpoch + 1]
      /\ Epoch[i] \in Nat
      /\ e \in Nat /\ e <= MaxEpoch
      /\ Epoch[i] <= e
  BY VABAAssumption DEF OInv, RestTypes, Epochs, Passes
<1>2. /\ Epoch' \in [Node -> 0 .. MaxEpoch + 1]
      /\ \A j \in Node : Epoch'[j] = IF j = i THEN e + 1 ELSE Epoch[j]
  BY <1>1
<1>3. \A j \in Node : Epoch[j] \in Nat /\ Epoch'[j] \in Nat /\ Epoch[j] <= Epoch'[j]
  BY <1>1, <1>2
<1>4. proposal \in [Epochs -> [Node -> Block \cup {NONE}]]
  BY Zenon DEF OInv, RestTypes
<1>5. /\ proposal' \in [Epochs -> [Node -> Block \cup {NONE}]]
      /\ \A d \in Epochs, p \in Node :
           \/ proposal'[d][p] = proposal[d][p]
           \/ /\ d = e + 1 /\ p = i
              /\ \/ proposal'[d][p].epoch = d
                 \/ proposal'[d][p] = LeaderBlock(e) /\ LeaderBlock(e) # NONE
  <2>1. CASE proposal' = proposal
    BY <1>4, <2>1, Zenon
  <2>2. ASSUME NEW b \in Block, e + 1 \in Epochs, proposal' = [proposal EXCEPT ![e + 1][i] = b],
               b.epoch = e + 1 \/ (b = LeaderBlock(e) /\ b # NONE)
        PROVE  <1>5!1 /\ <1>5!2
    <3>1. b \in Block \cup {NONE}
      BY Zenon
    <3>2. /\ proposal' \in [Epochs -> [Node -> Block \cup {NONE}]]
          /\ \A d \in Epochs, p \in Node :
               proposal'[d][p] = IF d = e + 1 /\ p = i THEN b ELSE proposal[d][p]
      BY <1>4, <2>2, <3>1, EntryUpdate
    <3> QED
      BY <2>2, <3>2
  <2> QED
    BY <2>1, <2>2, Zenon DEF NewProposal
<1>6. \A d \in Epochs, p \in Node : proposal[d][p] # NONE => proposal'[d][p] = proposal[d][p]
  <2> SUFFICES ASSUME NEW d \in Epochs, NEW p \in Node, proposal[d][p] # NONE
               PROVE  ~ (d = e + 1 /\ p = i)
    BY <1>5
  <2>1. d <= Epoch[p]
    BY Zenon DEF OInv, OriginInv
  <2> QED
    BY <1>1, <2>1 DEF Epochs
<1>7. Keeps
  BY <1>3, <1>6, Zenon DEF Keeps
<1>8. commitor \in [Node -> [Index : 0 .. MaxEpoch + 1,
                             Blocks : [Epochs -> Block \cup {Empty, NONE}]]]
  BY Zenon DEF OInv, RestTypes
<1>9. /\ commitor' \in [Node -> [Index : 0 .. MaxEpoch + 1,
                                 Blocks : [Epochs -> Block \cup {Empty, NONE}]]]
      /\ \A j \in Node, d \in Epochs :
           commitor'[j].Blocks[d] = commitor[j].Blocks[d] \/ InSlot(d, commitor'[j].Blocks[d])
  <2>1. CASE commitor' = commitor
    BY <1>8, <2>1, Zenon
  <2>2. ASSUME NEW b \in Block \cup {Empty}, InSlot(e, b),
               commitor' = [commitor EXCEPT ![i] = Commit(commitor[i], e, b)]
        PROVE  <1>9!1 /\ <1>9!2
    <3> DEFINE c == Commit(commitor[i], e, b)
    <3>1. /\ c \in [Index : 0 .. MaxEpoch + 1, Blocks : [Epochs -> Block \cup {Empty, NONE}]]
          /\ \A d \in Epochs : c.Blocks[d] = commitor[i].Blocks[d] \/ (d = e /\ c.Blocks[d] = b)
      BY <1>8, CommitSlot
    <3>2. \A d \in Epochs : c.Blocks[d] = commitor[i].Blocks[d] \/ InSlot(d, c.Blocks[d])
      BY <2>2, <3>1, Zenon
    <3>3. commitor' = [commitor EXCEPT ![i] = c]
      BY <2>2, Zenon
    <3> HIDE DEF c
    <3> QED
      BY <1>8, <3>1, <3>2, <3>3, ZenonT(40)
  <2> QED
    BY <2>1, <2>2, Zenon
<1>10. RestTypes'
  <2>1. commitFlag' \in [Node -> SUBSET Epochs]
    BY ZenonT(40) DEF OInv, RestTypes
  <2> QED
    BY <1>2, <1>5, <1>9, <2>1, ZenonT(40) DEF OInv, RestTypes, ProposeTypes
<1>11. OriginInv'
  <2> SUFFICES ASSUME NEW d \in Epochs, NEW p \in Node, proposal'[d][p] # NONE
               PROVE  /\ d <= Epoch'[p]
                      /\ LET x == proposal'[d][p].epoch
                         IN x = d \/ proposal'[d][p] = proposal'[x][Leader[x]]
    BY Zenon DEF OriginInv, LeaderBlock
  <2>1. proposal'[d][p].epoch \in Epochs
    BY <1>5 DEF Block
  <2>2. ASSUME proposal'[d][p] = LeaderBlock(proposal'[d][p].epoch)
        PROVE  LET x == proposal'[d][p].epoch IN proposal'[d][p] = proposal'[x][Leader[x]]
    <3>1. \A x \in Epochs : LeaderBlock(x) # NONE => proposal'[x][Leader[x]] = LeaderBlock(x)
      BY <1>6, VABAAssumption, Zenon DEF LeaderBlock
    <3> QED
      BY <2>1, <2>2, <3>1, Zenon
  <2>3. CASE proposal'[d][p] = proposal[d][p]
    <3>1. /\ d <= Epoch[p]
          /\ \/ proposal'[d][p].epoch = d
             \/ proposal'[d][p] = LeaderBlock(proposal'[d][p].epoch)
      <4>1. proposal[d][p] # NONE
        BY <2>3, Zenon
      <4>2. /\ d <= Epoch[p]
            /\ \/ proposal[d][p].epoch = d
               \/ proposal[d][p] = LeaderBlock(proposal[d][p].epoch)
        BY <4>1, Zenon DEF OInv, OriginInv
      <4> QED
        BY <2>3, <4>2, Zenon
    <3>2. d <= Epoch'[p]
      BY <1>3, <3>1 DEF Epochs
    <3> QED
      BY <2>2, <3>1, <3>2, ZenonT(40)
  <2>4. CASE /\ d = e + 1 /\ p = i
             /\ \/ proposal'[d][p].epoch = d
                \/ proposal'[d][p] = LeaderBlock(e) /\ LeaderBlock(e) # NONE
    <3>1. d <= Epoch'[p]
      BY <1>1, <1>2, <2>4
    <3>2. ASSUME proposal'[d][p] = LeaderBlock(e), LeaderBlock(e) # NONE
          PROVE  proposal'[d][p] = LeaderBlock(proposal'[d][p].epoch)
      <4>1. Leader[e] \in Node /\ LeaderBlock(e) = proposal[e][Leader[e]]
        BY VABAAssumption, Zenon DEF LeaderBlock
      <4>2. LeaderBlock(e).epoch = e \/ LeaderBlock(e) = LeaderBlock(LeaderBlock(e).epoch)
        BY <3>2, <4>1, ZenonT(40) DEF OInv, OriginInv
      <4> QED
        BY <3>2, <4>2, Zenon
    <3> QED
      BY <2>2, <2>4, <3>1, <3>2, ZenonT(40)
  <2> QED
    BY <1>5, <2>3, <2>4, ZenonT(40)
<1>12. SlotInv'
  BY <1>7, <1>9, SlotStep, Zenon
<1>13. HaltInv'
  BY Zenon DEF OInv, HaltInv
<1> QED
  BY <1>10, <1>11, <1>12, <1>13, ZenonT(40) DEF OInv

\* A commit, which a ViewChange has called for.
LEMMA CommitAndAdvanceStep ==
  ASSUME OInv, IInv, NEW i \in Node, NEW e \in Epochs, Passes(i, e), CommitAndAdvance(i, e),
         \E j \in Node : viewChange[e][j] # NONE /\ viewChange[e][j].commit,
         Lock' \in [Node -> Epochs],
         UNCHANGED <<received, started, done, skipShare, skip, hash, viewChange, store, panicked>>
  PROVE  OInv'
<1>1. /\ Epoch' = [Epoch EXCEPT ![i] = e + 1]
      /\ commitFlag' = [commitFlag EXCEPT ![i] = @ \cup {e}]
      /\ halts' = halts \cup {e}
  BY Zenon DEF CommitAndAdvance
<1>2. CASE LeaderBlock(e) \in store[i]
  <2>1. LeaderBlock(e) \in Block \cup {Empty}
    BY <1>2, Zenon DEF OInv, RestTypes
  <2>2. InSlot(e, LeaderBlock(e))
    BY Zenon DEF InSlot
  <2>3. commitor' = [commitor EXCEPT ![i] = Commit(commitor[i], e, LeaderBlock(e))]
    BY <1>2, Zenon DEF CommitAndAdvance
  <2>4. PICK q \in PutBatch(i, e, LeaderBlock(e)) : ProposeNew(i, e + 1, q)
    BY <1>2, Zenon DEF CommitAndAdvance
  <2>5. NewProposal(i, e) /\ ProposeTypes
    BY <2>4, PutBatchType, ProposeNewEffect, Zenon
  <2> QED
    BY <1>1, <2>1, <2>2, <2>3, <2>5, AdvanceStep, ZenonT(40)
<1>3. CASE LeaderBlock(e) \notin store[i]
  <2>1. commitor' = commitor /\ ProposeNew(i, e + 1, queue[i])
    BY <1>3, Zenon DEF CommitAndAdvance
  <2>2. queue[i] \in Seq(Batch)
    BY Zenon DEF OInv, RestTypes
  <2>3. NewProposal(i, e) /\ ProposeTypes
    BY <2>1, <2>2, ProposeNewEffect, Zenon
  <2> QED
    BY <1>1, <2>1, <2>3, AdvanceStep, ZenonT(40)
<1> QED
  BY <1>2, <1>3, Zenon

LEMMA EmptyViewOStep ==
  ASSUME OInv, IInv, NEW i \in Node, NEW e \in Epochs,
         NEW Q \in SUBSET {k \in Node : viewChange[e][k] # NONE}, NEW j \in Q,
         HandleEmptyView(i, e, Q, j)
  PROVE  OInv'
<1>1. /\ Passes(i, e)
      /\ Cardinality(Q) = HightThreshold
      /\ \A k \in Q : ~ viewChange[e][k].commit
      /\ Epoch' = [Epoch EXCEPT ![i] = e + 1]
      /\ commitFlag' = [commitFlag EXCEPT ![i] = @ \cup {e}]
      /\ commitor' = [commitor EXCEPT ![i] = Commit(commitor[i], e, Empty)]
      /\ halts' = halts
      /\ UNCHANGED <<received, started, done, skipShare, skip, hash, viewChange, store, panicked>>
  BY Zenon DEF HandleEmptyView, promoteVars, electVars
<1>2. Lock' \in [Node -> Epochs]
  BY Zenon DEF HandleEmptyView, OInv, RestTypes
<1>3. Q \in SUBSET Node /\ \A k \in Q : viewChange[e][k] # NONE
  BY Zenon
<1>4. InSlot(e, Empty)
  BY <1>1, <1>3, Zenon DEF InSlot, EndsEmpty
<1>5. NewProposal(i, e) /\ ProposeTypes
  <2>1. CASE viewChange[e][j].hash
    BY <2>1, ProposeCarriedEffect, ZenonT(40) DEF HandleEmptyView
  <2>2. CASE ~ viewChange[e][j].hash
    <3>1. queue[i] \in Seq(Batch)
      BY Zenon DEF OInv, RestTypes
    <3> QED
      BY <2>2, <3>1, ProposeNewEffect, Zenon DEF HandleEmptyView
  <2> QED
    BY <2>1, <2>2, Zenon
<1> QED
  BY <1>1, <1>2, <1>4, <1>5, AdvanceStep, Zenon

LEMMA EndOStep ==
  ASSUME OInv, IInv, NEW i \in Node, EndStep(i)
  PROVE  OInv'
<1>1. ASSUME NEW e \in Epochs, HandleHalt(i, e) PROVE OInv'
  <2>1. \E j \in Node : viewChange[e][j] # NONE /\ viewChange[e][j].commit
    BY <1>1, Zenon DEF HandleHalt, OInv, HaltInv
  <2>2. Lock' \in [Node -> Epochs]
    BY <1>1, Zenon DEF HandleHalt, OInv, RestTypes
  <2> QED
    BY <1>1, <2>1, <2>2, CommitAndAdvanceStep, ZenonT(40) DEF HandleHalt, promoteVars, electVars
<1>2. ASSUME NEW e \in Epochs, NEW j \in Node, HandleCommitView(i, e, j) PROVE OInv'
  <2>1. /\ Passes(i, e)
        /\ viewChange[e][j] # NONE /\ viewChange[e][j].commit
        /\ UNCHANGED <<received, started, done, skipShare, skip, hash, viewChange, store>>
    BY <1>2, Zenon DEF HandleCommitView, promoteVars, electVars
  <2>3. CASE viewChange[e][j].hash
    <3>1. /\ CommitAndAdvance(i, e)
          /\ \E l \in {e, Lock[i]} : Lock' = [Lock EXCEPT ![i] = l]
          /\ panicked' = panicked
      BY <1>2, <2>3, Zenon DEF HandleCommitView
    <3>2. Lock' \in [Node -> Epochs]
      BY <3>1 DEF OInv, RestTypes
    <3> QED
      BY <2>1, <3>1, <3>2, CommitAndAdvanceStep, Zenon
  <2>4. CASE ~ viewChange[e][j].hash
    <3>1. panicked' = panicked \cup {i} /\ UNCHANGED <<endVars, Lock>>
      BY <1>2, <2>4, ZenonT(40) DEF HandleCommitView
    <3>2. RestTypes'
      BY <2>1, <3>1, Zenon DEF OInv, RestTypes, endVars
    <3> QED
      BY <2>1, <3>1, <3>2, QuietStep, Zenon DEF endVars
  <2> QED
    BY <2>3, <2>4, Zenon
<1>3. ASSUME NEW e \in Epochs, NEW j \in Node, HandleLockView(i, e, j) PROVE OInv'
  <2>1. RestTypes'
    BY <1>3, Zenon DEF HandleLockView, endVars, promoteVars, electVars, OInv, RestTypes
  <2> QED
    BY <1>3, <2>1, QuietStep, ZenonT(40) DEF HandleLockView, endVars, electVars
<1> QED
  BY <1>1, <1>2, <1>3, EmptyViewOStep, Zenon DEF EndStep

LEMMA NextOInv == OInv /\ IInv /\ [Next]_vars => OInv'
<1> SUFFICES ASSUME OInv, IInv, [Next]_vars PROVE OInv'
  BY Zenon
<1>1. ASSUME NEW i \in Node, PromoteStep(i) PROVE OInv'
  <2>1. PICK e \in Epochs :
          \/ HandleProposal(i, e) \/ ProcessPhaseOne(i, e) \/ SendDone(i, e)
          \/ \E k \in 2 .. 4 : ProcessPhase(i, e, k)
    BY <1>1, Zenon DEF PromoteStep
  <2>2. CASE ProcessPhaseOne(i, e) \/ \E k \in 2 .. 4 : ProcessPhase(i, e, k)
    <3>1. UNCHANGED <<endVars, Lock, received, started, electVars, store, panicked>>
      BY <2>2, Zenon DEF ProcessPhaseOne, ProcessPhase
    <3>2. RestTypes'
      BY <3>1, Zenon DEF endVars, electVars, OInv, RestTypes
    <3> QED
      BY <3>1, <3>2, QuietStep, Zenon DEF endVars, electVars
  <2>3. CASE SendDone(i, e)
    <3>1. RestTypes'
      BY <2>3, Zenon DEF SendDone, endVars, promoteVars, OInv, RestTypes
    <3> QED
      BY <2>3, <3>1, QuietStep, ZenonT(40) DEF SendDone, endVars
  <2> QED
    BY <2>1, <2>2, <2>3, ProposalOStep, Zenon
<1>2. ASSUME NEW i \in Node, ElectStep(i) PROVE OInv'
  <2>1. PICK e \in Epochs :
          HandleDone(i, e) \/ HandleSkip(i, e) \/ HandleElectShare(i, e) \/ SendViewChange(i, e)
    BY <1>2, Zenon DEF ElectStep
  <2>3. CASE HandleDone(i, e)
    <3>1. RestTypes'
      BY <2>3, Zenon DEF HandleDone, endVars, promoteVars, OInv, RestTypes
    <3> QED
      BY <2>3, <3>1, QuietStep, Zenon DEF HandleDone, endVars
  <2>4. CASE HandleSkip(i, e)
    <3>1. RestTypes'
      BY <2>4, Zenon DEF HandleSkip, endVars, promoteVars, OInv, RestTypes
    <3> QED
      BY <2>4, <3>1, QuietStep, Zenon DEF HandleSkip, endVars
  <2>5. CASE HandleElectShare(i, e)
    <3>1. hash' \in [Epochs -> [Node -> {"unread", "nil", "set"}]]
      BY <2>5, ZenonT(40) DEF HandleElectShare, OInv, RestTypes
    <3>2. RestTypes'
      BY <2>5, <3>1, Zenon DEF HandleElectShare, endVars, promoteVars, OInv, RestTypes
    <3> QED
      BY <2>5, <3>2, QuietStep, Zenon DEF HandleElectShare, endVars
  <2> QED
    BY <2>1, <2>3, <2>4, <2>5, SendViewChangeOStep, Zenon
<1>3. CASE UNCHANGED vars
  <2>1. RestTypes'
    BY <1>3, Zenon DEF vars, endVars, promoteVars, electVars, OInv, RestTypes
  <2> QED
    BY <1>3, <2>1, QuietStep, Zenon DEF vars, endVars, electVars
<1> QED
  BY <1>1, <1>2, <1>3, EndOStep, VABAAssumption, Zenon DEF Next, NodeStep

LEMMA Invariance == Spec => [](IInv /\ OInv)
BY InitIInv, NextIInv, InitOInv, NextOInv, PTL DEF Spec

-----------------------------------------------------------------------------
\* The state of every core keeps its shape, for every committee: in particular
\* the Committor holds blocks or empty blocks and is one epoch ahead at most.
THEOREM VABATypeOK == Spec => []TypeOK
<1>1. IInv /\ OInv => TypeOK
  <2> SUFFICES ASSUME IInv, OInv PROVE TypeOK
    BY Zenon
  <2>1. store \in [Node -> SUBSET Block]
    BY Zenon DEF OInv, RestTypes
  <2> QED
    BY <2>1, Zenon DEF IInv, Types, OInv, RestTypes, TypeOK
<1> QED
  BY <1>1, Invariance, PTL

LEMMA OutputInSlot ==
  ASSUME OInv, NEW i \in Node, NEW e \in Epochs
  PROVE  InSlot(e, Output(i, e))
BY Zenon DEF OInv, SlotInv, Output, InSlot

\* Two nodes that output a block in an epoch output the same one: its leader's,
\* however late, however often carried over and behind whatever gap.
THEOREM VABAOutputIsLeaders == Spec => []OutputIsLeaders
<1>1. OInv => OutputIsLeaders
  BY OutputInSlot, Zenon DEF OutputIsLeaders, InSlot
<1> QED
  BY <1>1, Invariance, PTL

\* In an epoch with no more ViewChanges than one aggregation takes, those that end
\* it are the same at every node: what anyone commits is what everyone outputs.
\* With more, two sets of 2f+1 ViewChanges differ, and one may say commit.
THEOREM VABACommitIsOutput == Spec => []CommitIsOutput
<1>1. IInv /\ OInv => CommitIsOutput
  <2> DEFINE Senders(e) == {j \in Node : viewChange[e][j] # NONE}
  <2> SUFFICES ASSUME IInv, OInv, NEW e \in halts, NEW i \in Node,
                      Cardinality(Senders(e)) <= HightThreshold
               PROVE  Output(i, e) \in {NONE, LeaderBlock(e)}
    BY Zenon DEF CommitIsOutput
  <2>1. e \in Epochs
    BY Zenon DEF IInv, Types
  <2>2. PICK j \in Node : viewChange[e][j] # NONE /\ viewChange[e][j].commit
    BY Zenon DEF OInv, HaltInv
  <2>3. ASSUME NEW Q \in SUBSET Node, Cardinality(Q) = HightThreshold,
               \A k \in Q : viewChange[e][k] # NONE /\ ~ viewChange[e][k].commit
        PROVE  FALSE
    <3> DEFINE S == Senders(e)
    <3>1. S \in SUBSET Node /\ IsFiniteSet(S) /\ j \in S
      BY <2>2, NodeSets, Zenon
    <3>2. Q \in SUBSET (S \ {j}) /\ Cardinality(S) <= HightThreshold
      BY <2>2, <2>3, Zenon
    <3> HIDE DEF S
    <3>3. Cardinality(Q) <= Cardinality(S \ {j})
      BY <3>1, <3>2, NodeSets, Zenon
    <3>4. Cardinality(S \ {j}) = Cardinality(S) - 1
      BY <3>1, FS_RemoveElement, Zenon
    <3>5. Cardinality(S) \in Nat
      BY <3>1, FS_CardinalityType, Zenon
    <3> QED
      BY <2>3, <3>2, <3>3, <3>4, <3>5, ThresholdType
  <2>4. ~ EndsEmpty(e)
    BY <2>3, Zenon DEF EndsEmpty
  <2> QED
    BY <2>1, <2>4, OutputInSlot, Zenon DEF InSlot
<1> QED
  BY <1>1, Invariance, PTL

=============================================================================
