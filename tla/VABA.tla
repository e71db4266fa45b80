-------------------------------- MODULE VABA ---------------------------------
(***************************************************************************)
(* The VABA nodes of core/vaba/consensus: the four-phase Promote of a      *)
(* proposer, the skip of an epoch, the election, the view change, Halt,    *)
(* the Committor, and the block a node takes to the next epoch.            *)
(*                                                                         *)
(* Only the Promote of the node the epoch will elect is followed phase by  *)
(* phase, because only that one is looked at again: of any other the node  *)
(* sees the Done.  A counter is compared with 2f+1 by the handler run that *)
(* reaches it: that run is the step modelled.  A message that is lost, or  *)
(* parked too late to be drained, is one that is never handled.            *)
(***************************************************************************)
EXTENDS Committee, Sequences

CONSTANTS
  MaxEpoch,   \* bound: epochs 0..MaxEpoch are run
  Leader,     \* Leader[e]: the node all the ElectShares of epoch e combine to
  Correct,    \* the nodes that do not crash
  Empty       \* the block without transactions of an epoch without a commit

Epochs == 0 .. MaxEpoch
Phases == 1 .. 4      \* PHASE_ONE_FALG .. PHASE_FOUR_FALG

ASSUME VABAAssumption ==
  /\ MaxEpoch \in Nat
  /\ Leader \in [Epochs -> Node]
  /\ Correct \subseteq Node
  /\ Empty # NONE

VARIABLES
  Epoch,      \* Epoch[i]: the epoch i is in
  Lock,       \* Lock[i]: the last epoch i saw a lock of
  proposal,   \* proposal[e][i]: the block i proposes in epoch e
  received,   \* received[e]: nodes that handled the leader's phase-one proposal
  started,    \* started[e]: nodes whose phase-one goroutine was started
  stage,      \* stage[e][i]: the last phase of the leader's Promote i voted in;
              \* 1 sets blockHash, 2 keyFlag, 3 lockFlag, 4 commitFlag
  done,       \* done[e]: nodes that sent Done
  skipShare,  \* skipShare[e]: nodes that sent a SkipShare
  skip,       \* skip[e]: nodes with SkipFlag; they sent Skip and ElectShare
  hash,       \* hash[e][i]: what BlockHash() gave when i elected the leader
  viewChange, \* viewChange[e][i]: the ViewChange i sent
  commitFlag, \* commitFlag[i]: epochs that are over for i
  halts,      \* epochs for which a Halt was sent
  store,      \* store[i]: blocks in i's store
  commitor,   \* commitor[i]: i's Committor
  queue,      \* queue[i]: i's batchChannel
  bcnt,       \* bcnt[i]: batches i has made
  panicked    \* nodes that dereferenced a nil BlockHash

promoteVars == <<received, started, stage>>
electVars == <<done, skipShare, skip, hash, viewChange>>
endVars == <<Epoch, proposal, commitFlag, halts, commitor, queue, bcnt>>
vars == <<endVars, Lock, promoteVars, electVars, store, panicked>>

Batch == [maker : Node, num : Nat]
Block == [proposer : Node, epoch : Epochs, batch : Batch]

ViewChangeMsg == [hash : BOOLEAN, commit : BOOLEAN, lock : BOOLEAN]

\* The core loop of i is between two handlers.
Idle(i) == \A e \in Epochs : hash[e][i] # "unread" => viewChange[e][i] # NONE

\* messageFilter lets a message of epoch e through.
Passes(i, e) == e >= Epoch[i]

IsQuorum(S) == Cardinality(S) >= HightThreshold

LeaderBlock(e) == proposal[e][Leader[e]]

VotedIn(e, k) == {i \in Node : stage[e][i] >= k}

-----------------------------------------------------------------------------
FirstBlock(i) == [proposer |-> i, epoch |-> 0, batch |-> [maker |-> i, num |-> 1]]

\* Run: every node proposes in epoch 0 before it handles a message.  The nodes
\* of finished have had their Promote done before anything else is handled,
\* those of shares have then sent their SkipShare, and all nodes voted in the
\* first k phases of the leader's.
InitWith(finished, shares, k) ==
  /\ Epoch = [i \in Node |-> 0]
  /\ Lock = [i \in Node |-> 0]
  /\ proposal = [e \in Epochs |-> [i \in Node |-> IF e = 0 THEN FirstBlock(i) ELSE NONE]]
  /\ received = [e \in Epochs |-> IF e = 0 /\ k > 0 THEN Node ELSE {}]
  /\ started = received
  /\ stage = [e \in Epochs |-> [i \in Node |-> IF e = 0 THEN k ELSE 0]]
  /\ done = [e \in Epochs |-> IF e = 0 THEN finished ELSE {}]
  /\ skipShare = [e \in Epochs |-> IF e = 0 THEN shares ELSE {}]
  /\ skip = [e \in Epochs |-> {}]
  /\ hash = [e \in Epochs |-> [i \in Node |-> "unread"]]
  /\ viewChange = [e \in Epochs |-> [i \in Node |-> NONE]]
  /\ commitFlag = [i \in Node |-> {}]
  /\ halts = {}
  /\ store = [i \in Node |-> IF k > 0 THEN {FirstBlock(Leader[0])} ELSE {}]
  /\ commitor = [i \in Node |-> [Index |-> 0, Blocks |-> [e \in Epochs |-> NONE]]]
  /\ queue = [i \in Node |-> <<>>]
  /\ bcnt = [i \in Node |-> 1]
  /\ panicked = {}

Init == InitWith({}, {}, 0)

-----------------------------------------------------------------------------
\* Outputs a block as soon as it is committed, in the next free slot.
CommitInOrder(c, e, b) ==
  IF e < c.Index \/ c.Index \notin Epochs THEN c
  ELSE [Index |-> c.Index + 1, Blocks |-> [c.Blocks EXCEPT ![c.Index] = b]]

\* Committor.Commit: drops what was output, else fills the slot of the epoch
\* and outputs every block that is next in line.  What was output stays.
Commit(c, e, b) ==
  IF e < c.Index THEN c
  ELSE LET blocks == [c.Blocks EXCEPT ![e] = b]
           next == CHOOSE k \in c.Index .. MaxEpoch + 1 :
                     /\ \A m \in c.Index .. k - 1 : blocks[m] # NONE
                     /\ k \in Epochs => blocks[k] = NONE
       IN [Index |-> next, Blocks |-> blocks]

\* The batchChannels PutBatch may leave behind when i commits block b in epoch
\* e: the batch of i's own proposal goes back, if the goroutine that handles
\* that proposal has run by now.
PutBatch(i, e, b) ==
  IF b.proposer = i \/ proposal[e][i] = NONE \/ (i = Leader[e] /\ stage[e][i] = 0)
  THEN {queue[i]}
  ELSE LET back == Append(queue[i], proposal[e][i].batch)
       IN IF i = Leader[e] THEN {back} ELSE {queue[i], back}

\* advanceNextEpoch with no block to carry, q being the batchChannel by then.
ProposeNew(i, e, q) ==
  LET fresh == q = <<>>
      batch == IF fresh THEN [maker |-> i, num |-> bcnt[i] + 1] ELSE Head(q)
      block == [proposer |-> i, epoch |-> e, batch |-> batch]
  IN /\ proposal' = IF e \in Epochs THEN [proposal EXCEPT ![e][i] = block] ELSE proposal
     /\ queue' = [queue EXCEPT ![i] = IF fresh THEN q ELSE Tail(q)]
     /\ bcnt' = [bcnt EXCEPT ![i] = IF fresh THEN @ + 1 ELSE @]

\* Proposes a block of its own without transactions when it is to carry one.
ProposeCarriedAny(i, e, b) ==
  /\ proposal' = IF e \in Epochs THEN [proposal EXCEPT ![e][i] = [b EXCEPT !.batch = NONE]]
                 ELSE proposal
  /\ UNCHANGED <<queue, bcnt>>

\* advanceNextEpoch with the hash of block b: it is proposed again as it is.
\* Without the block in the store the node enters the epoch with no proposal.
ProposeCarried(i, e, b) ==
  /\ proposal' = IF e \in Epochs /\ b \in store[i]
                 THEN [proposal EXCEPT ![e][i] = b]
                 ELSE proposal
  /\ UNCHANGED <<queue, bcnt>>

\* What handleViewChange and handleHalt do on the commit of epoch e: the block
\* is output in that epoch if it is in the store; either way the epoch is over.
CommitAndAdvance(i, e) ==
  LET b == LeaderBlock(e) IN
  /\ Epoch' = [Epoch EXCEPT ![i] = e + 1]
  /\ commitFlag' = [commitFlag EXCEPT ![i] = @ \cup {e}]
  /\ halts' = halts \cup {e}
  /\ IF b \in store[i]
     THEN /\ commitor' = [commitor EXCEPT ![i] = Commit(@, e, b)]
          /\ \E q \in PutBatch(i, e, b) : ProposeNew(i, e + 1, q)
     ELSE /\ UNCHANGED commitor
          /\ ProposeNew(i, e + 1, queue[i])

-----------------------------------------------------------------------------
\* handleProposal, phase one, of the leader: the late commit of an epoch that
\* is over, for which p.B.Epoch counts; the store; the goroutine, unless the
\* epoch is before the lock.
HandleProposal(i, e) ==
  LET b == LeaderBlock(e) IN
  /\ Idle(i)
  /\ b # NONE
  /\ i \notin received[e]
  /\ received' = [received EXCEPT ![e] = @ \cup {i}]
  /\ commitor' = IF e \in commitFlag[i] /\ hash[e][i] # "unread"
                 THEN [commitor EXCEPT ![i] = Commit(@, b.epoch, b)]
                 ELSE commitor
  /\ store' = IF Passes(i, e) THEN [store EXCEPT ![i] = @ \cup {b}] ELSE store
  /\ started' = IF Passes(i, e) /\ e >= Lock[i]
                THEN [started EXCEPT ![e] = @ \cup {i}]
                ELSE started
  /\ UNCHANGED <<Epoch, Lock, proposal, stage, electVars, commitFlag, halts, queue, bcnt,
                 panicked>>

\* processProposal, phase one, in its goroutine.
ProcessPhaseOne(i, e) ==
  /\ i \in started[e]
  /\ stage[e][i] = 0
  /\ stage' = [stage EXCEPT ![e][i] = 1]
  /\ UNCHANGED <<endVars, Lock, received, started, electVars, store, panicked>>

\* Does not wait for the votes of the phase before.
ProcessPhaseEarly(i, e, k) ==
  /\ Passes(i, e)
  /\ stage[e][i] = k - 1
  /\ Leader[e] \in Correct
  /\ VotedIn(e, k - 1) # {}
  /\ stage' = [stage EXCEPT ![e][i] = k]
  /\ UNCHANGED <<endVars, Lock, received, started, electVars, store, panicked>>

\* processVote at the proposer with the 2f+1-th vote of phase k - 1, and
\* processProposal of phase k at i, in its goroutine.  Goroutines of two phases
\* may run in either order; as nothing but its own vote depends on the flag of
\* the earlier phase, that is as if they ran in order.
ProcessPhase(i, e, k) ==
  /\ Passes(i, e)
  /\ stage[e][i] = k - 1
  /\ Leader[e] \in Correct
  /\ IsQuorum(VotedIn(e, k - 1))
  /\ stage' = [stage EXCEPT ![e][i] = k]
  /\ UNCHANGED <<endVars, Lock, received, started, electVars, store, panicked>>

\* processVote with the 2f+1-th vote of phase four.  The votes of a Promote that
\* is not followed may have come by now, or never come.
SendDone(p, e) ==
  /\ Passes(p, e)
  /\ proposal[e][p] # NONE
  /\ p \notin done[e] \cup skip[e]
  /\ p = Leader[e] => IsQuorum(VotedIn(e, 4))
  /\ done' = [done EXCEPT ![e] = @ \cup {p}]
  /\ UNCHANGED <<endVars, Lock, promoteVars, skipShare, skip, hash, viewChange, store, panicked>>

-----------------------------------------------------------------------------
\* handleDone, the 2f+1-th.
HandleDone(i, e) ==
  /\ Idle(i)
  /\ Passes(i, e)
  /\ i \notin skipShare[e]
  /\ IsQuorum(done[e])
  /\ skipShare' = [skipShare EXCEPT ![e] = @ \cup {i}]
  /\ UNCHANGED <<endVars, Lock, promoteVars, done, skip, hash, viewChange, store, panicked>>

\* Waits for 2f+1 SkipShares and does not follow a Skip.
SkipArrivesShares(e, S) == IsQuorum(skipShare[e] \cap S)

\* What the nodes S have sent makes a node skip epoch e: 2f+1 SkipShares
\* (handleSkipShare), or any Skip (handleSkip).
SkipArrives(e, S) == IsQuorum(skipShare[e] \cap S) \/ skip[e] \cap S # {}

\* handleSkipShare with the 2f+1-th, or handleSkip with any; and invokeElect.
HandleSkip(i, e) ==
  /\ Idle(i)
  /\ Passes(i, e)
  /\ i \notin skip[e]
  /\ SkipArrives(e, Node)
  /\ skip' = [skip EXCEPT ![e] = @ \cup {i}]
  /\ UNCHANGED <<endVars, Lock, promoteVars, done, skipShare, hash, viewChange, store, panicked>>

\* AddShareVote returns the leader.  Every ElectShare comes with a Skip.
AddShareVote(e) == IsQuorum(skip[e])

\* handleElectShare, the 2f+1-th, and invokeViewChange as far as the first of
\* its four reads of the Promote, which no lock holds together.
HandleElectShare(i, e) ==
  /\ Idle(i)
  /\ Passes(i, e)
  /\ hash[e][i] = "unread"
  /\ AddShareVote(e)
  /\ hash' = [hash EXCEPT ![e][i] = IF stage[e][i] > 0 THEN "set" ELSE "nil"]
  /\ UNCHANGED <<endVars, Lock, promoteVars, done, skipShare, skip, viewChange, store, panicked>>

\* The rest of invokeViewChange.
SendViewChange(i, e) ==
  /\ hash[e][i] # "unread"
  /\ viewChange[e][i] = NONE
  /\ viewChange' = [viewChange EXCEPT ![e][i] =
                      [hash |-> hash[e][i] = "set",
                       commit |-> stage[e][i] = 4,
                       lock |-> stage[e][i] >= 3]]
  /\ UNCHANGED <<endVars, Lock, promoteVars, done, skipShare, skip, hash, store, panicked>>

-----------------------------------------------------------------------------
\* handleViewChange of j's ViewChange when it says commit.
HandleCommitView(i, e, j) ==
  LET v == viewChange[e][j] IN
  /\ Idle(i)
  /\ Passes(i, e)
  /\ e \notin commitFlag[i]
  /\ v # NONE
  /\ v.commit
  /\ IF v.hash
     THEN /\ CommitAndAdvance(i, e)
          /\ Lock' = [Lock EXCEPT ![i] = IF v.lock /\ e >= @ THEN e ELSE @]
          /\ UNCHANGED panicked
     ELSE /\ panicked' = panicked \cup {i}
          /\ UNCHANGED <<endVars, Lock>>
  /\ UNCHANGED <<promoteVars, electVars, store>>

\* handleViewChange of one that only says lock, before the 2f+1-th.
HandleLockView(i, e, j) ==
  LET v == viewChange[e][j] IN
  /\ Idle(i)
  /\ Passes(i, e)
  /\ e \notin commitFlag[i]
  /\ v # NONE
  /\ v.lock /\ ~ v.commit
  /\ e > Lock[i]
  /\ Lock' = [Lock EXCEPT ![i] = e]
  /\ UNCHANGED <<endVars, promoteVars, electVars, store, panicked>>

\* Ends the epoch on f+1 ViewChanges without a commit.
HandleEmptyViewLow(i, e, Q, j) ==
  /\ Idle(i)
  /\ Passes(i, e)
  /\ e \notin commitFlag[i]
  /\ Cardinality(Q) = LowThreshold
  /\ j \in Q
  /\ \A k \in Q : ~ viewChange[e][k].commit
  /\ Epoch' = [Epoch EXCEPT ![i] = e + 1]
  /\ commitFlag' = [commitFlag EXCEPT ![i] = @ \cup {e}]
  /\ commitor' = [commitor EXCEPT ![i] = Commit(@, e, Empty)]
  /\ ProposeNew(i, e + 1, queue[i])
  /\ UNCHANGED <<Lock, promoteVars, electVars, halts, store, panicked>>

\* handleViewChange of the 2f+1-th, j's, when none of the nodes Q says commit:
\* an empty block ends the epoch, and the block j knows, if any, is carried to
\* the next.
HandleEmptyView(i, e, Q, j) ==
  /\ Idle(i)
  /\ Passes(i, e)
  /\ e \notin commitFlag[i]
  /\ Cardinality(Q) = HightThreshold
  /\ j \in Q
  /\ \A k \in Q : ~ viewChange[e][k].commit
  /\ Lock' = [Lock EXCEPT ![i] =
                IF e >= @ /\ \E k \in Q : viewChange[e][k].lock THEN e ELSE @]
  /\ Epoch' = [Epoch EXCEPT ![i] = e + 1]
  /\ commitFlag' = [commitFlag EXCEPT ![i] = @ \cup {e}]
  /\ commitor' = [commitor EXCEPT ![i] = Commit(@, e, Empty)]
  /\ IF viewChange[e][j].hash
     THEN ProposeCarried(i, e + 1, LeaderBlock(e))
     ELSE ProposeNew(i, e + 1, queue[i])
  /\ UNCHANGED <<promoteVars, electVars, halts, store, panicked>>

\* handleHalt; the Halt is passed on.
HandleHalt(i, e) ==
  /\ Idle(i)
  /\ Passes(i, e)
  /\ e \notin commitFlag[i]
  /\ e \in halts
  /\ CommitAndAdvance(i, e)
  /\ UNCHANGED <<Lock, promoteVars, electVars, store, panicked>>

-----------------------------------------------------------------------------
PromoteStep(i) ==
  \E e \in Epochs :
    \/ HandleProposal(i, e) \/ ProcessPhaseOne(i, e) \/ SendDone(i, e)
    \/ \E k \in 2 .. 4 : ProcessPhase(i, e, k)

ElectStep(i) ==
  \E e \in Epochs :
    HandleDone(i, e) \/ HandleSkip(i, e) \/ HandleElectShare(i, e) \/ SendViewChange(i, e)

EndStep(i) ==
  \E e \in Epochs :
    \/ HandleHalt(i, e)
    \/ \E j \in Node : HandleCommitView(i, e, j) \/ HandleLockView(i, e, j)
    \/ \E Q \in SUBSET {k \in Node : viewChange[e][k] # NONE} :
         \E j \in Q : HandleEmptyView(i, e, Q, j)

NodeStep(i) == i \notin panicked /\ (PromoteStep(i) \/ ElectStep(i) \/ EndStep(i))

Next == \E i \in Correct : NodeStep(i)

Spec == Init /\ [][Next]_vars

\* A step of the core loop of i for which the messages of correct nodes suffice.
CoreStep(i) ==
  /\ i \notin panicked
  /\ \/ EndStep(i)
     \/ \E e \in Epoch[i] .. MaxEpoch :
          \/ IsQuorum(done[e] \cap Correct) /\ HandleDone(i, e)
          \/ SkipArrives(e, Correct) /\ HandleSkip(i, e)
          \/ IsQuorum(skip[e] \cap Correct) /\ HandleElectShare(i, e)
     \/ \E e \in Epochs : SendViewChange(i, e)

\* The core loop of a node that does not crash is eventually scheduled, and
\* links between such nodes deliver; what a crashed node sent may have reached
\* some and not others.  Nothing is assumed of a Promote: a message that comes
\* while its drain ends is parked for good, and the Done with it.
Fairness == \A i \in Correct : WF_vars(CoreStep(i))

FairSpec == Spec /\ Fairness

-----------------------------------------------------------------------------
\* The shape of the state.  In particular a slot of the Committor is filled
\* only for an epoch in which a block was proposed or that ended empty.
TypeOK ==
  /\ Epoch \in [Node -> 0 .. MaxEpoch + 1]
  /\ Lock \in [Node -> Epochs]
  /\ proposal \in [Epochs -> [Node -> Block \cup {NONE}]]
  /\ received \in [Epochs -> SUBSET Node]
  /\ started \in [Epochs -> SUBSET Node]
  /\ stage \in [Epochs -> [Node -> {0} \cup Phases]]
  /\ done \in [Epochs -> SUBSET Node]
  /\ skipShare \in [Epochs -> SUBSET Node]
  /\ skip \in [Epochs -> SUBSET Node]
  /\ hash \in [Epochs -> [Node -> {"unread", "nil", "set"}]]
  /\ viewChange \in [Epochs -> [Node -> ViewChangeMsg \cup {NONE}]]
  /\ commitFlag \in [Node -> SUBSET Epochs]
  /\ halts \subseteq Epochs
  /\ store \in [Node -> SUBSET Block]
  /\ commitor \in [Node -> [Index : 0 .. MaxEpoch + 1,
                            Blocks : [Epochs -> Block \cup {Empty, NONE}]]]
  /\ queue \in [Node -> Seq(Batch)]
  /\ bcnt \in [Node -> Nat]
  /\ panicked \subseteq Node

\* The block a node has output in epoch e, if it got that far.
Output(i, e) == IF e < commitor[i].Index THEN commitor[i].Blocks[e] ELSE NONE

\* A ViewChange or a Halt with which an epoch is committed comes with a chain
\* of quorums: 2f+1 nodes hold the lock, 2f+1 the key and 2f+1 the block.
CommitIsLocked ==
  \A e \in Epochs :
    e \in halts \/ (\E i \in Node : viewChange[e][i] # NONE /\ viewChange[e][i].commit)
      => \A k \in 1 .. 3 : IsQuorum(VotedIn(e, k))

\* Two nodes that output an epoch output the same.
Agreement ==
  \A e \in Epochs, i, j \in Node :
    NONE \notin {Output(i, e), Output(j, e)} => Output(i, e) = Output(j, e)

\* Nobody outputs anything for an epoch but the block its leader proposed in it
\* or the empty block, also where the block was carried over from an earlier
\* epoch, came after its epoch had ended (handleProposal), or waited behind a
\* gap: two nodes that output a block each output the same.
OutputIsLeaders ==
  \A e \in Epochs, i \in Node : Output(i, e) \in {NONE, Empty, LeaderBlock(e)}

\* When some node has committed an epoch in which no more than 2f+1 nodes sent a
\* ViewChange, whoever outputs that epoch outputs the leader's block, not the
\* empty one (handleViewChange, handleHalt).
CommitIsOutput ==
  \A e \in halts, i \in Node :
    Cardinality({j \in Node : viewChange[e][j] # NONE}) <= HightThreshold =>
      Output(i, e) \in {NONE, LeaderBlock(e)}

\* A skip spreads and ends the epoch: once one correct node has skipped an epoch,
\* or 2f+1 correct nodes have sent their Done, and all correct nodes are in the
\* epoch or past it, each of them comes to the end of it, whichever messages of
\* a crashed node got through (handleSkip passes the Skip on), unless one of them
\* stops on a ViewChange without a hash.  That 2f+1 Promotes get done is assumed.
EpochEnds ==
  \A e \in Epochs :
    /\ \A i \in Correct : Epoch[i] >= e
    /\ IsQuorum(done[e] \cap Correct) \/ skip[e] \cap Correct # {}
    ~> \/ \A i \in Correct : Epoch[i] > e
       \/ Correct \cap panicked # {}

=============================================================================
