-------------------------------- MODULE MVBA ---------------------------------
(***************************************************************************)
(* The nodes of core/mvba/consensus (core.go, elector.go, aggreator.go,    *)
(* commitor.go): the CBCs of the blocks and of the commitments, the        *)
(* election, the votes on one leader after the other, the output and the   *)
(* next epoch.                                                             *)
(*                                                                         *)
(* A CBC is seen through what module CBC shows of it: the core of a node   *)
(* is notified when the node has the content and 2f+1 nodes do.  A binary  *)
(* agreement is seen through what module ABA shows of it: all halt with    *)
(* one flag, which f+1 nodes put in.  A counter is compared with a         *)
(* threshold by the handler run that reaches it: that run is the step.     *)
(* A Vote names the leader of its epoch and round, or none: that one is a  *)
(* vote "LOST", and an ABAHalt may name no leader after it.                *)
(***************************************************************************)
EXTENDS Committee, Sequences

CONSTANTS
  MaxEpoch,   \* bound: epochs 0..MaxEpoch are run
  MaxRound,   \* bound: rounds 0..MaxRound of an epoch are run
  LeaderOf,   \* LeaderOf[e][r]: randGen, the shuffle the ElectShares of e seed
  Correct     \* the nodes that do not crash

Epochs == 0 .. MaxEpoch
Rounds == 0 .. MaxRound
Flag == {"YES", "NO"}
VoteFlag == Flag \cup {"LOST"}    \* LOST: FLAG_NO with leader NONE

\* The size is one for which an ABA halts only with a flag of f+1 nodes.
ASSUME MVBAAssumption ==
  /\ Size % 3 = 1
  /\ MaxEpoch \in Nat
  /\ MaxRound \in 0 .. Size - 1
  /\ LeaderOf \in [Epochs -> [Rounds -> Node]]
  /\ \A e \in Epochs : \A r, s \in Rounds : LeaderOf[e][r] = LeaderOf[e][s] => r = s
  /\ Correct \subseteq Node
  /\ NONE \notin Flag

VARIABLES
  Epoch,     \* Epoch[i]: the epoch i is in
  proposal,  \* proposal[e][i]: number of the batch i proposes in epoch e, or 0
  queue,     \* queue[i]: the batches in i's batchChannel
  bcnt,      \* bcnt[i]: batches i has made
  has,       \* has[e][i]: nodes whose block of epoch e node i has
  backs,     \* backs[e][i]: cbcFinalIndexs, nodes whose DATA_CBC came back
  com,       \* com[e][i][j]: the commitment of j as node i has it
  comBacks,  \* comBacks[e][i]: nodes whose COMMIT_CBC came back
  elected,   \* elected[e]: nodes that combined the ElectShares
  votes,     \* votes[e][r][i]: flags of the Votes i sent
  refused,   \* refused[e][r][i]: nodes whose NO checkVote made i refuse
  input,     \* input[e][r][i]: the flag i invoked the ABA with
  decision,  \* decision[e][r]: the flag the ABA halts with
  ended,     \* ended[e][r]: nodes that processed the ABABack of the halt
  commitor,  \* commitor[i]: i's Commitor
  panicked   \* nodes that indexed a commitment with NONE

batchVars == <<proposal, queue, bcnt>>
cbcVars == <<has, backs, com, comBacks>>
voteVars == <<votes, refused, input>>
abaVars == <<decision, ended>>
vars == <<Epoch, batchVars, cbcVars, elected, voteVars, abaVars, commitor, panicked>>

\* messageFilter lets a message of epoch e through.
Passes(i, e) == e >= Epoch[i]

IsQuorum(S) == Cardinality(S) >= HightThreshold

Init ==
  /\ Epoch = [i \in Node |-> 0]
  /\ proposal = [e \in Epochs |-> [i \in Node |-> IF e = 0 THEN 1 ELSE 0]]
  /\ queue = [i \in Node |-> <<>>]
  /\ bcnt = [i \in Node |-> 1]
  /\ has = [e \in Epochs |-> [i \in Node |-> {}]]
  /\ backs = [e \in Epochs |-> [i \in Node |-> {}]]
  /\ com = [e \in Epochs |-> [i \in Node |-> [j \in Node |-> NONE]]]
  /\ comBacks = [e \in Epochs |-> [i \in Node |-> {}]]
  /\ elected = [e \in Epochs |-> {}]
  /\ votes = [e \in Epochs |-> [r \in Rounds |-> [i \in Node |-> {}]]]
  /\ refused = [e \in Epochs |-> [r \in Rounds |-> [i \in Node |-> {}]]]
  /\ input = [e \in Epochs |-> [r \in Rounds |-> [i \in Node |-> NONE]]]
  /\ decision = [e \in Epochs |-> [r \in Rounds |-> NONE]]
  /\ ended = [e \in Epochs |-> [r \in Rounds |-> {}]]
  /\ commitor = [i \in Node |-> [curIndex |-> 0,
                                 leaders |-> [e \in Epochs |-> NONE],
                                 blocks |-> [e \in Epochs |-> NONE]]]
  /\ panicked = {}

-----------------------------------------------------------------------------
\* Commitor.Commit of leader l's block in epoch e: drops what was output, else
\* outputs every block that is next in line.  What was output stays in blocks.
Commit(c, e, l) ==
  IF e < c.curIndex THEN c
  ELSE LET blocks == [c.blocks EXCEPT ![e] = l]
           next == CHOOSE k \in c.curIndex .. MaxEpoch + 1 :
                     /\ \A m \in c.curIndex .. k - 1 : blocks[m] # NONE
                     /\ k \in Epochs => blocks[k] = NONE
       IN [curIndex |-> next, leaders |-> [c.leaders EXCEPT ![e] = l], blocks |-> blocks]

\* handleProposal of p's block, with ProcessProposal as far as BlockHash, which
\* its goroutine sets: until then nothing looks the stored block up.
HandleProposal(i, e, p) ==
  /\ proposal[e][p] # 0
  /\ p \notin has[e][i]
  /\ Passes(i, e)
  /\ commitor' = IF commitor[i].leaders[e] = p
                 THEN [commitor EXCEPT ![i] = Commit(@, e, p)]
                 ELSE commitor
  /\ has' = [has EXCEPT ![e][i] = @ \cup {p}]
  /\ UNCHANGED <<Epoch, batchVars, backs, com, comBacks, elected, voteVars, abaVars, panicked>>

\* processCBCBack for p's block.
ProcessDataBack(i, e, p) ==
  /\ Passes(i, e)
  /\ p \in has[e][i] \ backs[e][i]
  /\ IsQuorum({j \in Node : p \in has[e][j]})
  /\ backs' = [backs EXCEPT ![e][i] = @ \cup {p}]
  /\ UNCHANGED <<Epoch, batchVars, has, com, comBacks, elected, voteVars, abaVars, commitor,
                 panicked>>

\* The count at which processCBCBack sends the Commitment.
SendsCommitment(j, e) == IsQuorum(backs[e][j])

\* handleCommitment of j's, with ProcessCommitment.  The slice in the message is
\* j's cbcFinalIndexs itself: it is encoded when the connection to i gets to
\* it, with the entries that are set by then.
HandleCommitment(i, e, j) ==
  /\ Passes(i, e)
  /\ SendsCommitment(j, e)
  /\ com[e][i][j] = NONE
  /\ com' = [com EXCEPT ![e][i][j] = backs[e][j]]
  /\ UNCHANGED <<Epoch, batchVars, has, backs, comBacks, elected, voteVars, abaVars, commitor,
                 panicked>>

\* processCBCBack for j's commitment.
ProcessCommitBack(i, e, j) ==
  /\ Passes(i, e)
  /\ j \notin comBacks[e][i]
  /\ com[e][i][j] # NONE
  /\ IsQuorum({k \in Node : com[e][k][j] # NONE})
  /\ comBacks' = [comBacks EXCEPT ![e][i] = @ \cup {j}]
  /\ UNCHANGED <<Epoch, batchVars, has, backs, com, elected, voteVars, abaVars, commitor,
                 panicked>>

-----------------------------------------------------------------------------
\* The nodes that sent their ElectShare.
ElectShares(e) == {i \in Node : IsQuorum(comBacks[e][i])}

\* Leaves the flag out when there is no commitment.
InvokeStageTwoBlank(i, e, r, known) ==
  /\ votes' = [votes EXCEPT ![e][r][i] =
                 @ \cup {CASE backs[e][i] \cup comBacks[e][i] = {} -> NONE
                           [] LeaderOf[e][r] \in backs[e][i] -> "YES"
                           [] OTHER -> "NO"}]
  /\ UNCHANGED panicked

\* Votes on the first leader in every round.
InvokeStageTwoFirst(i, e, r, known) ==
  /\ votes' = [votes EXCEPT ![e][r][i] =
                 @ \cup {IF LeaderOf[e][0] \in backs[e][i] THEN "YES" ELSE "NO"}]
  /\ UNCHANGED panicked

\* invokeStageTwo: a vote on the leader of round r by a node of known, which
\* can name it.  Another node votes NO on leader NONE if it has no
\* cbcFinalIndexs of the epoch, which addFinals makes when the first CBC of
\* either kind comes back; if it has, it panics on the index.
InvokeStageTwo(i, e, r, known) ==
  IF i \notin known /\ backs[e][i] \cup comBacks[e][i] # {}
  THEN /\ panicked' = panicked \cup {i}
       /\ UNCHANGED votes
  ELSE /\ votes' = [votes EXCEPT ![e][r][i] =
                      @ \cup {CASE i \notin known -> "LOST"
                                [] LeaderOf[e][r] \in backs[e][i] -> "YES"
                                [] OTHER -> "NO"}]
       /\ UNCHANGED panicked

\* handleElectShare, the 2f+1-th of epoch e: stage two starts in the epoch the
\* node is in, which may be an earlier one.
HandleElectShare(i, e) ==
  /\ Passes(i, e)
  /\ i \notin elected[e]
  /\ IsQuorum(ElectShares(e))
  /\ elected' = [elected EXCEPT ![e] = @ \cup {i}]
  /\ InvokeStageTwo(i, Epoch[i], 0, elected'[Epoch[i]])
  /\ UNCHANGED <<Epoch, batchVars, cbcVars, refused, input, abaVars, commitor>>

\* The commitment of j that checkVote of node i looks at: its own is the slice
\* it still writes to.
Commitment(i, e, j) == IF i = j THEN backs[e][i] ELSE com[e][i][j]

\* j sent a vote without a leader.  That is its first, sent before its
\* Commitment: checkVote finds nothing to index with NONE, and the vote counts.
Lost(e, r, j) == "LOST" \in votes[e][r][j]

\* handleVote of a NO of j that checkVote refuses; it matters until the ABA is
\* invoked.
RefuseVote(i, e, r, j) ==
  /\ Passes(i, e)
  /\ input[e][r][i] = NONE
  /\ "NO" \in votes[e][r][j] /\ ~ Lost(e, r, j)
  /\ j \in comBacks[e][i] \ refused[e][r][i]
  /\ LeaderOf[e][r] \in Commitment(i, e, j)
  /\ refused' = [refused EXCEPT ![e][r][i] = @ \cup {j}]
  /\ UNCHANGED <<Epoch, batchVars, cbcVars, elected, votes, input, abaVars, commitor, panicked>>

\* handleVote of the first YES counted: a second vote of a node counts only if
\* its first was refused.
InvokeABAYes(i, e, r, j) ==
  /\ Passes(i, e)
  /\ input[e][r][i] = NONE
  /\ "YES" \in votes[e][r][j] /\ ~ Lost(e, r, j)
  /\ "NO" \in votes[e][r][j] => j \in refused[e][r][i]
  /\ input' = [input EXCEPT ![e][r][i] = "YES"]
  /\ UNCHANGED <<Epoch, batchVars, cbcVars, elected, votes, refused, abaVars, commitor, panicked>>

\* The nodes whose NO counts at i.
NoVotes(i, e, r) ==
  {j \in Node : Lost(e, r, j) \/ ("NO" \in votes[e][r][j] /\ j \notin refused[e][r][i])}

\* handleVote of the 2f+1-th vote counted when all of them are NO.  One that is
\* refused by now may have been counted before.
InvokeABANo(i, e, r) ==
  /\ Passes(i, e)
  /\ input[e][r][i] = NONE
  /\ IsQuorum(NoVotes(i, e, r))
  /\ input' = [input EXCEPT ![e][r][i] = "NO"]
  /\ UNCHANGED <<Epoch, batchVars, cbcVars, elected, votes, refused, abaVars, commitor, panicked>>

-----------------------------------------------------------------------------
\* The ABA of round r halts with a flag that f+1 nodes put in: so it does in
\* committees of 3f+1 (module ABA).
DecideABA(e, r, f) ==
  /\ decision[e][r] = NONE
  /\ Cardinality({i \in Node : input[e][r][i] = f}) >= LowThreshold
  /\ decision' = [decision EXCEPT ![e][r] = f]
  /\ UNCHANGED <<Epoch, batchVars, cbcVars, elected, voteVars, ended, commitor, panicked>>

\* Records the NO and starts nothing.
ProcessABANoIdle(i, e, r) ==
  /\ i \notin ended[e][r]
  /\ decision[e][r] = "NO"
  /\ r < MaxRound
  /\ ended' = [ended EXCEPT ![e][r] = @ \cup {i}]
  /\ UNCHANGED <<Epoch, batchVars, cbcVars, elected, voteVars, decision, commitor, panicked>>

\* Goes to the next leader whatever the flag is.
ProcessABAAny(i, e, r) ==
  /\ i \notin ended[e][r]
  /\ decision[e][r] # NONE
  /\ r < MaxRound
  /\ ended' = [ended EXCEPT ![e][r] = @ \cup {i}]
  /\ InvokeStageTwo(i, e, r + 1, elected[e])
  /\ UNCHANGED <<Epoch, batchVars, cbcVars, elected, refused, input, decision, commitor>>

\* handleABAHalt with ProcessHalt, and processABABack with NO: the next leader.
\* The filter is in handleABAHalt: between the two a node may leave the epoch.
\* As it can only do so when the ABAHalt of the epoch has been sent, the filter
\* shows no effect.
ProcessABANo(i, e, r) ==
  /\ i \notin ended[e][r]
  /\ decision[e][r] = "NO"
  /\ r < MaxRound
  /\ ended' = [ended EXCEPT ![e][r] = @ \cup {i}]
  /\ InvokeStageTwo(i, e, r + 1, elected[e])
  /\ UNCHANGED <<Epoch, batchVars, cbcVars, elected, refused, input, decision, commitor>>

\* Puts its own batch back also when its own block was accepted.
PutBatchOwn(i, e, l) ==
  IF {l, i} \subseteq has[e][i] THEN Append(queue[i], proposal[e][i]) ELSE queue[i]

\* PutBatch in handleOutput of leader l: the batchChannel after it.
PutBatch(i, e, l) ==
  IF l # i /\ {l, i} \subseteq has[e][i] THEN Append(queue[i], proposal[e][i]) ELSE queue[i]

\* abvanceNextEpoch: a block of the oldest batch that came back, or a new one.
AbvanceNextEpoch(i, e, q) ==
  IF e <= Epoch[i]
  THEN /\ queue' = [queue EXCEPT ![i] = q]
       /\ UNCHANGED <<Epoch, proposal, bcnt>>
  ELSE /\ Epoch' = [Epoch EXCEPT ![i] = e]
       /\ proposal' = IF e \in Epochs
                      THEN [proposal EXCEPT ![e][i] = IF q = <<>> THEN bcnt[i] + 1 ELSE Head(q)]
                      ELSE proposal
       /\ bcnt' = [bcnt EXCEPT ![i] = IF q = <<>> THEN @ + 1 ELSE @]
       /\ queue' = [queue EXCEPT ![i] = IF q = <<>> THEN q ELSE Tail(q)]

\* The leaders an ABAHalt of round r may name.  Who puts in a NO names the
\* leader of the vote that made it do so, and that is passed on.
HaltLeaders(e, r) ==
  {LeaderOf[e][r]} \cup {l \in {NONE} : \E i, j \in Node : input[e][r][i] = "NO" /\ Lost(e, r, j)}

\* The same with YES on leader l, and handleOutput: without the block nothing is
\* committed, not even the leader, and the epoch is over all the same.
HandleOutput(i, e, r, l) ==
  /\ i \notin ended[e][r]
  /\ decision[e][r] = "YES"
  /\ ended' = [ended EXCEPT ![e][r] = @ \cup {i}]
  /\ commitor' = IF l \in has[e][i] THEN [commitor EXCEPT ![i] = Commit(@, e, l)] ELSE commitor
  /\ AbvanceNextEpoch(i, e + 1, PutBatch(i, e, l))
  /\ UNCHANGED <<cbcVars, elected, voteVars, decision, panicked>>

-----------------------------------------------------------------------------
CBCStep(i) ==
  \E e \in Epochs, j \in Node :
    \/ HandleProposal(i, e, j) \/ ProcessDataBack(i, e, j)
    \/ HandleCommitment(i, e, j) \/ ProcessCommitBack(i, e, j)

VoteStep(i) ==
  \E e \in Epochs :
    \/ HandleElectShare(i, e)
    \/ \E r \in Rounds :
         \/ InvokeABANo(i, e, r)
         \/ \E j \in Node : RefuseVote(i, e, r, j) \/ InvokeABAYes(i, e, r, j)

EndStep(i) ==
  \E e \in Epochs, r \in Rounds :
    ProcessABANo(i, e, r) \/ \E l \in HaltLeaders(e, r) : HandleOutput(i, e, r, l)

NodeStep(i) == i \notin panicked /\ (CBCStep(i) \/ VoteStep(i) \/ EndStep(i))

ABAStep == \E e \in Epochs, r \in Rounds, f \in Flag : DecideABA(e, r, f)

Next == ABAStep \/ \E i \in Correct : NodeStep(i)

Spec == Init /\ [][Next]_vars

\* A step of the core loop of i for which the messages of correct nodes suffice.
CoreStep(i) ==
  /\ i \notin panicked
  /\ \/ EndStep(i)
     \/ \E e \in Epochs :
          \/ IsQuorum(ElectShares(e) \cap Correct) /\ HandleElectShare(i, e)
          \/ \E r \in Rounds :
               \/ IsQuorum(NoVotes(i, e, r) \cap Correct) /\ InvokeABANo(i, e, r)
               \/ \E j \in Correct : InvokeABAYes(i, e, r, j)

\* The core loop of a node that does not crash is eventually scheduled, and
\* links between such nodes deliver.  Nothing is assumed of the CBCs, which may
\* park a message for good, or of the ABAs.
Fairness == \A i \in Correct : WF_vars(CoreStep(i))

FairSpec == Spec /\ Fairness

-----------------------------------------------------------------------------
\* The shape of the state.
TypeOK ==
  /\ Epoch \in [Node -> 0 .. MaxEpoch + 1]
  /\ proposal \in [Epochs -> [Node -> Nat]]
  /\ queue \in [Node -> Seq(Nat \ {0})]
  /\ bcnt \in [Node -> Nat]
  /\ has \in [Epochs -> [Node -> SUBSET Node]]
  /\ backs \in [Epochs -> [Node -> SUBSET Node]]
  /\ \A e \in Epochs, i, j \in Node : com[e][i][j] = NONE \/ com[e][i][j] \subseteq Node
  /\ comBacks \in [Epochs -> [Node -> SUBSET Node]]
  /\ elected \in [Epochs -> SUBSET Node]
  /\ votes \in [Epochs -> [Rounds -> [Node -> SUBSET VoteFlag]]]
  /\ refused \in [Epochs -> [Rounds -> [Node -> SUBSET Node]]]
  /\ input \in [Epochs -> [Rounds -> [Node -> Flag \cup {NONE}]]]
  /\ decision \in [Epochs -> [Rounds -> Flag \cup {NONE}]]
  /\ ended \in [Epochs -> [Rounds -> SUBSET Node]]
  /\ commitor \in [Node -> [curIndex : 0 .. MaxEpoch + 1,
                            leaders : [Epochs -> Node \cup {NONE}],
                            blocks : [Epochs -> Node \cup {NONE}]]]
  /\ panicked \subseteq Node

\* A leader is output only if 2f+1 nodes have its block: the YES an ABA halts
\* with goes back to a node whose CBC of the block came back (invokeStageTwo).
OutputIsAvailable ==
  \A e \in Epochs, r \in Rounds :
    decision[e][r] = "YES" => IsQuorum({i \in Node : LeaderOf[e][r] \in has[e][i]})

\* The blocks that 2f+1 nodes have, the leader that epoch e outputs, and the
\* block of e in the Commitors.
Supported(e) == {p \in Node : IsQuorum({i \in Node : p \in has[e][i]})}
Winner(e) ==
  IF \E r \in Rounds : decision[e][r] = "YES"
  THEN LeaderOf[e][CHOOSE r \in Rounds : decision[e][r] = "YES"]
  ELSE NONE
Outputs(e) == [i \in Node |-> commitor[i].blocks[e]]

Con(e) == INSTANCE Consensus
            WITH Value <- Node, NoValue <- NONE,
                 supported <- Supported(e), chosen <- Winner(e), output <- Outputs(e)

\* The rounds of an epoch, one binary agreement after the other, take the steps
\* of one agreement on a block that 2f+1 nodes have: no round chooses a second
\* leader after one was accepted (processABABack), and all that a Commitor ever
\* holds of the epoch is the block of that leader (handleOutput, handleProposal).
ConsensusSteps ==
  [][\A e \in Epochs : Con(e)!Next \/ UNCHANGED Con(e)!conVars]_vars

\* An epoch does not reject many leaders: f+1 of the 2f+1 nodes that sent their
\* Commitment before the election must miss each, and none of them misses more
\* than Size - 2f - 1.  With Size = 3f+1 these are less than Size leaders, and
\* Elector.Leader never reads past the end of the shuffle.
LeaderIsFound ==
  \A e \in Epochs :
    Cardinality({r \in Rounds : decision[e][r] = "NO"}) * (2 * HightThreshold - Size)
      <= HightThreshold * (Size - HightThreshold)

\* A batch is output once: when an epoch accepts the block of p, no later epoch
\* has a block of p with its batch, nor will p propose it again (PutBatch in
\* handleOutput, which puts a batch back when another block was accepted; the
\* ABABacks of two epochs may come in either order).
BatchIsOutputOnce ==
  \A e \in Epochs, p \in Node :
    Winner(e) = p =>
      /\ \A f \in e + 1 .. MaxEpoch : proposal[f][p] # proposal[e][p]
      /\ \A k \in DOMAIN queue[p] : queue[p][k] # proposal[e][p]

\* A node that elected the leader of e while it was in an earlier epoch.
Misdirected(i, e) == i \in elected[e] /\ votes[e][0][i] = {}

\* An ABA into which f+1 correct nodes put the same flag halts.
ABAsHalt ==
  \A e \in Epochs, r \in Rounds, f \in Flag :
    []<>(\/ decision[e][r] # NONE
         \/ Cardinality({i \in Correct : input[e][r][i] = f}) < LowThreshold)

\* Votes on one leader after the other end the epoch, if the ABAs halt: once
\* 2f+1 correct nodes have sent their ElectShare and all correct nodes are in
\* the epoch or past it, each of them comes to the end of it (invokeStageTwo,
\* handleVote, processABABack), unless f+1 of them refused a vote in one round,
\* or one of them cast its first vote in another epoch or panicked.  That
\* the CBCs come back is assumed.
EpochEnds ==
  ABAsHalt =>
    \A e \in Epochs :
      (\A i \in Correct : Epoch[i] >= e) /\ IsQuorum(ElectShares(e) \cap Correct) ~>
        \/ \A i \in Correct : Epoch[i] > e
        \/ panicked # {}
        \/ \E i \in Correct : Misdirected(i, e)
        \/ \E r \in Rounds :
             Cardinality({i \in Correct : refused[e][r][i] # {}}) >= LowThreshold

=============================================================================
