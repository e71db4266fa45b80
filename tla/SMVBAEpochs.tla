----------------------------- MODULE SMVBAEpochs -----------------------------
(***************************************************************************)
(* How SMVBA nodes go from epoch to epoch: Halt, messgaeFilter, the        *)
(* Committor that outputs the blocks in epoch order, the commit of a late  *)
(* proposal, and the transaction pool the batches come from and go back    *)
(* to.  What happens inside an epoch is module SMVBA; here the outcome of  *)
(* epoch e is the block of Decision[e], and a Halt for it is broadcast by  *)
(* any node that is not past the epoch once 2f+1 nodes have the block.     *)
(* A message that is lost is one that is never handled.  Links are FIFO,   *)
(* and a node puts its own Halt into its channel when it broadcasts it.    *)
(***************************************************************************)
EXTENDS Committee, Sequences

CONSTANTS
  MaxEpoch,   \* bound: epochs 0..MaxEpoch are run
  Decision,   \* Decision[e]: the proposer whose block epoch e decides
  NodeZero    \* the node whose NodeID is 0

Epochs == 0 .. MaxEpoch

ASSUME EpochsAssumption ==
  /\ MaxEpoch \in Nat
  /\ Decision \in [Epochs -> Node]
  /\ NodeZero \in Node

VARIABLES
  Epoch,      \* Epoch[i]: the epoch i is in
  batch,      \* batch[i][e]: the batch in i's block of epoch e, 0 if no block
  queue,      \* queue[i]: i's batchChannel
  bcnt,       \* bcnt[i]: batches i has made; a batch is named by its number
  store,      \* store[i][e]: proposers whose block of epoch e is stored by i
  halts,      \* Halt messages in the order they were broadcast
  handled,    \* handled[i]: positions in halts that i has handled
  HaltFlags,  \* HaltFlags[i]: epochs i has halted
  leaders,    \* leaders[i][e]: i's Elector.leaders, in round 0
  Index,      \* Index[i]: the next epoch i's Committor outputs
  Blocks,     \* Blocks[i][e]: proposer of the block waiting in the Committor
  log         \* log[i]: proposers of the blocks output

poolVars == <<batch, queue, bcnt>>
commitVars == <<Index, Blocks, log>>
vars == <<Epoch, poolVars, store, halts, handled, HaltFlags, leaders, commitVars>>

HaltMsg == [author : Node, leader : Node, epoch : Epochs]

\* The Halts that are still to reach i and that messgaeFilter lets through.
Pending(i) == {k \in DOMAIN halts \ handled[i] : halts[k].epoch >= Epoch[i]}

-----------------------------------------------------------------------------
\* Pool.GetBatch: the head of the channel, or a batch made on the spot.
GetBatch(n, q) ==
  IF q # <<>> THEN [batch |-> Head(q), rest |-> Tail(q), made |-> n]
              ELSE [batch |-> n + 1, rest |-> q, made |-> n + 1]

\* generatorBlock and the proposal of epoch e; q is the channel by then.
Propose(i, e, q) ==
  LET got == GetBatch(bcnt[i], q) IN
  /\ batch' = IF e \in Epochs THEN [batch EXCEPT ![i][e] = got.batch] ELSE batch
  /\ queue' = [queue EXCEPT ![i] = got.rest]
  /\ bcnt' = [bcnt EXCEPT ![i] = got.made]

\* Outputs past a missing epoch.
NextGapSkipping(blocks, from) ==
  CHOOSE k \in from .. MaxEpoch + 1 :
    \A e \in k .. MaxEpoch : blocks[e] = NONE

\* Committor.Commit: outputs every block that is next in line.
NextGap(blocks, from) ==
  CHOOSE k \in from .. MaxEpoch + 1 :
    /\ \A e \in from .. k - 1 : blocks[e] # NONE
    /\ k \in Epochs => blocks[k] = NONE

Commit(i, e, p) ==
  IF e < Index[i]
  THEN UNCHANGED commitVars
  ELSE LET waiting == [Blocks[i] EXCEPT ![e] = p]
           next == NextGap(waiting, Index[i])
       IN /\ Index' = [Index EXCEPT ![i] = next]
          /\ log' = [log EXCEPT ![i] =
                       @ \o [k \in 1 .. next - Index[i] |-> waiting[Index[i] + k - 1]]]
          /\ Blocks' = [Blocks EXCEPT ![i] =
                          [k \in Epochs |-> IF k < next THEN NONE ELSE waiting[k]]]

-----------------------------------------------------------------------------
\* Run: every node proposes in epoch 0 before it handles a message.
Init ==
  /\ Epoch = [i \in Node |-> 0]
  /\ batch = [i \in Node |-> [e \in Epochs |-> IF e = 0 THEN 1 ELSE 0]]
  /\ queue = [i \in Node |-> <<>>]
  /\ bcnt = [i \in Node |-> 1]
  /\ store = [i \in Node |-> [e \in Epochs |-> {}]]
  /\ halts = <<>>
  /\ handled = [i \in Node |-> {}]
  /\ HaltFlags = [i \in Node |-> {}]
  /\ leaders = [i \in Node |-> [e \in Epochs |-> NONE]]
  /\ Index = [i \in Node |-> 0]
  /\ Blocks = [i \in Node |-> [e \in Epochs |-> NONE]]
  /\ log = [i \in Node |-> <<>>]

\* Commits the block of the leader whether or not the epoch has halted.
HandleSpbProposalUnhalted(i, e, p) ==
  /\ batch[p][e] # 0
  /\ p \notin store[i][e]
  /\ IF leaders[i][e] = p THEN Commit(i, e, p) ELSE UNCHANGED commitVars
  /\ store' = IF e < Epoch[i] THEN store ELSE [store EXCEPT ![i][e] = @ \cup {p}]
  /\ UNCHANGED <<Epoch, poolVars, halts, handled, HaltFlags, leaders>>

\* handleSpbProposal, phase one of round 0: a halted epoch's leader is
\* committed late, an old epoch is dropped, otherwise the block is stored.
HandleSpbProposal(i, e, p) ==
  /\ batch[p][e] # 0
  /\ p \notin store[i][e]
  /\ IF e \in HaltFlags[i] /\ leaders[i][e] = p
     THEN Commit(i, e, p)
     ELSE UNCHANGED commitVars
  /\ store' = IF e < Epoch[i] THEN store ELSE [store EXCEPT ![i][e] = @ \cup {p}]
  /\ UNCHANGED <<Epoch, poolVars, halts, handled, HaltFlags, leaders>>

\* The end of epoch e at node i, see module SMVBA.  A Halt sent on FinVotes
\* names node 0 as the leader.
BroadcastHalt(i, e, ld) ==
  /\ e >= Epoch[i]
  /\ Cardinality({j \in Node : Decision[e] \in store[j][e]}) >= HightThreshold
  /\ ld \in {Decision[e], NodeZero}
  /\ \A k \in DOMAIN halts : halts[k].author = i => halts[k].epoch < e
  /\ halts' = Append(halts, [author |-> i, leader |-> ld, epoch |-> e])
  /\ UNCHANGED <<Epoch, poolVars, store, handled, HaltFlags, leaders, commitVars>>

\* Puts the own batch back even when it is the one committed.
OwnBatchBackAlways(i, e) ==
  IF i \in store[i][e] THEN {queue[i], Append(queue[i], batch[i][e])} ELSE {queue[i]}

\* handleOutput's PutBatch of i's own batch, unless i's block was the one.
\* The broadcast instance knows the own block once its goroutine has run.
OwnBatchBack(i, e) ==
  IF Decision[e] # i /\ i \in store[i][e]
  THEN {queue[i], Append(queue[i], batch[i][e])}
  ELSE {queue[i]}

\* handleHalt: a Halt of an old epoch is dropped; nothing but the leader is
\* kept when the block is missing; otherwise commit, put the own batch back,
\* halt and enter the next epoch.
HandleHalt(i, k) ==
  LET e == halts[k].epoch IN
  /\ \A g \in Pending(i) : g < k => halts[g].author \notin {i, halts[k].author}
  /\ handled' = [handled EXCEPT ![i] = @ \cup {k}]
  /\ leaders' = [leaders EXCEPT ![i][e] = halts[k].leader]
  /\ IF Decision[e] \notin store[i][e]
     THEN UNCHANGED <<Epoch, poolVars, HaltFlags, commitVars>>
     ELSE /\ Commit(i, e, Decision[e])
          /\ HaltFlags' = [HaltFlags EXCEPT ![i] = @ \cup {e}]
          /\ Epoch' = [Epoch EXCEPT ![i] = e + 1]
          /\ \E q \in OwnBatchBack(i, e) : Propose(i, e + 1, q)
  /\ UNCHANGED <<store, halts>>

Next ==
  \E i \in Node :
    \/ \E e \in Epochs, p \in Node : HandleSpbProposal(i, e, p) \/ BroadcastHalt(i, e, p)
    \/ \E k \in Pending(i) : HandleHalt(i, k)

Spec == Init /\ [][Next]_vars

-----------------------------------------------------------------------------
\* The shape of the state: in particular the Committor outputs only blocks, and
\* epochs stay within one of the last.
TypeOK ==
  /\ Epoch \in [Node -> 0 .. MaxEpoch + 1]
  /\ batch \in [Node -> [Epochs -> Nat]]
  /\ queue \in [Node -> Seq(Nat)]
  /\ bcnt \in [Node -> Nat]
  /\ store \in [Node -> [Epochs -> SUBSET Node]]
  /\ halts \in Seq(HaltMsg)
  /\ handled \in [Node -> SUBSET (DOMAIN halts)]
  /\ HaltFlags \in [Node -> SUBSET Epochs]
  /\ leaders \in [Node -> [Epochs -> Node \cup {NONE}]]
  /\ Index \in [Node -> 0 .. MaxEpoch + 1]
  /\ Blocks \in [Node -> [Epochs -> Node \cup {NONE}]]
  /\ log \in [Node -> Seq(Node)]

\* What a node outputs is the sequence of decisions from epoch 0 on, so any
\* two nodes output the same blocks in the same order, although the commit of
\* a late proposal may put the block of a wrong leader into the Committor.
LogIsDecided ==
  \A i \in Node : log[i] = [k \in 1 .. Index[i] |-> Decision[k - 1]]

\* The Committor outputs up to the first epoch that the node has not halted, and
\* nothing beyond: a node that leaves an epoch on a Halt of a later one has a gap
\* there and outputs nothing any more, however many epochs it halts.
NothingPastAGap ==
  \A i \in Node :
    /\ 0 .. Index[i] - 1 \subseteq HaltFlags[i]
    /\ Index[i] \notin HaltFlags[i]

\* A batch that went back to the pool is not also in a block that was decided:
\* no batch is output in two epochs.
BatchOutputOnce ==
  \A i, j \in Node : \A e \in 0 .. Index[i] - 1, f \in 0 .. Index[j] - 1 :
    Decision[e] = Decision[f] /\ e # f =>
      batch[Decision[e]][e] # batch[Decision[f]][f]

=============================================================================
