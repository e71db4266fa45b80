-------------------------------- MODULE SMVBA --------------------------------
(***************************************************************************)
(* One epoch of the SMVBA core (core/smvba/consensus/core.go): strong      *)
(* provable broadcasts, Finish, Done, leader election, Prevote, FinVote,   *)
(* Halt, and the rounds they repeat in.                                    *)
(*                                                                         *)
(* A node's core is one loop, so a handler is one step.  Messages are      *)
(* never removed: a step may handle any message that was broadcast, in any *)
(* order, late or never.  A handler that only adds an author to an         *)
(* aggregator has no effect until the one that reaches the threshold; that *)
(* one is the step modelled, and it is enabled when enough different       *)
(* authors have sent the message.  A node that has halted has advanced to  *)
(* the next epoch and messgaeFilter drops everything: its core takes no    *)
(* step, but goroutines of its broadcast instances may still run.          *)
(*                                                                         *)
(* A block is named by the node that made it: a node makes one block in an *)
(* epoch (the second generatorBlock call, in advanceNextRound, is dead     *)
(* code because the store never returns store.ErrNotFoundKey).             *)
(***************************************************************************)
EXTENDS Committee

CONSTANTS
  Coin,       \* Coin[r]: the leader all threshold-signature shares of r give
  MaxRound,   \* bound: rounds 0..MaxRound are run
  Correct,    \* the nodes that do not crash (a slow node is one of them)
  NodeZero,   \* the node whose NodeID is 0
  NO,         \* the flag of a negative vote
  Fifo,       \* network: no message of a node overtakes its block
  Prompt      \* network: a block arrives before any Halt for it

Round == 0 .. MaxRound

ASSUME SMVBAAssumption ==
  /\ MaxRound \in Nat
  /\ Coin \in [Round -> Node]
  /\ NodeZero \in Node
  /\ Correct \subseteq Node
  /\ NO \notin Node \cup {NONE}
  /\ Fifo \in BOOLEAN
  /\ Prompt \in BOOLEAN

VARIABLES
  proposal,  \* proposal[r][p]: block p proposed in round r, or NONE
  store,     \* store[i]: blocks in i's store
  voted,     \* voted[r][p]: nodes with a BlockHash in the instance of p
  locked,    \* locked[r][p]: nodes with LockFlag in the instance of p
  finish,    \* finish[r]: proposers that broadcast Finish
  FinishFlags, \* FinishFlags[i][r]: proposers whose Finish i handled
  done,      \* done[r]: nodes that broadcast Done and ElectShare (DoneFlags)
  ready,     \* ready[r]: nodes with ReadyFlags
  elected,   \* elected[r]: nodes that combined 2f+1 shares
  leader,    \* leader[i][r]: i's Elector.leaders
  prevote,   \* prevote[r][i]: block or NO that i prevoted first, or NONE
  finvote,   \* finvote[r][i]: block or NO that i finvoted first, or NONE
  action,    \* action[r][i]: what i's FinVote aggregator returned
  halts,     \* Halt messages broadcast
  output     \* output[i]: block i committed, or NONE (HaltFlags)

spbVars == <<proposal, store, voted, locked, finish>>
electVars == <<FinishFlags, done, ready, elected, leader>>
voteVars == <<prevote, finvote, action>>
haltVars == <<halts, output>>
vars == <<spbVars, electVars, voteVars, haltVars>>

Halt == [author : Node, leader : Node, round : Round, block : Node]

Running(i) == output[i] = NONE

\* The authors in S whose messages can have reached i.  On a FIFO link, where
\* nothing is lost, the block comes first: it is what a node sends on entering
\* the epoch.
Heard(i, S) == IF Fifo THEN S \cap store[i] ELSE S

Init ==
  /\ proposal = [r \in Round |-> [p \in Node |-> IF r = 0 THEN p ELSE NONE]]
  /\ store = [i \in Node |-> {}]
  /\ voted = [r \in Round |-> [p \in Node |-> {}]]
  /\ locked = [r \in Round |-> [p \in Node |-> {}]]
  /\ finish = [r \in Round |-> {}]
  /\ FinishFlags = [i \in Node |-> [r \in Round |-> {}]]
  /\ done = [r \in Round |-> {}]
  /\ ready = [r \in Round |-> {}]
  /\ elected = [r \in Round |-> {}]
  /\ leader = [i \in Node |-> [r \in Round |-> NONE]]
  /\ prevote = [r \in Round |-> [i \in Node |-> NONE]]
  /\ finvote = [r \in Round |-> [i \in Node |-> NONE]]
  /\ action = [r \in Round |-> [i \in Node |-> "ACTION_NONE"]]
  /\ halts = {}
  /\ output = [i \in Node |-> NONE]

-----------------------------------------------------------------------------
(* Strong provable broadcast: the block of a proposer is handled by the    *)
(* core, then by the instance, whose steps are those of ProvableBroadcast. *)

\* handleSpbProposal, phase one: the core stores the block.
HandleSpbProposal(i, r, p) ==
  /\ Running(i)
  /\ proposal[r][p] \in Node \ store[i]
  /\ store' = [store EXCEPT ![i] = @ \cup {proposal[r][p]}]
  /\ UNCHANGED <<proposal, voted, locked, finish, electVars, voteVars, haltVars>>

\* processProposal, phase one: vote, unless p did not make the block.
SpbVote(i, r, p) ==
  /\ proposal[r][p] = p
  /\ p \in store[i]
  /\ i \notin voted[r][p]
  /\ voted' = [voted EXCEPT ![r][p] = @ \cup {i}]
  /\ UNCHANGED <<proposal, store, locked, finish, electVars, voteVars, haltVars>>

\* Locks on a phase-two proposal whose phase one was never handled.
SpbLockUnchecked(i, r, p) ==
  /\ Cardinality(voted[r][p]) >= LowThreshold
  /\ locked' = [locked EXCEPT ![r][p] = @ \cup {i}]
  /\ UNCHANGED <<proposal, store, voted, finish, electVars, voteVars, haltVars>>

\* processProposal, phase two, which p sent after 2f+1 votes.
SpbLock(i, r, p) ==
  /\ i \in voted[r][p] \ locked[r][p]
  /\ Cardinality(voted[r][p]) >= HightThreshold
  /\ locked' = [locked EXCEPT ![r][p] = @ \cup {i}]
  /\ UNCHANGED <<proposal, store, voted, finish, electVars, voteVars, haltVars>>

\* processVote at p, with the 2f+1-th vote of phase two.
SpbFinish(p, r) ==
  /\ p \notin finish[r]
  /\ Cardinality(locked[r][p]) >= HightThreshold
  /\ finish' = [finish EXCEPT ![r] = @ \cup {p}]
  /\ UNCHANGED <<proposal, store, voted, locked, electVars, voteVars, haltVars>>

-----------------------------------------------------------------------------
(* Finish, Done and the election.                                          *)

\* Compares with the lower threshold.
AddFinishVoteLow(authors) == Cardinality(authors) = LowThreshold

\* AddFinishVote, after the Finish messages of authors: the first one goes to
\* an aggregator that is thrown away, and completes it if one is enough; the
\* others go to the one that is kept.
AddFinishVote(authors) ==
  \/ Cardinality(authors) = 1 /\ HightThreshold = 1
  \/ Cardinality(authors) - 1 = HightThreshold

SetLeader(i, r, ld) == leader' = [leader EXCEPT ![i][r] = ld]

\* invokeDoneAndShare: Done and ElectShare are broadcast once.
InvokeDoneAndShare(i, r) == done' = [done EXCEPT ![r] = @ \cup {i}]

\* Halts on the Finish of the own block, whoever is the leader.
ProcessLeaderOwn(i, r, ld) ==
  IF i \in FinishFlags[i][r]
  THEN /\ halts' = halts \cup {[author |-> i, leader |-> i, round |-> r, block |-> i]}
       /\ UNCHANGED prevote
  ELSE /\ prevote' = IF prevote[r][i] # NONE THEN prevote
                     ELSE [prevote EXCEPT ![r][i] =
                             IF i \in locked[r][ld] THEN proposal[r][ld] ELSE NO]
       /\ UNCHANGED halts

\* processLeader with the leader ld: halt on ld's Finish, else prevote.  The
\* aggregators keep the first Prevote of an author only.
ProcessLeader(i, r, ld) ==
  IF ld \in FinishFlags[i][r]
  THEN /\ halts' = halts \cup {[author |-> i, leader |-> ld, round |-> r,
                                block |-> proposal[r][ld]]}
       /\ UNCHANGED prevote
  ELSE /\ prevote' = IF prevote[r][i] # NONE THEN prevote
                     ELSE [prevote EXCEPT ![r][i] =
                             IF i \in locked[r][ld] THEN proposal[r][ld] ELSE NO]
       /\ UNCHANGED halts

HandleFinish(i, r, p) ==
  /\ Running(i)
  /\ p \in Heard(i, finish[r]) \ FinishFlags[i][r]
  /\ FinishFlags' = [FinishFlags EXCEPT ![i][r] = @ \cup {p}]
  /\ IF AddFinishVote(FinishFlags[i][r] \cup {p})
     THEN InvokeDoneAndShare(i, r)
     ELSE UNCHANGED done
  /\ UNCHANGED <<spbVars, ready, elected, leader, voteVars, haltVars>>

\* handleDone, DONE_LOW_FLAG.
HandleDoneLow(i, r) ==
  /\ Running(i)
  /\ i \notin done[r]
  /\ Cardinality(Heard(i, done[r])) >= LowThreshold
  /\ InvokeDoneAndShare(i, r)
  /\ UNCHANGED <<spbVars, FinishFlags, ready, elected, leader, voteVars, haltVars>>

\* Leaves the leader to handleElectShare, which may have run before.
HandleDoneHighOnly(i, r) ==
  /\ Running(i)
  /\ i \in done[r] \ ready[r]
  /\ LowThreshold # HightThreshold
  /\ Cardinality(Heard(i, done[r])) >= HightThreshold
  /\ ready' = [ready EXCEPT ![r] = @ \cup {i}]
  /\ UNCHANGED <<spbVars, FinishFlags, done, elected, leader, voteVars, haltVars>>

\* handleDone, DONE_HIGH_FLAG: never returned when both thresholds are one.
\* The count went through f+1 before, so i has sent its own Done.
HandleDoneHigh(i, r) ==
  /\ Running(i)
  /\ i \in done[r] \ ready[r]
  /\ LowThreshold # HightThreshold
  /\ Cardinality(Heard(i, done[r])) >= HightThreshold
  /\ ready' = [ready EXCEPT ![r] = @ \cup {i}]
  /\ IF leader[i][r] = NONE
     THEN UNCHANGED <<prevote, halts>>
     ELSE ProcessLeader(i, r, leader[i][r])
  /\ UNCHANGED <<spbVars, FinishFlags, done, elected, leader, finvote, action, output>>

\* AddShareVote with the 2f+1-th share: the shares combine to the coin.
AddShareVote(i, r) ==
  /\ i \notin elected[r]
  /\ Cardinality(Heard(i, done[r])) >= HightThreshold
  /\ elected' = [elected EXCEPT ![r] = @ \cup {i}]
  /\ SetLeader(i, r, Coin[r])

HandleElectShare(i, r) ==
  /\ Running(i)
  /\ AddShareVote(i, r)
  /\ IF i \notin ready[r]
     THEN UNCHANGED <<prevote, halts>>
     ELSE ProcessLeader(i, r, Coin[r])
  /\ UNCHANGED <<spbVars, FinishFlags, done, ready, finvote, action, output>>

-----------------------------------------------------------------------------
(* Prevote, FinVote and the next round.                                    *)

\* handlePrevote, ACTION_YES: the first positive Prevote.
HandlePrevoteYes(i, r, j) ==
  /\ Running(i)
  /\ j \in Heard(i, Node)
  /\ prevote[r][j] \in Node
  /\ finvote[r][i] = NONE
  /\ finvote' = [finvote EXCEPT ![r][i] = prevote[r][j]]
  /\ UNCHANGED <<spbVars, electVars, prevote, action, haltVars>>

\* handlePrevote, ACTION_NO: 2f+1 negative ones.  A positive one that comes
\* later makes the node send a second FinVote, which every aggregator drops
\* because the author is known (links are FIFO).
HandlePrevoteNo(i, r) ==
  /\ Running(i)
  /\ Cardinality({j \in Heard(i, Node) : prevote[r][j] = NO}) >= HightThreshold
  /\ finvote[r][i] = NONE
  /\ finvote' = [finvote EXCEPT ![r][i] = NO]
  /\ UNCHANGED <<spbVars, electVars, prevote, action, haltVars>>

\* The authors of the 2f+1 FinVotes that i's aggregator counts.
FinVoteQuorums(i, r) ==
  {Q \in SUBSET {j \in Heard(i, Node) : finvote[r][j] # NONE} : Cardinality(Q) = HightThreshold}

\* Takes any positive FinVote for a unanimous one.
FinVoteActionAny(r, Q) ==
  IF \E j \in Q : finvote[r][j] # NO THEN "ACTION_COMMIT" ELSE "ACTION_NO"

FinVoteAction(r, Q) ==
  IF NO \notin {finvote[r][j] : j \in Q} THEN "ACTION_COMMIT"
  ELSE IF {finvote[r][j] : j \in Q} = {NO} THEN "ACTION_NO"
  ELSE "ACTION_YES"

\* advanceNextRound with the block b.  The zero digest (NO) and a block that
\* is not in the store make getBlock fail: nothing is proposed.
AdvanceNextRound(i, r, b) ==
  proposal' = IF b \in store[i] /\ r < MaxRound
              THEN [proposal EXCEPT ![r + 1][i] = b]
              ELSE proposal

\* The block of the own instance, if its phase one was handled.
OwnBlock(i, r) == IF i \in voted[r][i] THEN proposal[r][i] ELSE NO

\* The Halt names the block of the own Prevote, which may be negative.
HandleFinvotePrevoted(i, r, Q, last) ==
  /\ Running(i)
  /\ action[r][i] = "ACTION_NONE"
  /\ FinVoteAction(r, Q) = "ACTION_COMMIT"
  /\ action' = [action EXCEPT ![r][i] = "ACTION_COMMIT"]
  /\ halts' = halts \cup {[author |-> i, leader |-> NodeZero, round |-> r,
                           block |-> prevote[r][i]]}
  /\ UNCHANGED <<spbVars, electVars, prevote, finvote, output>>

\* Takes the own block to the next round even if a FinVote names one.
HandleFinvoteSelfish(i, r, Q, last) ==
  /\ Running(i)
  /\ action[r][i] = "ACTION_NONE"
  /\ action' = [action EXCEPT ![r][i] = FinVoteAction(r, Q)]
  /\ IF FinVoteAction(r, Q) = "ACTION_COMMIT"
     THEN UNCHANGED proposal
     ELSE AdvanceNextRound(i, r, OwnBlock(i, r))
  /\ UNCHANGED <<store, voted, locked, finish, electVars, prevote, finvote, haltVars>>

\* handleFinvote with the 2f+1-th FinVote, of node last.  The Halt names the
\* leader of the FinVote, which NewFinVote leaves at its zero value.
HandleFinvote(i, r, Q, last) ==
  /\ Running(i)
  /\ action[r][i] = "ACTION_NONE"
  /\ action' = [action EXCEPT ![r][i] = FinVoteAction(r, Q)]
  /\ CASE FinVoteAction(r, Q) = "ACTION_COMMIT" ->
            /\ halts' = halts \cup {[author |-> i, leader |-> NodeZero, round |-> r,
                                     block |-> finvote[r][last]]}
            /\ UNCHANGED proposal
       [] FinVoteAction(r, Q) = "ACTION_YES" ->
            AdvanceNextRound(i, r, finvote[r][last]) /\ UNCHANGED halts
       [] FinVoteAction(r, Q) = "ACTION_NO" ->
            AdvanceNextRound(i, r, OwnBlock(i, r)) /\ UNCHANGED halts
  /\ UNCHANGED <<store, voted, locked, finish, electVars, prevote, finvote, output>>

-----------------------------------------------------------------------------
\* Commits the block of the leader that the Halt names.
HandleHaltLeader(i, h) ==
  /\ Running(i)
  /\ h.author \in Heard(i, Node)
  /\ Prompt => h.block \in store[i]
  /\ SetLeader(i, h.round, h.leader)
  /\ output' = IF h.leader \in store[i]
               THEN [output EXCEPT ![i] = h.leader]
               ELSE output
  /\ UNCHANGED <<spbVars, FinishFlags, done, ready, elected, voteVars, halts>>

\* handleHalt: the leader is overwritten first; without the block handleOutput
\* returns an error and the node does not halt.
HandleHalt(i, h) ==
  /\ Running(i)
  /\ h.author \in Heard(i, Node)
  /\ Prompt => h.block \in store[i]
  /\ SetLeader(i, h.round, h.leader)
  /\ output' = IF h.block \in store[i]
               THEN [output EXCEPT ![i] = h.block]
               ELSE output
  /\ UNCHANGED <<spbVars, FinishFlags, done, ready, elected, voteVars, halts>>

-----------------------------------------------------------------------------
SpbStep(i) ==
  \E r \in Round :
    \/ SpbFinish(i, r)
    \/ \E p \in Node :
         \/ HandleSpbProposal(i, r, p)
         \/ SpbVote(i, r, p)
         \/ SpbLock(i, r, p)

ElectStep(i) ==
  \E r \in Round :
    \/ \E p \in Node : HandleFinish(i, r, p)
    \/ HandleDoneLow(i, r)
    \/ HandleDoneHigh(i, r)
    \/ HandleElectShare(i, r)

VoteStep(i) ==
  \E r \in Round :
    \/ \E j \in Node : HandlePrevoteYes(i, r, j)
    \/ HandlePrevoteNo(i, r)
    \/ \E Q \in FinVoteQuorums(i, r) : \E last \in Q : HandleFinvote(i, r, Q, last)

HaltStep(i) == \E h \in halts : HandleHalt(i, h)

Next == \E i \in Correct : SpbStep(i) \/ ElectStep(i) \/ VoteStep(i) \/ HaltStep(i)

Spec == Init /\ [][Next]_vars

\* The core of a node that does not crash is scheduled, and its links to other
\* such nodes lose nothing: what the core handles itself is handled.  Nothing is
\* asked of the broadcast instances: a message that one of them parks too late
\* is never looked at (module SPB), so a vote, a lock or a Finish may not come.
Fairness ==
  \A i \in Correct :
    /\ WF_vars(\E r \in Round, p \in Node : HandleSpbProposal(i, r, p))
    /\ WF_vars(ElectStep(i))
    /\ WF_vars(VoteStep(i))
    /\ WF_vars(HaltStep(i))

-----------------------------------------------------------------------------
\* The shape of the core's maps; a Halt always names a block, never the zero
\* digest of a negative FinVote.
TypeOK ==
  /\ proposal \in [Round -> [Node -> Node \cup {NONE}]]
  /\ store \in [Node -> SUBSET Node]
  /\ voted \in [Round -> [Node -> SUBSET Node]]
  /\ locked \in [Round -> [Node -> SUBSET Node]]
  /\ finish \in [Round -> SUBSET Node]
  /\ FinishFlags \in [Node -> [Round -> SUBSET Node]]
  /\ done \in [Round -> SUBSET Node]
  /\ ready \in [Round -> SUBSET Node]
  /\ elected \in [Round -> SUBSET Node]
  /\ leader \in [Node -> [Round -> Node \cup {NONE}]]
  /\ prevote \in [Round -> [Node -> Node \cup {NO, NONE}]]
  /\ finvote \in [Round -> [Node -> Node \cup {NO, NONE}]]
  /\ action \in [Round -> [Node -> {"ACTION_NONE", "ACTION_YES", "ACTION_NO", "ACTION_COMMIT"}]]
  /\ halts \subseteq Halt
  /\ output \in [Node -> Node \cup {NONE}]

\* Any two nodes that halt commit the same block (handleOutput), whichever Halt
\* reached them first and whether it came from a Finish or from FinVotes.
Agreement ==
  \A i, j \in Node : output[i] # NONE /\ output[j] # NONE => output[i] = output[j]

Available(b) == {i \in Node : b \in store[i]} \in Quorums

\* A block that a Halt names is in the stores of 2f+1 nodes, whether the Halt
\* comes from a Finish or from a quorum of FinVotes.
HaltIsAvailable ==
  \A h \in halts : Available(h.block)

\* The blocks that 2f+1 nodes store, and the block of the Halts.
Supported == {b \in Node : Available(b)}
HaltBlock == IF halts = {} THEN NONE ELSE CHOOSE b \in Node : \E h \in halts : h.block = b

Con == INSTANCE Consensus
         WITH Value <- Node, NoValue <- NONE, supported <- Supported, chosen <- HaltBlock

\* The broadcasts, the election and the votes of an epoch implement a single
\* choice among the blocks that 2f+1 nodes store: the first Halt makes it
\* (processLeader, handleFinvote), the later ones repeat it, and a node commits
\* once, that block (handleHalt).
ImplementsConsensus == Con!Spec

\* In one round no node moves on with its own block (2f+1 negative FinVotes)
\* while another commits (2f+1 positive ones).
CommitExcludesNo ==
  \A r \in Round, i, j \in Node :
    ~ (action[r][i] = "ACTION_COMMIT" /\ action[r][j] = "ACTION_NO")

\* Once a node has ACTION_COMMIT in a round, whoever goes on to the next round
\* proposes the committed block there: the FinVotes that advanceNextRound takes
\* a block from can only name that one.
CommitIsCarried ==
  \A r \in Round : r < MaxRound =>
    \A i, p \in Node :
      action[r][i] = "ACTION_COMMIT" => proposal[r + 1][p] \in {proposal[r][Coin[r]], NONE}

\* A node sends Done, and with it its share of the election, only when the
\* broadcasts of 2f+1 proposers are over: whether it counted their Finishes
\* itself (AddFinishVote) or followed f+1 others (handleDone).
DoneIsBacked ==
  \A r \in Round : done[r] # {} => Cardinality(finish[r]) >= HightThreshold

\* Once the Finishes of 2f+2 proposers are out, as many as AddFinishVote takes,
\* every correct node halts: it handles a Halt whose block it has and goes on to
\* the next epoch (advanceNextEpoch).  That so many come is not promised.
AllHalt ==
  Cardinality(finish[0]) > HightThreshold ~> \A i \in Correct : output[i] # NONE

=============================================================================
