------------------------------- MODULE Mercury -------------------------------
(***************************************************************************)
(* The nodes of core/mercury/consensus (core.go, spb.go, aggreator.go,     *)
(* elector.go, commitor.go): strong provable broadcasts, Finish, Done,     *)
(* the election, Prevote, FinVote, Halt, the next try, and the epochs with *)
(* the references that let a committed block carry others with it.         *)
(*                                                                         *)
(* A core is one loop, so a handler is one step; goroutines of broadcast   *)
(* instances are steps of their own.  Messages are never removed: a step   *)
(* may handle any message broadcast, in any order, late or never.  The     *)
(* handler run that brings an aggregator to its threshold is the step.     *)
(*                                                                         *)
(* A block is named by its epoch and its maker (the second generatorBlock, *)
(* in advanceNextRound, is dead code because the store never returns       *)
(* store.ErrNotFoundKey).  Only round 0 is run: a block proposed again in  *)
(* round 1 is stored, but a broadcast of a foreign block gets no vote, so  *)
(* round 1 has at most the leader's Finish and never elects.               *)
(***************************************************************************)
EXTENDS Committee, Sequences

CONSTANTS
  MaxEpoch,   \* bound: epochs 0..MaxEpoch are run
  LeaderOf,   \* LeaderOf[e]: the leader all threshold-signature shares of e give
  Correct,    \* the nodes that do not crash
  NodeZero,   \* the node whose NodeID is 0
  NO          \* the flag of a negative vote

Epochs == 0 .. MaxEpoch
Tries == {0, 1}   \* try 1 has no election, hence no FinVote that starts try 2

ASSUME MercuryAssumption ==
  /\ MaxEpoch \in Nat
  /\ LeaderOf \in [Epochs -> Node]
  /\ NodeZero \in Node
  /\ Correct \subseteq Node
  /\ NO \notin Node \cup {NONE}

VARIABLES
  Epoch,       \* Epoch[i]: the epoch i is in
  Reference,   \* Reference[e][p]: makers of the blocks of epoch e-1 that p's
               \* block of epoch e refers to, or NONE before p proposes it
  carried,     \* carried[e][p]: maker of the block p proposes in round 1, or NONE
  store,       \* store[i]: blocks in i's store
  voted,       \* voted[e][p]: nodes with a BlockHash in the instance of p
  locked,      \* locked[e][p]: nodes with LockFlag in the instance of p
  finish,      \* finish[e]: proposers that broadcast Finish
  FinishFlags, \* FinishFlags[e][i]: proposers whose Finish i handled
  done,        \* done[e][t]: nodes that broadcast Done and ElectShare of try t
  ready,       \* ready[e][t]: nodes with ReadyFlags
  elected,     \* elected[e]: nodes that combined 2f+1 shares
  leader,      \* leader[e][i]: i's Elector.leaders
  prevote,     \* prevote[e][i]: block or NO that i prevoted, or NONE
  finvote,     \* finvote[e][i]: block or NO that i finvoted first, or NONE
  action,      \* action[e][i]: what i's FinVote aggregator returned
  halts,       \* Halt messages broadcast
  HaltFlags,   \* HaltFlags[i]: epochs whose Halt i handled
  Blocks,      \* Blocks[i][e]: block that waits in i's Committor, or NONE
  log          \* log[i]: what i's Committor has output, one entry per epoch

spbVars == <<Reference, carried, store, voted, locked, finish>>
electVars == <<FinishFlags, done, ready, elected, leader>>
voteVars == <<prevote, finvote, action>>
logVars == <<Blocks, log>>
vars == <<Epoch, spbVars, electVars, voteVars, halts, HaltFlags, logVars>>

Halt == [epoch : Epochs, leader : Node, block : Node]
Entry == [block : Node, refs : SUBSET Node]

Init ==
  /\ Epoch = [i \in Node |-> 0]
  /\ Reference = [e \in Epochs |-> [p \in Node |-> IF e = 0 THEN {} ELSE NONE]]
  /\ carried = [e \in Epochs |-> [p \in Node |-> NONE]]
  /\ store = [i \in Node |-> {}]
  /\ voted = [e \in Epochs |-> [p \in Node |-> {}]]
  /\ locked = [e \in Epochs |-> [p \in Node |-> {}]]
  /\ finish = [e \in Epochs |-> {}]
  /\ FinishFlags = [e \in Epochs |-> [i \in Node |-> {}]]
  /\ done = [e \in Epochs |-> [t \in Tries |-> {}]]
  /\ ready = [e \in Epochs |-> [t \in Tries |-> {}]]
  /\ elected = [e \in Epochs |-> {}]
  /\ leader = [e \in Epochs |-> [i \in Node |-> NONE]]
  /\ prevote = [e \in Epochs |-> [i \in Node |-> NONE]]
  /\ finvote = [e \in Epochs |-> [i \in Node |-> NONE]]
  /\ action = [e \in Epochs |-> [i \in Node |-> "ACTION_NONE"]]
  /\ halts = {}
  /\ HaltFlags = [i \in Node |-> {}]
  /\ Blocks = [i \in Node |-> [e \in Epochs |-> NONE]]
  /\ log = [i \in Node |-> <<>>]

\* messgaeFilter lets a message of epoch e through.
Passes(i, e) == e >= Epoch[i]

-----------------------------------------------------------------------------
(* The Committor.                                                          *)

\* The next epoch to be output.
Index(i) == Len(log[i])

\* isCommitFlag: the blocks in out, whose k-th entry is that of epoch k-1.
IsCommitFlag(out) ==
  {<<k - 1, out[k].block>> : k \in DOMAIN out}
    \cup UNION {{k - 2} \X out[k].refs : k \in DOMAIN out}

\* Outputs every referenced block of the store.
OutputOfRepeat(i, e, b, out) ==
  [block |-> b, refs |-> {p \in Reference[e][b] : <<e - 1, p>> \in store[i]}]

\* Gives up on the references when a block is missing.
OutputOfWhole(i, e, b, out) ==
  [block |-> b,
   refs |-> IF \E p \in Reference[e][b] : <<e - 1, p>> \notin store[i] THEN {}
            ELSE {p \in Reference[e][b] : <<e - 1, p>> \notin IsCommitFlag(out)}]

\* What Commit outputs for block b of epoch e after out: the references found in
\* the store and not output before, then b itself.  The order of the references
\* is that of b.Reference.
OutputOf(i, e, b, out) ==
  [block |-> b,
   refs |-> {p \in Reference[e][b] : <<e - 1, p>> \in store[i] \ IsCommitFlag(out)}]

\* Commit of block b of epoch e: everything up to the next gap is output.
Commit(i, e, b) ==
  LET B == [Blocks[i] EXCEPT ![e] = b]
      gap == CHOOSE k \in Index(i) .. MaxEpoch + 1 :
               /\ k \in Epochs => B[k] = NONE
               /\ \A l \in Index(i) .. k - 1 : B[l] # NONE
      out[k \in Index(i) .. gap] ==
        IF k = Index(i) THEN log[i]
        ELSE Append(out[k - 1], OutputOf(i, k - 1, B[k - 1], out[k - 1]))
  IN IF e < Index(i) THEN UNCHANGED logVars
     ELSE /\ log' = [log EXCEPT ![i] = out[gap]]
          /\ Blocks' = [Blocks EXCEPT ![i] = [k \in Epochs |-> IF k < gap THEN NONE ELSE B[k]]]

-----------------------------------------------------------------------------
(* Strong provable broadcast.                                              *)

\* handleSpbProposal, phase one of round 0, which passes the filter: the block
\* is stored.
HandleSpbProposal(i, e, p) ==
  /\ Passes(i, e)
  /\ Reference[e][p] # NONE
  /\ <<e, p>> \notin store[i]
  /\ store' = [store EXCEPT ![i] = @ \cup {<<e, p>>}]
  /\ UNCHANGED <<Epoch, Reference, carried, voted, locked, finish, electVars, voteVars,
                 halts, HaltFlags, logVars>>

\* Commits a late block without looking at the leader.
HandleLateAny(i, e, p) ==
  /\ e \in HaltFlags[i]
  /\ Reference[e][p] # NONE
  /\ <<e, p>> \notin store[i]
  /\ Commit(i, e, p)
  /\ UNCHANGED <<Epoch, spbVars, electVars, voteVars, halts, HaltFlags>>

\* handleSpbProposal for an epoch that has halted here: the block is committed
\* if the leader made it, then the filter drops the message.
HandleLate(i, e, p) ==
  /\ e \in HaltFlags[i]
  /\ leader[e][i] = p
  /\ Reference[e][p] # NONE
  /\ <<e, p>> \notin store[i]
  /\ Commit(i, e, p)
  /\ UNCHANGED <<Epoch, spbVars, electVars, voteVars, halts, HaltFlags>>

\* handleSpbProposal, phase one of round 1: no leader is known for that round.
HandleCarried(i, e, p) ==
  /\ Passes(i, e)
  /\ carried[e][p] # NONE
  /\ <<e, carried[e][p]>> \notin store[i]
  /\ store' = [store EXCEPT ![i] = @ \cup {<<e, carried[e][p]>>}]
  /\ UNCHANGED <<Epoch, Reference, carried, voted, locked, finish, electVars, voteVars,
                 halts, HaltFlags, logVars>>

\* processProposal, phase one: the goroutine may run when the epoch is over.
SpbVote(i, e, p) ==
  /\ <<e, p>> \in store[i]
  /\ i \notin voted[e][p]
  /\ voted' = [voted EXCEPT ![e][p] = @ \cup {i}]
  /\ UNCHANGED <<Epoch, Reference, carried, store, locked, finish, electVars, voteVars,
                 halts, HaltFlags, logVars>>

\* processProposal, phase two, which p sent after 2f+1 votes.
SpbLock(i, e, p) ==
  /\ i \in voted[e][p] \ locked[e][p]
  /\ Cardinality(voted[e][p]) >= HightThreshold
  /\ locked' = [locked EXCEPT ![e][p] = @ \cup {i}]
  /\ UNCHANGED <<Epoch, Reference, carried, store, voted, finish, electVars, voteVars,
                 halts, HaltFlags, logVars>>

\* Announces the block after f+1 votes of phase one.
SpbFinishLow(p, e) ==
  /\ p \notin finish[e]
  /\ Cardinality(voted[e][p]) >= LowThreshold
  /\ finish' = [finish EXCEPT ![e] = @ \cup {p}]
  /\ UNCHANGED <<Epoch, Reference, carried, store, voted, locked, electVars, voteVars,
                 halts, HaltFlags, logVars>>

\* processVote at p, with the 2f+1-th vote of phase two.
SpbFinish(p, e) ==
  /\ p \notin finish[e]
  /\ Cardinality(locked[e][p]) >= HightThreshold
  /\ finish' = [finish EXCEPT ![e] = @ \cup {p}]
  /\ UNCHANGED <<Epoch, Reference, carried, store, voted, locked, electVars, voteVars,
                 halts, HaltFlags, logVars>>

-----------------------------------------------------------------------------
(* Finish, Done and the election.                                          *)

\* AddFinishVote, after the Finish messages of authors: the first one goes to
\* an aggregator that is thrown away, and completes it if one is enough; the
\* others go to the one that is kept.
AddFinishVote(authors) ==
  \/ Cardinality(authors) = 1 /\ HightThreshold = 1
  \/ Cardinality(authors) - 1 = HightThreshold

\* invokeDoneAndShare: Done, then ElectShare, are broadcast once per try.
InvokeDoneAndShare(i, e, t) == done' = [done EXCEPT ![e][t] = @ \cup {i}]

HandleFinish(i, e, p) ==
  /\ Passes(i, e)
  /\ p \in finish[e] \ FinishFlags[e][i]
  /\ FinishFlags' = [FinishFlags EXCEPT ![e][i] = @ \cup {p}]
  /\ IF AddFinishVote(FinishFlags[e][i] \cup {p})
     THEN InvokeDoneAndShare(i, e, 0)
     ELSE UNCHANGED done
  /\ UNCHANGED <<Epoch, spbVars, ready, elected, leader, voteVars, halts, HaltFlags, logVars>>

\* handleDone, DONE_LOW_FLAG.
HandleDoneLow(i, e, t) ==
  /\ Passes(i, e)
  /\ i \notin done[e][t]
  /\ Cardinality(done[e][t]) >= LowThreshold
  /\ InvokeDoneAndShare(i, e, t)
  /\ UNCHANGED <<Epoch, spbVars, FinishFlags, ready, elected, leader, voteVars,
                 halts, HaltFlags, logVars>>

\* handleDone, DONE_HIGH_FLAG: never returned when both thresholds are one.
\* The count went through f+1 before, so i has sent its own Done.
HandleDoneHigh(i, e, t) ==
  /\ Passes(i, e)
  /\ i \in done[e][t] \ ready[e][t]
  /\ LowThreshold # HightThreshold
  /\ Cardinality(done[e][t]) >= HightThreshold
  /\ ready' = [ready EXCEPT ![e][t] = @ \cup {i}]
  /\ UNCHANGED <<Epoch, spbVars, FinishFlags, done, elected, leader, voteVars,
                 halts, HaltFlags, logVars>>

\* Has nothing to say of a leader's block it is not locked on.
ProcessLeaderLocked(i, e) ==
  LET ld == LeaderOf[e] IN
  IF ld \in FinishFlags[e][i]
  THEN /\ halts' = halts \cup {[epoch |-> e, leader |-> ld, block |-> ld]}
       /\ UNCHANGED prevote
  ELSE /\ prevote' = IF i \in locked[e][ld] THEN [prevote EXCEPT ![e][i] = ld] ELSE prevote
       /\ UNCHANGED halts

\* processLeader: halt on the leader's Finish, else prevote.
ProcessLeader(i, e) ==
  LET ld == LeaderOf[e] IN
  IF ld \in FinishFlags[e][i]
  THEN /\ halts' = halts \cup {[epoch |-> e, leader |-> ld, block |-> ld]}
       /\ UNCHANGED prevote
  ELSE /\ prevote' = [prevote EXCEPT ![e][i] = IF i \in locked[e][ld] THEN ld ELSE NO]
       /\ UNCHANGED halts

\* AddShareVote returns a leader: with the 2f+1-th share, once.  It does not look
\* at the try, so the shares of try 1 are repetitions to it.
AddShareVote(i, e) ==
  /\ i \notin elected[e]
  /\ Cardinality(done[e][0]) >= HightThreshold

SetLeader(i, e, ld) == leader' = [leader EXCEPT ![e][i] = ld]

\* handleElectShare with the 2f+1-th share.  On every link the Done comes before
\* the share: the node is ready when the leader gets known, which it has to be,
\* as handleDone does not call processLeader.
HandleElectShare(i, e) ==
  /\ Passes(i, e)
  /\ AddShareVote(i, e)
  /\ i \in ready[e][0]
  /\ elected' = [elected EXCEPT ![e] = @ \cup {i}]
  /\ SetLeader(i, e, LeaderOf[e])
  /\ ProcessLeader(i, e)
  /\ UNCHANGED <<Epoch, spbVars, FinishFlags, done, ready, finvote, action,
                 HaltFlags, logVars>>

-----------------------------------------------------------------------------
(* Prevote, FinVote and what follows.                                      *)

\* handlePrevote, ACTION_YES: the first positive Prevote.
HandlePrevoteYes(i, e, j) ==
  /\ Passes(i, e)
  /\ prevote[e][j] \in Node
  /\ finvote[e][i] = NONE
  /\ finvote' = [finvote EXCEPT ![e][i] = prevote[e][j]]
  /\ UNCHANGED <<Epoch, spbVars, electVars, prevote, action, halts, HaltFlags, logVars>>

\* handlePrevote, ACTION_NO: 2f+1 negative ones.  A positive one that comes
\* later makes the node send a second FinVote, which every aggregator drops
\* because the author is known (links are FIFO).
HandlePrevoteNo(i, e) ==
  /\ Passes(i, e)
  /\ Cardinality({j \in Node : prevote[e][j] = NO}) >= HightThreshold
  /\ finvote[e][i] = NONE
  /\ finvote' = [finvote EXCEPT ![e][i] = NO]
  /\ UNCHANGED <<Epoch, spbVars, electVars, prevote, action, halts, HaltFlags, logVars>>

\* The authors of the 2f+1 FinVotes that an aggregator counts.
FinVoteQuorums(e) ==
  {Q \in SUBSET {j \in Node : finvote[e][j] # NONE} : Cardinality(Q) = HightThreshold}

FinVoteAction(e, Q) ==
  IF NO \notin {finvote[e][j] : j \in Q} THEN "ACTION_COMMIT"
  ELSE IF {finvote[e][j] : j \in Q} = {NO} THEN "ACTION_NO"
  ELSE "ACTION_YES"

\* advanceNextRound with the block b.  The zero digest (NO) and a block that
\* is not in the store make getBlock fail: nothing is proposed.
AdvanceNextRound(i, e, b) ==
  carried' = IF <<e, b>> \in store[i] THEN [carried EXCEPT ![e][i] = b] ELSE carried

\* Takes a mixed result for a unanimous one.
HandleFinvoteMixed(i, e, Q, last) ==
  /\ Passes(i, e)
  /\ action[e][i] = "ACTION_NONE"
  /\ FinVoteAction(e, Q) # "ACTION_NO"
  /\ action' = [action EXCEPT ![e][i] = "ACTION_COMMIT"]
  /\ halts' = halts \cup {[epoch |-> e, leader |-> NodeZero, block |-> finvote[e][last]]}
  /\ UNCHANGED <<Epoch, spbVars, electVars, prevote, finvote, HaltFlags, logVars>>

\* handleFinvote with the 2f+1-th FinVote, of node last.  The Halt names the
\* leader of the FinVote, which NewFinVote leaves at its zero value.
HandleFinvote(i, e, Q, last) ==
  /\ Passes(i, e)
  /\ action[e][i] = "ACTION_NONE"
  /\ action' = [action EXCEPT ![e][i] = FinVoteAction(e, Q)]
  /\ CASE FinVoteAction(e, Q) = "ACTION_COMMIT" ->
            /\ halts' = halts \cup {[epoch |-> e, leader |-> NodeZero,
                                     block |-> finvote[e][last]]}
            /\ UNCHANGED <<carried, done>>
       [] FinVoteAction(e, Q) = "ACTION_YES" ->
            AdvanceNextRound(i, e, finvote[e][last]) /\ UNCHANGED <<halts, done>>
       [] FinVoteAction(e, Q) = "ACTION_NO" ->
            InvokeDoneAndShare(i, e, 1) /\ UNCHANGED <<halts, carried>>
  /\ UNCHANGED <<Epoch, Reference, store, voted, locked, finish, FinishFlags, ready,
                 elected, leader, prevote, finvote, HaltFlags, logVars>>

-----------------------------------------------------------------------------
\* The blocks of an epoch whose Finish was handled.
GetReference(i, e) == FinishFlags[e][i]

\* advanceNextEpoch: the new block refers to blocks of the old epoch.
AdvanceNextEpoch(i, e) ==
  /\ Epoch' = [Epoch EXCEPT ![i] = e + 1]
  /\ Reference' = IF e < MaxEpoch
                  THEN [Reference EXCEPT ![e + 1][i] = GetReference(i, e)]
                  ELSE Reference

\* handleHalt: the leader is overwritten; without the block handleOutput fails,
\* which is ignored: the node goes on, and the block may be committed late.
HandleHalt(i, h) ==
  /\ Passes(i, h.epoch)
  /\ SetLeader(i, h.epoch, h.leader)
  /\ IF <<h.epoch, h.block>> \in store[i]
     THEN Commit(i, h.epoch, h.block)
     ELSE UNCHANGED logVars
  /\ HaltFlags' = [HaltFlags EXCEPT ![i] = @ \cup {h.epoch}]
  /\ AdvanceNextEpoch(i, h.epoch)
  /\ UNCHANGED <<carried, store, voted, locked, finish, FinishFlags, done, ready, elected,
                 voteVars, halts>>

-----------------------------------------------------------------------------
SpbStep(i) ==
  \E e \in Epochs :
    \/ SpbFinish(i, e)
    \/ \E p \in Node :
         \/ HandleSpbProposal(i, e, p)
         \/ HandleLate(i, e, p)
         \/ HandleCarried(i, e, p)
         \/ SpbVote(i, e, p)
         \/ SpbLock(i, e, p)

ElectStep(i) ==
  \E e \in Epochs :
    \/ \E p \in Node : HandleFinish(i, e, p)
    \/ \E t \in Tries : HandleDoneLow(i, e, t) \/ HandleDoneHigh(i, e, t)
    \/ HandleElectShare(i, e)

VoteStep(i) ==
  \E e \in Epochs :
    \/ \E j \in Node : HandlePrevoteYes(i, e, j)
    \/ HandlePrevoteNo(i, e)
    \/ \E Q \in FinVoteQuorums(e) : \E last \in Q : HandleFinvote(i, e, Q, last)

HaltStep(i) == \E h \in halts : HandleHalt(i, h)

Next == \E i \in Correct : SpbStep(i) \/ ElectStep(i) \/ VoteStep(i) \/ HaltStep(i)

Spec == Init /\ [][Next]_vars

\* Links between correct nodes are reliable and a core that has a message to
\* handle is scheduled.  Nothing is asked of the broadcasts: a message that an
\* instance parks too late is never looked at (module SPB).
Fairness ==
  \A i \in Correct : WF_vars(ElectStep(i) \/ VoteStep(i) \/ HaltStep(i))

FairSpec == Spec /\ Fairness

-----------------------------------------------------------------------------
\* The shape of the core's maps; a Halt always names a block, never the zero
\* digest of a negative FinVote.
TypeOK ==
  /\ Epoch \in [Node -> 0 .. MaxEpoch + 1]
  /\ Reference \in [Epochs -> [Node -> (SUBSET Node) \cup {NONE}]]
  /\ carried \in [Epochs -> [Node -> Node \cup {NONE}]]
  /\ store \in [Node -> SUBSET (Epochs \X Node)]
  /\ voted \in [Epochs -> [Node -> SUBSET Node]]
  /\ locked \in [Epochs -> [Node -> SUBSET Node]]
  /\ finish \in [Epochs -> SUBSET Node]
  /\ FinishFlags \in [Epochs -> [Node -> SUBSET Node]]
  /\ done \in [Epochs -> [Tries -> SUBSET Node]]
  /\ ready \in [Epochs -> [Tries -> SUBSET Node]]
  /\ elected \in [Epochs -> SUBSET Node]
  /\ leader \in [Epochs -> [Node -> Node \cup {NONE}]]
  /\ prevote \in [Epochs -> [Node -> Node \cup {NO, NONE}]]
  /\ finvote \in [Epochs -> [Node -> Node \cup {NO, NONE}]]
  /\ action \in [Epochs -> [Node -> {"ACTION_NONE", "ACTION_YES", "ACTION_NO", "ACTION_COMMIT"}]]
  /\ halts \subseteq Halt
  /\ HaltFlags \in [Node -> SUBSET Epochs]
  /\ Blocks \in [Node -> [Epochs -> Node \cup {NONE}]]
  /\ \A i \in Node : \A k \in DOMAIN log[i] : log[i][k] \in Entry

\* Two nodes that output an epoch output it with the same block, also if the
\* block came after the Halt.  The exception is an epoch that some node halted
\* on FinVotes: its Halt names the wrong leader, and a node that has not got the
\* block yet waits for one of node 0 (handleSpbProposal, handleHalt).
Agreement ==
  \A i, j \in Node : \A k \in DOMAIN log[i] \cap DOMAIN log[j] :
    \/ log[i][k].block = log[j][k].block
    \/ \E h \in halts : h.epoch = k - 1 /\ h.leader # LeaderOf[k - 1]

\* Where two nodes agree on the block of an epoch, they output the same
\* referenced blocks with it, except those that one of them never stored
\* because it had left the epoch before they came: Commit skips them silently.
LogsAgree ==
  \A i, j \in Node : \A k \in DOMAIN log[i] \cap DOMAIN log[j] :
    log[i][k].block = log[j][k].block =>
      \A p \in log[i][k].refs \ log[j][k].refs :
        <<k - 2, p>> \notin store[j] \/ log[j][k - 1].block = p

\* No block is output twice: a block that was output as its epoch's own is
\* skipped where the next epoch's block refers to it, also when a gap is closed
\* and both epochs are output by one Commit.
OutputOnce ==
  \A i \in Node : \A k \in DOMAIN log[i] :
    k > 1 => log[i][k - 1].block \notin log[i][k].refs

\* What a proposal refers to is in the stores of 2f+1 nodes, so at most f correct
\* ones have to skip it.
ReferenceIsAvailable ==
  \A e \in Epochs \ {0}, p \in Node :
    Reference[e][p] # NONE =>
      \A q \in Reference[e][p] : {i \in Node : <<e - 1, q>> \in store[i]} \in Quorums

\* When all correct nodes have reached the last epoch and the Finishes of 2f+2
\* proposers are out in it, as many as AddFinishVote takes, they all leave it as
\* well, unless somewhere 2f+1 FinVotes were not unanimously positive: no later
\* round or try comes to an end.
EpochEnds ==
  (/\ \A i \in Correct : Epoch[i] >= MaxEpoch
   /\ Cardinality(finish[MaxEpoch]) > HightThreshold)
  ~> \/ \A i \in Correct : Epoch[i] > MaxEpoch
     \/ \E i \in Correct : action[MaxEpoch][i] \in {"ACTION_YES", "ACTION_NO"}

=============================================================================
