# A TLA+ development for BFT-MVBA

The repository implements four asynchronous multi-valued Byzantine agreement
protocols (CKPS01 "mvba", SMVBA, VABA, Mercury) over one transport, store and
transaction pool. All four are modelled. `SMVBA` is the default protocol
(`core/config.go`) and goes deepest: its broadcast down to the critical sections,
an epoch over its rounds, and the sequence of epochs.

The code contains no Byzantine behaviour: every message is one that a handler
made. What the models range over is asynchrony (goroutines and messages in any
order), crashes (a node that takes no more steps) and loss (a message nobody
handles).

## 1. Inventory

| Component | State | Operations | Interacts with |
|---|---|---|---|
| Committee (`core/config.go`) | authorities | `Size`, `LowThreshold`, `HightThreshold` | every aggregator |
| Transmitor, network | `recvCh`, `msgCh`, one queue per connection | `Send`, `RecvChannel`, connect, read | every core |
| Store, pool, crypto | key-value store; `batchChannel`, `bcnt`; keys | `Read`/`Write`; `GetBatch`/`PutBatch`; sign, combine | every core |
| SMVBA SPB (`spb.go`) | `BlockHash`, `LockFlag`, two vote counters, two lists of unhandled messages | `processProposal`, `processVote`, in goroutines | SMVBA core |
| SMVBA core (`core.go`, `aggreator.go`, `elector.go`) | flags per epoch and round, aggregators, leaders | `handleSpbProposal` ... `handleHalt` | SPB, Committor, pool, store |
| SMVBA Committor (`commitor.go`) | `Index`, `Blocks` | `Commit` | SMVBA core |
| MVBA CBC (`cbc.go`) | content, two counters, two lists of unhandled messages | `ProcessProposal`, `ProcessCommitment`, `ProcessReady`, `ProcessFinal` | MVBA core |
| MVBA ABA (`aba.go`) | counters and flags per in-round | `ProcessABAVal`, `ProcessABAMux`, `ProcessCoin`, `ProcessHalt` | MVBA core, coin aggregator |
| MVBA core | finals, commitments, votes, leaders | `processCBCBack`, `handleVote`, `invokeStageTwo`, `processABABack`, `handleOutput` | CBC, ABA, elector, Committor |
| VABA (`promote.go`, `core.go`) | promote stages, done/skip/view-change counters | `processProposal`, `handleDone`, `handleSkip`, `handleViewChange`, `handleHalt` | transport, Committor |
| Mercury | SPB per round, references, flags per try, Committor over references | as SMVBA, with tries | transport, store, Committor |
| Node, config, logger, main, benchmark | files, keys, logs | start-up | all |

What is hard in this code: every message of SPB, CBC, ABA and Promote is handled
by a goroutine of its own while the core loop goes on; messages that come early
are put on lists that another goroutine empties; the first 2f+1 messages decide,
and every node sees different ones; Halt messages carry a node across epochs.
`PROJECT.json` lists each such place, with its line, under `hazards`.

What makes the components correct:

* Committee: two quorums meet, and for 3f+1 nodes in more than f nodes.
* SPB: a lock is backed by 2f+1 stored blocks and a Finish by 2f+1 locks,
  whatever the goroutines do; a broadcast of a live proposer finishes.
* SMVBA core: agreement within an epoch, availability of what is committed, the
  committed block is the only one carried on, every correct node halts once
  enough broadcasts are over.
* Epochs: all nodes output the same sequence, without gaps, no batch twice.
* CBC: the core is notified once, only about content it has, and eventually.
* ABA: no conflicting flags, all halts with one flag, validity, progress.
* MVBA core: what is output is available, the shuffle of leaders is not used up,
  no batch is output twice, every epoch with enough finished broadcasts ends.
* VABA: what is committed was locked by a quorum, no block but the leader's is
  output in an epoch, a committed block is not output as empty where all nodes
  gather the same ViewChanges, every epoch with enough Dones ends.
* Mercury: all nodes output the same blocks with the same references, each once,
  and what a block refers to is available.

## 2. Plan

Done: `Committee`; `SPB` and `CBC` with their abstract specification
`ProvableBroadcast`; `ABA`, `MVBA` and `SMVBA` with theirs, `Consensus`;
`SMVBAEpochs`; `VABA`; `Mercury`.

Every safety property and every refinement of a passing run is a theorem, some
under a condition (section 5). Open: a run for the schedule in which five nodes
of `SMVBA` disagree (section 4).

## 3. Modules

| Module | Models |
|---|---|
| `Committee` | the committee and its thresholds |
| `ProvableBroadcast` | abstract: who holds a block, who is locked, whether it finished |
| `Consensus` | abstract: the values with enough support, the one chosen, who has output it |
| `SPB` | `smvba/consensus/spb.go`, one instance at all nodes |
| `SMVBA` | `smvba/consensus/core.go` with aggregators and elector, one epoch |
| `SMVBAEpochs` | epoch change, `messgaeFilter`, Committor, late commit, batches |
| `CBC` | `mvba/consensus/cbc.go`, one instance at all nodes |
| `ABA` | `mvba/consensus/aba.go`, one instance, with the parts of `core.go` that drive it |
| `MVBA` | `mvba/consensus/core.go` with elector, vote aggregator and Commitor, over epochs |
| `VABA` | `vaba/consensus`: Promote, skip, view change, Halt, Committor, batches, over epochs |
| `Mercury` | `mercury/consensus`: broadcasts, election, votes, Halt, references, Committor, over epochs |
| `CommitteeProofs`, `BroadcastProofs` (`SPB` and `CBC`), `SMVBAProofs`, `EpochsProofs`, `ABAProofs`, `MVBAProofs`, `VABAProofs`, `MercuryProofs` | theorems |
| `MCSPB`, `MCSMVBA`, `MCEpochs`, `MCCBC`, `MCABA`, `MCMVBA`, `MCVABA`, `MCMercury` | instances for TLC |

**Granularity.** In `SPB` and `CBC` a step is a critical section of the code: an
atomic load or store, a section under a mutex. A goroutine that finds the block
missing is `checked` until it appends its message to the list (`parked`); the
window between the two is where messages are lost. In the other modules a step
is the handler that reaches a threshold: handlers that only add to an aggregator
or a counter have no other effect, so the step is enabled when enough messages
were sent, and a stale count is a step taken with fewer messages. The core of a
node is one loop, so its handlers do not interleave. One handler is split all the
same: `invokeViewChange` of VABA reads the hash and the flags of a Promote one
after the other while goroutines change them, so `HandleElectShare` reads the
hash and `SendViewChange` the flags (`Idle` keeps the loop from doing anything
else in between).

**Composition.** Two abstract specifications stand between the layers.

* `ProvableBroadcast`: a node is locked only after a quorum, itself among it,
  holds the block. `SPB` implements it, and `CBC` its first phase, where being
  notified is the lock and nothing finishes (`ImplementsBroadcast` of both).
  `SMVBA` and `Mercury` contain its steps for every round and proposer (`SpbVote`,
  `SpbLock`, `SpbFinish`; the `spb.go` of Mercury is that of SMVBA), and `MVBA` those of
  `CBC` (`HandleProposal`, `ProcessDataBack`).
* `Consensus`: one supported value is chosen for good, and every output is that
  value. `ABA` implements it, with the flags that f+1 nodes put in as the supported
  values; `DecideABA` of `MVBA` is its choice. Above it, `MVBA` takes its steps again
  in every epoch, now with blocks that 2f+1 nodes have (`ConsensusSteps`): a
  sequence of binary agreements makes one multi-valued one. `SMVBA` implements it
  for one epoch, and `SMVBAEpochs` takes the value chosen as its parameter `Decision`.

The steps of the lower layer that `MVBA`, `SMVBA` and `Mercury` contain are written out
in these modules, not instantiated.

**Where to look.** `VABA`: `stage[e][i]` is how far node i voted in the Promote of
the epoch's leader (1 sets the hash, 2 the key, 3 the lock, 4 the commit flag);
other Promotes appear as a Done, because nothing else of them is read.
`CommitAndAdvance` is the common part of `handleViewChange` and `handleHalt`.
`MVBA`: `has`, `backs`, `com` and `comBacks` are the two CBCs of each node;
`RefuseVote` is `checkVote`; `Misdirected` names a node that started stage two in
another epoch because `handleElectShare` passes `c.Epoch`. `invokeStageTwo` without
a leader (`Leader` -1) panics as soon as anything has come back in the epoch, since it
then indexes a commitment with NONE; before that its vote is `LOST`: it names
no leader, so nobody counts it. A node may also handle an ABAHalt of a round
whose leader it does not have (`HaltLeaders`), and outputs then for NONE; with four
nodes this is not reached, the theorems cover it. `HandleProposal` is the core's
handler and the CBC goroutine it starts in one step: a goroutine that is still
to store its block when its node has left the epoch is not followed. `Mercury`:
`Reference` is what a block refers to, `log` what the Committor has output, one
entry per epoch; `HandleLate` commits a block without storing it, as the code
does, since the filter stands between the two.

**Data.** A block is named by the node that made it (a node makes one block in
an epoch: the second call of `generatorBlock` in `advanceNextRound` waits for
`store.ErrNotFoundKey`, which the store never returns). A batch is a number.
Signatures are absent; a threshold-signature coin is a constant all nodes share.
A vote or share is the set of its authors.

**Over-approximations.** Goroutines of a broadcast may run after their node has
halted. Any message order is allowed (`Fifo = FALSE`); a lost message is one
never handled. A broadcast of a crashed proposer may go on as far as the votes
counted allow, as its messages may have been sent before; they may also reach
some nodes and not others. A Done of VABA by a node that is not the leader comes
whenever it likes, without the votes of its four phases.

## 4. Runs

Passing runs:

| Run | Instance | Checks |
|---|---|---|
| `spb` | 4 nodes, 1 crashed | `FinishIsLocked`, `ImplementsBroadcast`, `FinishOrStranded` |
| `smvba` | 4 nodes, 1 crashed before or after its Finish, one round | `TypeOK`, `Agreement`, `HaltIsAvailable`, `DoneIsBacked`, `AllHalt`, `ImplementsConsensus` |
| `smvba_next` | 5 nodes, 1 crashed, two rounds | `CommitExcludesNo`, `CommitIsCarried` |
| `epochs` | 2 nodes, 2 epochs | `TypeOK`, `LogIsDecided`, `NothingPastAGap`, `BatchOutputOnce` |
| `cbc` | 4 nodes, 1 crashed | `TypeOK`, `ImplementsBroadcast`, `BackOrStranded` |
| `aba_live` | 4 nodes, 1 crashed; any inputs for 1 in-round, NO inputs with YES coins for 2 | `TypeOK`, `Validity`, `RoundEnds`, `ImplementsConsensus` |
| `aba_mixed` | 4 nodes, 2 YES inputs, coins NO and YES, 2 in-rounds | `FlagsAgree`, `HaltsAgree` |
| `mvba` | 4 nodes, 1 crashed, 2 epochs, 2 leaders | `TypeOK`, `LeaderIsFound`, `BatchIsOutputOnce`, `EpochEnds`, `ConsensusSteps` |
| `vaba` | 4 nodes, 1 crashed, 2 epochs | `TypeOK`, `CommitIsLocked`, `OutputIsLeaders`, `CommitIsOutput`, `EpochEnds` |
| `mercury` | 5 nodes, 2 crashed, 2 epochs | `TypeOK`, `Agreement`, `LogsAgree`, `OutputOnce`, `ReferenceIsAvailable`, `EpochEnds` |

`LockIsBacked` of `SPB`, `BackIsBacked` of `CBC` and `OutputIsAvailable` of `MVBA` say what
these refinements guard step by step; they are theorems (section 5) and have no
run of their own.

Runs that show where the code departs from what it says:

* `smvba_late` (`Agreement`): 4 correct nodes, FIFO links. `handleHalt` says
  "//Check leader" and checks nothing. The FinVote does not carry the leader
  (`NewFinVote` leaves it out), so a Halt made from FinVotes names node 0. A node
  whose link from the elected leader is slow handles that Halt before the
  block: the leader is overwritten with 0, the output fails, and when its own
  2f+1 Dones are in, it halts on node 0's Finish and commits node 0's block. The
  others have committed the elected leader's.
* `vaba_split` (`Agreement`): 4 correct nodes. A node that handles 2f+1
  ViewChanges without a commit outputs an empty block ("//may be commit",
  "//2f+1?"), while another handles the one ViewChange whose sender had set the
  commit flag in time, and outputs the leader's block.

What the passing properties say about weak places, where the property has an
exception or a condition for what the code does:

* `DoneIsBacked`: a Done has 2f+1 Finishes behind it, which is what `handleFinish`
  waits for. `AddFinishVote` in fact counts the first Finish in an aggregator that
  it throws away, so 2f+2 are needed, all 4 of 4 nodes (a single one where
  HightThreshold is 1, since the first Finish is then enough). No property states
  this as a promise. `AllHalt`, and `EpochEnds` of Mercury, which has the same lines,
  have the 2f+2 Finishes on their left side: with 4 nodes one crash before Finish
  stops the epoch, and nothing is claimed of it.
* `NothingPastAGap`: a Halt of a later epoch moves a node past an epoch it has not
  committed, and its Committor waits there for ever. The late commit that is
  meant to "ensure all block is received" needs the epoch in `HaltFlags`, where a
  skipped one is not.
* `Validity` needs 3f+1 nodes. With 5 nodes the n - 2f - 1 = 2 nodes that get the
  coin before their ABAMuxes are f+1, and their adopted value makes the others
  join in: TLC finds a decision for YES with only NO inputs in 13 steps.
* `EpochEnds` of `MVBA` excepts an epoch in which f+1 nodes refused a vote (a
  commitment that names the leader, although its author voted NO: the slice grew
  after the vote), in which a node cast its first vote in another epoch, or in
  which a node panicked by indexing a commitment with NONE. It shows that
  nothing else stops an epoch, not that these do no harm.
* `BatchIsOutputOnce` of `MVBA`: the batch of an accepted block is proposed in no
  later epoch, although `handleOutput` puts batches back into the pool and the
  ABABacks of two epochs may come in either order. A block that comes late, when
  its node has left the epoch, is dropped by `messageFilter`, so the commit in
  `handleProposal` that is meant for it never happens and the node's Commitor
  waits at that epoch.
* `EpochEnds` of `VABA` excepts a node that stopped on a ViewChange with a commit
  flag and a nil hash. A node that entered an epoch without a proposal, because
  the block it was to carry is not in its store, has no Done in it; the
  property then needs 2f+1 others or a Skip.
* `CommitIsOutput` of `VABA` is about epochs in which all gather the same 2f+1
  ViewChanges; `vaba_split` is the case where they do not. Full agreement is not
  to be had even then. A node that left an epoch without its block has a gap
  there, and an epoch that ended empty may wait behind it. The leader's block of
  that epoch, when it comes, is put over the empty one (`handleProposal` calls
  `Commit` for any block of a commit-flagged epoch), and is output when the gap
  closes; the others have output nothing for it. `OutputIsLeaders` is what
  remains: nobody outputs a block other than the leader's. (The links of
  `VABA` are not FIFO; with FIFO links the schedule needs more than four nodes.)
* `Agreement` of `SMVBA` does not hold over two rounds with five nodes, even with
  FIFO links and blocks before Halts. Four of the five finish without the slow
  leader L, three of them are not locked on its block and vote it down, and the
  four take their own blocks to round 1. L's broadcast goes on: messages are
  filtered by epoch only (`smvba/consensus/core.go:170`), so the others still
  vote and lock in round 0, L gets its Finish, elects itself, and halts on its
  own block. The others finish round 1 and halt on another. `SMVBAAgreement`
  and `SMVBAAgreementOrNo` (section 5) say where this cannot happen: with four
  nodes, whose Done waits for every Finish, or as long as nobody gets 2f+1
  negative FinVotes. No run shows it, as it takes 137 steps; the
  behaviour was confirmed by following its steps one by one.
* `Agreement` of `Mercury` excepts an epoch with a Halt made from FinVotes, which
  names node 0 as in SMVBA: a node without the block then commits node 0's block
  when it comes late. `LogsAgree` excepts references to blocks that a
  node dropped because it had left their epoch; other nodes output them. Neither
  property says anything about those epochs and references.
* `EpochEnds` of `Mercury` excepts mixed or negative FinVotes: round 1 proposes
  blocks of others, which get no votes, and a second try repeats the shares of the
  first, which the Elector ignores. What becomes of such an epoch is not checked.

**Bounds and why they are enough.** Four nodes are the smallest committee with
f = 1; five is the smallest where the thrown-away Finish leaves room for a node
without one (4 of 5), and so where negative votes are reachable.

* `MCSMVBA` starts in the middle of round 0 (`MidwayInit`, `CrashInit`), in
  reachable states: the broadcasts of `Settled` are over, the others are not, and
  the crashed nodes crashed after locking, or n0 before its Finish. A node is
  locked there only on a block for which 2f+1 nodes voted. That keeps
  the races among the leader's broadcast, Finish, Done, election, votes and Halt,
  and leaves out the interleaving of broadcasts that module `SPB` covers.
  `smvba_next` bounds the search with `VotesOnly`: round-1 broadcasts are
  proposed and not run, no Halt is handled and the round-0 leader gets no Finish.
* `epochs` uses two nodes, where one stored block is a quorum and a Halt can go
  out at the earliest. Its four properties are theorems for every committee.
* `aba_mixed` starts once all ABAVals are in (`MixedInit`, reachable with f+1 YES
  inputs). `HaltedBefore` runs in-round 1 only after an ABAHalt of in-round 0, stops
  at the first coin of in-round 1, and leaves out the handling of ABAHalt, after
  which an instance does less. `aba_live` runs
  in-round 1 only for NO inputs and YES coins, the case where a coin could be
  decided that nobody put in.
* `MCMVBA` checks the steps of `Consensus` and not its initial state, as it starts
  in the middle; `MVBAConsensusSteps` proves both from `Init`. It starts in epoch 1
  with three states before the election, which differ in who misses the block of
  a leader and whose commitment is slow, with one where nothing has come back to
  n1 while the others have voted the first leader down, and with two where n1 is
  still in epoch 0. Of these last two, n1 casts a `LOST` vote where nothing of
  epoch 0 has come back to it, and panics where everything has. `LagBound` stops
  the behaviours of the last three states when more of epoch 0 or of the blocks
  of epoch 1 comes back to n1, or its block of epoch 1 is handled: liveness of
  these is checked only up to there.
* `MCVABA` starts in epoch 0 with two phases voted and the Done of the crashed n4
  sent, or in epoch 1 after a commit,
  after an empty epoch, after one that left n3 without a proposal, and with n3 at
  a gap: it left epoch 0 on a Halt without the block, and epoch 1 ends, empty or
  with a commit, before the block comes.
  `OneEpoch` ends the first at the messages of epoch 1, so that `EpochEnds` of epoch 1
  is checked from the others.
* `MCMercury` starts in the votes of epoch 1, at the Halt of epoch 0, and with n3
  two epochs behind. `NextEpochBound` and `LagBound` keep the second and third to
  Halts and blocks, so `EpochEnds`, which is about epoch 1, is checked from the first.

In all three the messages of crashed nodes that the initial state contains were
sent before they crashed. `MaxRound`, `MaxIn` and `MaxEpoch` bound rounds,
in-rounds and epochs.

**Network assumptions.** `Fifo`: nothing of a node overtakes its block, the first
thing it sends in an epoch over its one connection. `Prompt`: a block arrives
before any Halt that names it; `smvba_late` shows that agreement needs it.
Agreement of `SMVBA` is checked and proved with `Prompt` only. `MVBA` and `VABA` assume
neither. `Mercury` uses FIFO links in two places: Done comes before ElectShare,
and of two FinVotes of a node the first comes first.

**Fairness.** Weak fairness of the steps of each node that does not crash, where
the code has nothing that can stop them: the Go scheduler runs every runnable
goroutine, and a connection between two live nodes delivers what was written. In
`SPB`, `CBC` and `ABA` these are all steps of a correct node. `FinishOrStranded` and
`BackOrStranded` have an escape for a message appended after the lists were
emptied, and `RoundEnds` for a node whose ABAVal counter grows after its last
ABAMux: both are reachable, and the code has nothing that recovers.

A broadcast can therefore stay unfinished for good though nobody crashed, and the
modules above do not assume otherwise. There only the handlers of the core are
fair, and the liveness properties begin where the broadcasts are over:

| Property | Fair | On the left side, not promised |
|---|---|---|
| `AllHalt` of `SMVBA` | `HandleSpbProposal`, `ElectStep`, `VoteStep`, `HaltStep` | the Finishes of 2f+2 proposers |
| `EpochEnds` of `MVBA` | `CoreStep`: ElectShares, votes, ABAHalts | 2f+1 ElectShares of correct nodes (so 2f+1 commitments came back to each), and `ABAsHalt` |
| `EpochEnds` of `VABA` | `CoreStep`: Done, Skip, election, ViewChange, Halt | 2f+1 Dones of correct nodes, or one Skip of a correct node |
| `EpochEnds` of `Mercury` | `ElectStep`, `VoteStep`, `HaltStep` | the Finishes of 2f+2 proposers |

`ABAsHalt` says that an ABA into which f+1 correct nodes put the same flag halts.
`RoundEnds` and a coin that matches with probability 1/2 in each in-round make it
likely; the starved node that `RoundEnds` excepts shows that it is an assumption.
Deadlock is not checked: an epoch that ended, and a bounded number of rounds,
stop.

## 5. Proofs

Checked by TLAPS for every committee, every coin and every bound:

| Theorem | Statement | Given |
|---|---|---|
| `QuorumsOverlap` | two quorums share at least LowThreshold nodes | Size = 3f+1 |
| `SPBTypeOK`, `SPBLockIsBacked`, `SPBFinishIsLocked` | the invariants of `SPB` | |
| `SPBImplementsBroadcast` | `SPB` implements `ProvableBroadcast` | |
| `CBCTypeOK`, `CBCBackIsBacked` | the invariants of `CBC` | |
| `CBCImplementsBroadcast` | `CBC` implements the first phase of `ProvableBroadcast` | |
| `SMVBATypeOK`, `SMVBAHaltIsAvailable`, `SMVBADoneIsBacked` | the invariants of `SMVBA`, from `Init` | |
| `SMVBACommitExcludesNo` | no node commits where another gets only negative FinVotes | quorums meet |
| `SMVBACommitIsCarried` | the next round has no proposal but the committed block | quorums meet, `Prompt` |
| `SMVBAAgreement` | nodes that halt commit the same block | `Prompt`, and one round or four nodes |
| `SMVBAImplementsConsensus` | `SMVBA` implements `Consensus` | as `SMVBAAgreement` |
| `SMVBAAgreementOrNo` | the same, or some node got 2f+1 negative FinVotes | `Prompt` |
| `EpochsTypeOK`, `EpochsLogIsDecided`, `EpochsNothingPastAGap`, `EpochsBatchOutputOnce` | the invariants of `SMVBAEpochs`, for any sequence of decisions | |
| `ABATypeOK` | the type invariant of `ABA` | |
| `ABAFlagsAgree` | no conflicting flags in an in-round | quorums meet |
| `ABAHaltsAgree`, `ABAValidity` | one flag in all ABAHalts, which f+1 nodes put in | Size = 3f+1 |
| `ABAImplementsConsensus` | `ABA` implements `Consensus` | Size = 3f+1 |
| `MVBATypeOK`, `MVBAOutputIsAvailable`, `MVBALeaderIsFound`, `MVBABatchIsOutputOnce` | the invariants of `MVBA` over all epochs | Size = 3f+1 |
| `MVBAConsensusSteps` | every epoch of `MVBA` starts and steps as `Consensus` | Size = 3f+1 |
| `VABATypeOK`, `VABACommitIsLocked`, `VABAOutputIsLeaders`, `VABACommitIsOutput` | the invariants of `VABA` over all epochs | |
| `MercuryTypeOK`, `MercuryReferenceIsAvailable`, `MercuryAgreement`, `MercuryLogsAgree`, `MercuryOutputOnce` | the invariants of `Mercury` over all epochs | |

Assumptions: the committee is finite and not empty (`CommitteeAssumption`), the
constants have their types, leaders of an epoch are distinct and `NONE` is no
node and no flag (`MVBAAssumption`). `MVBAAssumption` also asks for 3f+1 nodes, since
`DecideABA` takes the validity of the ABA, which `ABAValidity` proves there and which
fails with five (section 4). "Quorums meet" is 2 * HightThreshold > Size,
which fails only for committees of 2, 3 and 6 nodes. "Four nodes" is
Size <= HightThreshold + 1 together with it.

The invariants are not inductive alone.

**SPB and CBC.** One adds that the counters count the handled votes, that a vote
comes from a node that stored or locked, and that phase two goes out after the
2f+1-th vote; the refinement then maps each critical section to a step of
`ProvableBroadcast` or to none. In `CBC`: the counters count, and a Ready comes
from a node that drained its lists. A Final therefore has 2f+1 Readies behind it
(`CountedReadies`), and the one step that counts it is the lock. `BroadcastProofs` extends `SPB` and has `CBC`
as the instance `C`.

**SMVBA.** A vote is for a stored block, a lock has a quorum of votes, a Finish a
lock, a positive Prevote or FinVote a block that a quorum stores, and
ACTION_COMMIT and ACTION_NO each have a quorum of FinVotes; two such quorums
meet, in a node with one FinVote. For `DoneIsBacked`: a handled Finish was sent,
`AddFinishVote` does not succeed with fewer than 2f+1 of them, and a Done on f+1
Dones rests on one that was there before.

Agreement needs `AInv`. With `Prompt` a node that has not halted has no leader but
the coin's (`LeaderInv`), so positive votes, Halts and outputs all name the
coin's block of their round, and that block is locked (`NameInv`): within a
round nothing else can be output. A node enters the next round with the coin's
block or after 2f+1 negative FinVotes (`CarryInv`). If nobody takes the second
way, every proposal of a later round is the block of round 0's leader; as a
node gets votes only for a block of its own, only that leader finishes, too
few for a Done, and no later round halts (`AgreementOrNo`). With four nodes a Done
takes the Finish of all of them, so 2f+1 nodes were locked on the coin's block
before anybody voted (`StartInv`), and none of these votes NO; 2f+1 negative
Prevotes would have to meet them (`NegativeInv`). `SMVBAAgreement` for four nodes
follows.

For the refinement (`SMVBAImplementsConsensus`) agreement has to hold of the Halts
and not only of the nodes that handled one: all Halts name one block
(`HaltsNameOneBlock`). The first Halt is then the choice, `HaltIsAvailable` its
support, and `HandleHalt` the output; votes and stores only add support
(`StepShape` lists which steps touch what the abstract state shows).

**SMVBAEpochs.** `EInv`. A node halts only epochs that are not below the one it is
in, so an epoch it has skipped stays a gap; the Committor has output just the
epochs below the first that is not halted, and every block that waits lies
behind that gap (`GapInv`). A late proposal may put a wrong block into the
Committor, but only for a halted epoch behind the gap, where it is never
output. A halted epoch has its block in the store (`StoreInv`). A batch that waits in the
queue is neither decided nor in the current block, and one that was proposed
again lost the epoch before (`BatchInv`). TLC checks `EInv` on the instance of `epochs`.

**ABA.** A flag that stands alone was in the ABAMux of a quorum. For `HaltsAgree`
and `Validity` the invariant (`AInv`) follows a flag back over the in-rounds. A
flag is `Grounded` in an in-round if f+1 nodes put it in and every in-round
before had it as its coin or as somebody's only flag; every ABAVal that f+1
nodes sent, every ABAMux and every set flag is grounded. The first coin of an
in-round finds 2f+1 nodes with flags, so at most f take the coin for want of
flags, and f are too few to make anybody join in. After an ABAHalt for a flag,
every later in-round therefore has no other flag. TLC checks `AInv` on the
instances of `aba_live` and `aba_mixed`. With `HaltsAgree` and `Validity` the first
ABAHalt is the choice of `Consensus` and `ProcessHalt` the output.

**MVBA.** A YES, as a vote, an input or a decision, goes back to a CBC that came
back; a round has votes only if all rounds before ended with NO (a `LOST` vote
counts as none), so an epoch has one YES.

For `BatchIsOutputOnce` (`BatchInv`): the queue of a node holds different batches
among those it has made (`Distinct`). The batch of one of its blocks is not in the
queue (`Apart`) and in no later block, unless the block is `Gone`: its epoch accepted
another node's, and the node has processed that output. An accepted block is
never gone, since by `ChoiceInv` an epoch accepts one leader.

For `MVBAConsensusSteps` (`ChoiceInv`): the block and the leader that a Commitor has
of an epoch are the same, and none or the leader accepted (`Winner`). So a late
proposal commits nothing new, an ABA that halts with YES makes the choice, since
no other round of the epoch did, and `HandleOutput` outputs it.

For `LeaderIsFound` (`RInv`): before the first vote of an epoch 2f+1 nodes had 2f+1
blocks back, and a node votes NO only on a leader whose block had not come
back to it. So 2f+1 nodes keep 2f+1 blocks each of leaders they never vote NO on
(`FreezeInv`), and a NO decision has 2f+1 NO votes behind it (`NoInv`). Each rejected
leader is thus missed by at least 2 * HightThreshold - Size of the 2f+1 nodes, and
each node misses at most Size - HightThreshold leaders. Counting the pairs both
ways gives the bound.

**VABA.** Phase k of a Promote needs a quorum that voted in phase k - 1, and a
ViewChange or a Halt says commit only with a node in phase 4. For the outputs
(`OInv`): a node proposes once per epoch, and a proposal it did not make for that
epoch is what the leader of the block's own epoch proposed there (`OriginInv`),
so a carried block cannot enter a slot as another's; a slot of a Committor
holds the leader's block, or is empty with 2f+1 ViewChanges that do not say
commit (`SlotInv`); a Halt has a ViewChange that says commit (`HaltInv`). Both
together take more than 2f+1 senders, which `CommitIsOutput` rules out.

**Mercury.** Votes, locks and Finishes as in `SMVBA` for each epoch, a handled Finish
was sent, and references are handled Finishes of the epoch before. For the logs
(`OInv`): ballots and Halts are about the elected block (`BallotInv`); a node's leader
of a halted epoch is one that a Halt named (`HaltedInv`); a block is proposed once,
before anybody has it, so what it refers to does not change (`OnceInv`); and
each entry that waits or was output is the elected block unless some Halt of
its epoch named another leader, with the references that the store and the
entry before determine (`WaitInv`, `LogInv`).

**Only model-checked.** `FinishOrStranded`, `AllHalt`, `BackOrStranded`, `RoundEnds` and
the three `EpochEnds` are liveness under weak fairness, which the prover does not
reason about. `smvba_late` and `vaba_split` are counterexamples. Agreement of
`SMVBA` over several rounds beyond four nodes is not an open proof: it does not
hold (section 4).

## 6. Not modelled

* The bounded channels: `recvCh` and `msgCh` of 1000 messages and `batchChannel`
  of 1000 batches. A core that pushes to its own full `recvCh` waits for itself.
  Whether 1000 messages pile up is a matter of speed; without a clock they always
  can, whatever the bound, so a model would show no more than that sentence.
  Loss by a failed connection is modelled: a message that nobody handles.
* Mercury after round 0, except for the block carried into round 1: a broadcast of
  another node's block gets no votes, so round 1 elects nobody.
* VABA over three epochs: a batch can come back to the pool of a node that carried
  another's block, and only shows in a third epoch.
* Signatures and keys: no handler makes a message that another node would refuse.
  The threshold-signature library and the store's database are external.
* Configuration, start-up, logging and the benchmark scripts, which hold no
  concurrent state; the transaction maker, whose body is commented out.
