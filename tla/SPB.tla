--------------------------------- MODULE SPB ---------------------------------
(***************************************************************************)
(* One strong provable broadcast instance of core/smvba/consensus/spb.go:  *)
(* the instances that all nodes keep for one (epoch, round, Proposer).     *)
(*                                                                         *)
(* The core loop starts a goroutine for every proposal and every vote, so  *)
(* messages are handled in any order and the steps of two handlers         *)
(* interleave.  What is one step here is one critical section of the code: *)
(* an atomic load or store of BlockHash with the computation around it, a  *)
(* section under uvm (the lists of unhandled messages), a section under vm *)
(* (the vote counters).  A message dropped by messgaeFilter, lost by the   *)
(* network or addressed to a crashed node is a message nobody handles.     *)
(***************************************************************************)
EXTENDS Committee

CONSTANTS Proposer, Correct

ASSUME SPBAssumption == Proposer \in Correct /\ Correct \subseteq Node

VARIABLES
  blockProposer, \* p.B.Proposer of the proposed block
  one,     \* one[i]: the phase-one proposal at node i
  two,     \* two[i]: the phase-two proposal at node i
  vote,    \* vote[ph][i]: node i's phase-ph vote at the proposer
  LockFlag,\* the nodes whose LockFlag is set
  Votes,   \* Votes[ph]: the proposer's counter of phase-ph votes
  finish   \* the number of Finish messages broadcast

vars == <<blockProposer, one, two, vote, LockFlag, Votes, finish>>

Phase == {1, 2}

\* A phase-one proposal: not handled yet; BlockHash stored and vote sent;
\* lists of unhandled messages drained; or refused.
OneStatus == {"sent", "stored", "drained", "refused"}

\* A message that needs BlockHash.  "checked": its goroutine has loaded a nil
\* BlockHash and not yet appended the message to the list of unhandled ones.
MsgStatus == {"unsent", "sent", "checked", "parked", "handled"}

Stored == {i \in Node : one[i] \in {"stored", "drained"}}

Counted(ph) == {i \in Node : vote[ph][i] = "handled"}

Init ==
  /\ blockProposer \in Node
  /\ one = [i \in Node |-> "sent"]
  /\ two = [i \in Node |-> "unsent"]
  /\ vote = [ph \in Phase |-> [i \in Node |-> "unsent"]]
  /\ LockFlag = {}
  /\ Votes = [ph \in Phase |-> 0]
  /\ finish = 0

-----------------------------------------------------------------------------
\* processProposal, phase one, up to and including the vote.
StoreBlockHash(i) ==
  /\ one[i] = "sent"
  /\ IF blockProposer # Proposer
     THEN /\ one' = [one EXCEPT ![i] = "refused"]
          /\ UNCHANGED vote
     ELSE /\ one' = [one EXCEPT ![i] = "stored"]
          /\ vote' = [vote EXCEPT ![1][i] = "sent"]
  /\ UNCHANGED <<blockProposer, two, LockFlag, Votes, finish>>

\* Forgets the parked messages instead of starting a goroutine for each.
ResumeForget(status) == IF status = "parked" THEN "handled" ELSE status

Resume(status) == IF status = "parked" THEN "sent" ELSE status

\* processProposal, phase one, the section under uvm: every parked message is
\* given a new goroutine.
DrainUnhandled(i) ==
  /\ one[i] = "stored"
  /\ one' = [one EXCEPT ![i] = "drained"]
  /\ two' = [two EXCEPT ![i] = Resume(@)]
  /\ vote' = IF i = Proposer
             THEN [ph \in Phase |-> [j \in Node |-> Resume(vote[ph][j])]]
             ELSE vote
  /\ UNCHANGED <<blockProposer, LockFlag, Votes, finish>>

\* processProposal, phase two: with a BlockHash, lock and vote; without one,
\* the message is to be parked.
HandleTwo(i) ==
  /\ two[i] = "sent"
  /\ IF i \in Stored
     THEN /\ two' = [two EXCEPT ![i] = "handled"]
          /\ LockFlag' = LockFlag \cup {i}
          /\ vote' = [vote EXCEPT ![2][i] = "sent"]
     ELSE /\ two' = [two EXCEPT ![i] = "checked"]
          /\ UNCHANGED <<LockFlag, vote>>
  /\ UNCHANGED <<blockProposer, one, Votes, finish>>

ParkTwo(i) ==
  /\ two[i] = "checked"
  /\ two' = [two EXCEPT ![i] = "parked"]
  /\ UNCHANGED <<blockProposer, one, vote, LockFlag, Votes, finish>>

\* A weak quorum where a strong one is needed.
QuorumLow(num) == num = LowThreshold

Quorum(num) == num = HightThreshold

\* Keeps one counter for both phases.
CountVoteMixed(ph, i) ==
  /\ vote[ph][i] = "sent"
  /\ Proposer \in Stored
  /\ vote' = [vote EXCEPT ![ph][i] = "handled"]
  /\ Votes' = [Votes EXCEPT ![ph] = @ + 1]
  /\ two' = IF ph = 1 /\ Quorum(Votes'[1]) THEN [j \in Node |-> "sent"] ELSE two
  /\ finish' = IF ph = 2 /\ Quorum(Votes'[1]) THEN finish + 1 ELSE finish
  /\ UNCHANGED <<blockProposer, one, LockFlag>>

\* processVote at the proposer: the vote that makes the counter reach 2f+1
\* broadcasts the phase-two proposal, or the Finish.
CountVote(ph, i) ==
  /\ vote[ph][i] = "sent"
  /\ Proposer \in Stored
  /\ vote' = [vote EXCEPT ![ph][i] = "handled"]
  /\ Votes' = [Votes EXCEPT ![ph] = @ + 1]
  /\ two' = IF ph = 1 /\ Quorum(Votes'[1]) THEN [j \in Node |-> "sent"] ELSE two
  /\ finish' = IF ph = 2 /\ Quorum(Votes'[2]) THEN finish + 1 ELSE finish
  /\ UNCHANGED <<blockProposer, one, LockFlag>>

\* processVote at the proposer without a BlockHash: load, then append.
CheckVote(ph, i) ==
  /\ vote[ph][i] = "sent"
  /\ Proposer \notin Stored
  /\ vote' = [vote EXCEPT ![ph][i] = "checked"]
  /\ UNCHANGED <<blockProposer, one, two, LockFlag, Votes, finish>>

ParkVote(ph, i) ==
  /\ vote[ph][i] = "checked"
  /\ vote' = [vote EXCEPT ![ph][i] = "parked"]
  /\ UNCHANGED <<blockProposer, one, two, LockFlag, Votes, finish>>

-----------------------------------------------------------------------------
ProposalStep(i) ==
  \/ StoreBlockHash(i)
  \/ DrainUnhandled(i)
  \/ HandleTwo(i)
  \/ ParkTwo(i)

VoteStep(ph, i) ==
  \/ CountVote(ph, i)
  \/ CheckVote(ph, i)
  \/ ParkVote(ph, i)

Next ==
  \/ \E i \in Node : ProposalStep(i)
  \/ \E ph \in Phase, i \in Node : VoteStep(ph, i)

\* A goroutine of a node that does not crash is eventually scheduled.
Fairness ==
  /\ \A i \in Correct : WF_vars(ProposalStep(i))
  /\ \A ph \in Phase, i \in Node : WF_vars(VoteStep(ph, i))

Spec == Init /\ [][Next]_vars

FairSpec == Spec /\ Fairness

-----------------------------------------------------------------------------
PB == INSTANCE ProvableBroadcast
        WITH stored <- Stored, locked <- LockFlag, finished <- (finish > 0)

\* The message handling of spb.go, goroutine races and unhandled lists
\* included, implements the abstract broadcast: a node locks only after 2f+1
\* nodes stored the block, Finish follows 2f+1 locks, and nothing is undone.
ImplementsBroadcast == PB!Spec

\* The status of every message, and counters that only grow (processVote).
TypeOK ==
  /\ blockProposer \in Node
  /\ one \in [Node -> OneStatus]
  /\ two \in [Node -> MsgStatus]
  /\ vote \in [Phase -> [Node -> MsgStatus]]
  /\ LockFlag \subseteq Node
  /\ Votes \in [Phase -> Nat]
  /\ finish \in Nat

\* A locked node knows the block it is locked on ("if lock ensure
\* SPB_ONE_PHASE has received"), so processLeader never panics with "block
\* hash is nil"; and 2f+1 nodes stored that block.
LockIsBacked ==
  LockFlag # {} => /\ LockFlag \subseteq Stored
                   /\ Cardinality(Stored) >= HightThreshold

\* A Finish is broadcast at most once, and only after 2f+1 nodes have locked:
\* what processLeader relies on when it halts on a Finish without a vote.
FinishIsLocked ==
  finish > 0 => finish = 1 /\ Cardinality(LockFlag) >= HightThreshold

\* The list-of-unhandled protocol loses a message when its goroutine loads a
\* nil BlockHash, the phase-one goroutine stores and drains, and only then the
\* message is appended: nobody will drain the list again.
Stranded ==
  \/ \E i \in Node : one[i] = "drained" /\ two[i] = "parked"
  \/ \E ph \in Phase, i \in Node : one[Proposer] = "drained" /\ vote[ph][i] = "parked"

\* With 2f+1 nodes that do not crash, the broadcast of a proposer's own block
\* ends with a Finish unless a message was stranded.
FinishOrStranded ==
  (blockProposer = Proposer) ~> (finish = 1 \/ Stranded)

=============================================================================
