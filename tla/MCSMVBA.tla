------------------------------- MODULE MCSMVBA -------------------------------
(***************************************************************************)
(* SMVBA started in the middle of round 0, where the races are: the        *)
(* broadcasts of Settled are over, those of the other proposers are not,   *)
(* and the nodes outside Correct have crashed.                             *)
(***************************************************************************)
EXTENDS SMVBA, TLC

CONSTANTS
  Settled,   \* proposers whose round-0 broadcast is over everywhere
  Early,     \* nodes that have voted for the block of every proposer
  Ready,     \* nodes that have handled 2f+1 Done messages of round 0
  Leader     \* the leader of every round

ASSUME MidwayAssumption ==
  Settled \subseteq Node /\ Early \subseteq Node /\ Ready \subseteq Node

LeaderCoin == [r \in Round |-> Leader]

\* A reachable state: the broadcasts of settled are over, and early have voted for
\* the blocks of the others.  The nodes that crash do so after they locked on the
\* blocks they voted for, if 2f+1 nodes did; the Finishes have reached the nodes
\* in told, and all Dones are out if 2f+2 broadcasts are over.
Midway(settled, early, told) ==
  /\ proposal = [r \in Round |-> [p \in Node |-> IF r = 0 THEN p ELSE NONE]]
  /\ store = [i \in Node |-> IF i \in early THEN Node ELSE settled]
  /\ voted = [r \in Round |-> [p \in Node |->
                IF r > 0 THEN {} ELSE IF p \in settled THEN Node ELSE early]]
  /\ locked = [r \in Round |-> [p \in Node |->
                CASE r > 0 -> {}
                  [] r = 0 /\ p \in settled -> Node
                  [] OTHER -> IF early \in Quorums THEN early \ Correct ELSE {}]]
  /\ finish = [r \in Round |-> IF r = 0 THEN settled ELSE {}]
  /\ FinishFlags = [i \in Node |-> [r \in Round |-> IF i \in told THEN finish[r] ELSE {}]]
  /\ done = [r \in Round |-> IF r = 0 /\ Cardinality(settled) > HightThreshold THEN Node ELSE {}]
  /\ ready = [r \in Round |-> done[r] \cap Ready]
  /\ elected = [r \in Round |-> {}]
  /\ leader = [i \in Node |-> [r \in Round |-> NONE]]
  /\ prevote = [r \in Round |-> [i \in Node |-> NONE]]
  /\ finvote = [r \in Round |-> [i \in Node |-> NONE]]
  /\ action = [r \in Round |-> [i \in Node |-> "ACTION_NONE"]]
  /\ halts = {}
  /\ output = [i \in Node |-> NONE]

MidwayInit == Midway(Settled, Early, Node)

\* The leader's block may have fewer votes, and node 0 may also have crashed
\* before its broadcast was over.
CrashInit ==
  \/ MidwayInit
  \/ Midway(Settled, {NodeZero, Leader}, Node)
  \/ Midway(Settled \ {NodeZero}, Correct, {})

MidwaySpec == MidwayInit /\ [][Next]_vars

CrashFairSpec == CrashInit /\ [][Next]_vars /\ Fairness

\* Bound: the broadcasts of round 1 are proposed and not run, the one of the
\* round-0 leader gets no Finish, and no Halt is handled.  The states in
\* which a node holds the leader's Finish, and halts in place of voting, are
\* left out.
VotesOnly ==
  /\ \A r \in Round \ {0}, p \in Node : voted[r][p] = {}
  /\ finish[0] = Settled
  /\ \A i \in Node : Running(i)

=============================================================================
