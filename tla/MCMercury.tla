------------------------------ MODULE MCMercury ------------------------------
(***************************************************************************)
(* Mercury started where the races are: in the votes of the last epoch, at *)
(* the end of an epoch, and with a node that lags two epochs behind.  Five *)
(* nodes: with four, the 2f+2 Finishes are those of all, so that no leader *)
(* is ever voted down.  n0 and n4 have crashed.                            *)
(***************************************************************************)
EXTENDS Mercury

CONSTANTS n0, n1, n2, n3, n4

FiveNodes == {n0, n1, n2, n3, n4}
Leaders == [e \in Epochs |-> IF e = 0 THEN n1 ELSE n2]

PerEpoch(zero, one) == [e \in Epochs |-> IF e = 0 THEN zero ELSE one]
All(v) == [i \in Node |-> v]
AllBlocks(e) == {e} \X Node

\* Epoch 1, epoch 0 being over with the block of n1.  All broadcasts are through
\* but that of the leader n2, which n0 has locked on and n3 and n4 have not got.
\* All are ready for the election, and n1 and n4 have voted the leader down.
VotesInit ==
  LET settled == Node \ {n2}
      early == {n0, n1, n2}
      quick == {n1, n4}
  IN
  /\ Epoch = All(1)
  /\ Reference = PerEpoch(All({}), All(Node))
  /\ carried = PerEpoch(All(NONE), All(NONE))
  /\ store = [i \in Node |-> AllBlocks(0) \cup {1} \X (IF i \in early THEN Node ELSE settled)]
  /\ voted = PerEpoch(All(Node), [p \in Node |-> IF p = n2 THEN early ELSE Node])
  /\ locked = PerEpoch(All(Node), [p \in Node |-> IF p = n2 THEN {n0} ELSE Node])
  /\ finish = PerEpoch(Node, settled)
  /\ FinishFlags = PerEpoch(All(Node), All(settled))
  /\ done = [e \in Epochs |-> [t \in Tries |-> IF t = 0 THEN Node ELSE {}]]
  /\ ready = done
  /\ elected = PerEpoch(Node, quick)
  /\ leader = PerEpoch(All(n1), [i \in Node |-> IF i \in quick THEN n2 ELSE NONE])
  /\ prevote = PerEpoch(All(NONE), [i \in Node |-> IF i \in quick THEN NO ELSE NONE])
  /\ finvote = PerEpoch(All(NONE), All(NONE))
  /\ action = PerEpoch(All("ACTION_NONE"), All("ACTION_NONE"))
  /\ halts = {[epoch |-> 0, leader |-> n1, block |-> n1]}
  /\ HaltFlags = All({0})
  /\ Blocks = All(PerEpoch(NONE, NONE))
  /\ log = All(<<[block |-> n1, refs |-> {}]>>)

\* Epoch 0 after its election, which had the leader's Finish everywhere: the
\* Halts are out.  Only the crashed nodes have got the block of n3,
\* and the Finish of n2 is under way.
HaltInit ==
  LET settled == Node \ {n3} IN
  /\ Epoch = All(0)
  /\ Reference = PerEpoch(All({}), All(NONE))
  /\ carried = PerEpoch(All(NONE), All(NONE))
  /\ store = [i \in Node |-> {0} \X (IF i \in Correct THEN settled ELSE Node)]
  /\ voted = PerEpoch([p \in Node |-> IF p = n3 THEN {n0, n4} ELSE Node], All({}))
  /\ locked = PerEpoch([p \in Node |-> IF p = n3 THEN {} ELSE Node], All({}))
  /\ finish = PerEpoch(settled, {})
  /\ FinishFlags = PerEpoch([i \in Node |-> IF i \in Correct THEN settled \ {n2} ELSE settled], All({}))
  /\ done = PerEpoch([t \in Tries |-> IF t = 0 THEN Node ELSE {}], [t \in Tries |-> {}])
  /\ ready = PerEpoch([t \in Tries |-> IF t = 0 THEN Node ELSE {}], [t \in Tries |-> {}])
  /\ elected = PerEpoch(Node, {})
  /\ leader = PerEpoch(All(n1), All(NONE))
  /\ prevote = PerEpoch(All(NONE), All(NONE))
  /\ finvote = PerEpoch(All(NONE), All(NONE))
  /\ action = PerEpoch(All("ACTION_NONE"), All("ACTION_NONE"))
  /\ halts = {[epoch |-> 0, leader |-> n1, block |-> n1]}
  /\ HaltFlags = All({})
  /\ Blocks = All(PerEpoch(NONE, NONE))
  /\ log = All(<<>>)

\* Both epochs are over for all but n3, which has got nothing of them: their
\* Halts and blocks are under way to it.  n2 has not got the block of epoch 0
\* either; ld is the leader the Halt of epoch 0 names, which is n0 if it came
\* from FinVotes.
LagInit(ld) ==
  LET ahead == Node \ {n3}
      ballot == [i \in Node |-> IF ld = n0 /\ i \in ahead THEN n1 ELSE NONE]
  IN
  /\ Epoch = [i \in Node |-> IF i = n3 THEN 0 ELSE 2]
  /\ Reference = PerEpoch(All({}), [p \in Node |-> IF p = n3 THEN NONE ELSE ahead])
  /\ carried = PerEpoch(All(NONE), All(NONE))
  /\ store = [i \in Node |->
                CASE i = n3 -> {}
                  [] i = n2 -> {<<0, n2>>} \cup {1} \X ahead
                  [] OTHER -> {0, 1} \X ahead]
  /\ voted = PerEpoch([p \in Node |-> CASE p = n3 -> {} [] p = n2 -> ahead [] OTHER -> ahead \ {n2}],
                      [p \in Node |-> IF p = n3 THEN {} ELSE ahead])
  /\ locked = voted
  /\ finish = PerEpoch(ahead, ahead)
  /\ FinishFlags = PerEpoch([i \in Node |-> IF i = n3 THEN {} ELSE ahead],
                            [i \in Node |-> IF i = n3 THEN {} ELSE ahead])
  /\ done = [e \in Epochs |-> [t \in Tries |-> IF t = 0 THEN ahead ELSE {}]]
  /\ ready = done
  /\ elected = PerEpoch(ahead, ahead)
  /\ leader = PerEpoch([i \in Node |-> IF i = n3 THEN NONE ELSE ld],
                       [i \in Node |-> IF i = n3 THEN NONE ELSE n2])
  /\ prevote = PerEpoch([ballot EXCEPT ![n2] = IF @ = n1 THEN NO ELSE @], All(NONE))
  /\ finvote = PerEpoch(ballot, All(NONE))
  /\ action = PerEpoch([i \in Node |-> IF ballot[i] = n1 THEN "ACTION_COMMIT" ELSE "ACTION_NONE"],
                       All("ACTION_NONE"))
  /\ halts = {[epoch |-> 0, leader |-> ld, block |-> n1], [epoch |-> 1, leader |-> n2, block |-> n2]}
  /\ HaltFlags = [i \in Node |-> IF i = n3 THEN {} ELSE {0, 1}]
  /\ Blocks = [i \in Node |-> PerEpoch(NONE, IF i = n2 THEN n2 ELSE NONE)]
  /\ log = [i \in Node |->
              IF i \in {n2, n3} THEN <<>>
              ELSE <<[block |-> n1, refs |-> {}], [block |-> n2, refs |-> ahead \ {n1}]>>]

MCInit ==
  \/ VotesInit
  \/ HaltInit
  \/ \E ld \in {n0, n1} : LagInit(ld)

MCSpec == MCInit /\ [][Next]_vars /\ Fairness

\* Bound on the behaviours that start at the end of epoch 0: the new blocks are
\* proposed and not handled.
NextEpochBound ==
  Epoch[n0] = 0 => \A i \in Node : store[i] \cap AllBlocks(1) = {}

\* Bound on the behaviours in which n3 lags: of all messages it handles Halts and
\* blocks only, and of the blocks of epoch 1 only the leader's.
LagBound ==
  Epoch[n0] = 2 => /\ store[n3] \cap AllBlocks(1) \subseteq {<<1, n2>>}
                   /\ \A e \in Epochs : /\ FinishFlags[e][n3] = {}
                                        /\ n3 \notin done[e][0]
                                        /\ finvote[e][n3] = NONE /\ action[e][n3] = "ACTION_NONE"
                                        /\ \A p \in Node : n3 \notin voted[e][p]

=============================================================================
