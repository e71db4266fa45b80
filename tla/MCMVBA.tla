------------------------------- MODULE MCMVBA --------------------------------
EXTENDS MVBA

CONSTANTS n1, n2, n3, n4

\* The smallest committee that tolerates a crash, and the shuffle of all epochs.
FourNodes == {n1, n2, n3, n4}
Shuffle == [e \in Epochs |-> [r \in Rounds |-> IF r = 0 THEN n1 ELSE n2]]

\* Epoch 0 has halted with the block of n1, and the nodes in ahead have output it.
\* The first round of epoch 1 has halted with the NO of the nodes in no, if any.
OutputOfEpochZero(ahead, no) ==
  /\ refused = [e \in Epochs |-> [r \in Rounds |-> [i \in Node |-> {}]]]
  /\ input = [e \in Epochs |-> [r \in Rounds |-> [i \in Node |->
                CASE r = 0 /\ e = 0 -> "YES" [] r = 0 /\ e = 1 /\ i \in no -> "NO" [] OTHER -> NONE]]]
  /\ decision = [e \in Epochs |-> [r \in Rounds |->
                   CASE r = 0 /\ e = 0 -> "YES" [] r = 0 /\ no # {} -> "NO" [] OTHER -> NONE]]
  /\ ended = [e \in Epochs |-> [r \in Rounds |-> IF e = 0 /\ r = 0 THEN ahead ELSE {}]]
  /\ commitor = [i \in Node |->
       LET out == [e \in Epochs |-> IF e = 0 /\ i \in ahead THEN n1 ELSE NONE]
       IN [curIndex |-> IF i \in ahead THEN 1 ELSE 0, leaders |-> out, blocks |-> out]]
  /\ panicked = {}

\* Epoch 1 before the election, when epoch 0 has output the block of n1 and n4
\* has crashed: the blocks of back[i] came back to node i, which nodes in absent
\* have no other, the commitments in late are under way, and the nodes in no have
\* voted NO; if these are 2f+1, the first round is over.
ElectionInit(back, absent, late, no) ==
  /\ Epoch = [i \in Node |-> 1]
  /\ proposal = [e \in Epochs |-> [i \in Node |-> IF e = 1 /\ i = n1 THEN 2 ELSE 1]]
  /\ queue = [i \in Node |-> <<>>]
  /\ bcnt = [i \in Node |-> IF i = n1 THEN 2 ELSE 1]
  /\ has = [e \in Epochs |-> [i \in Node |->
              IF e = 1 /\ i \in absent THEN back[i] ELSE Node]]
  /\ backs = [e \in Epochs |-> [i \in Node |->
                IF e = 0 THEN Node ELSE back[i]]]
  /\ com = [e \in Epochs |-> [i \in Node |-> [j \in Node |->
              IF ~ IsQuorum(backs[e][j]) \/ (e = 1 /\ <<i, j>> \in late)
              THEN NONE ELSE backs[e][j]]]]
  /\ comBacks = [e \in Epochs |-> [i \in Node |-> {j \in Node : com[e][i][j] # NONE}]]
  /\ elected = [e \in Epochs |-> IF e = 0 THEN Node ELSE no]
  /\ votes = [e \in Epochs |-> [r \in Rounds |-> [i \in Node |->
                CASE r > 0 -> {} [] e = 0 -> {"YES"} [] i \in no -> {"NO"} [] OTHER -> {}]]]
  /\ OutputOfEpochZero(Node, IF IsQuorum(no) THEN no ELSE {})

\* Epoch 1 when epoch 0 has output the block of n1, n1 itself has not handled the
\* ABAHalt and has not elected, and n4 has crashed.  The ElectShares of n2, n3
\* and n4 have reached n2 and n3, which voted.  In epoch 0 the blocks of came and
\* all commitments, or nothing, came back to n1.
LagInit(came) ==
  LET ahead == {n2, n3, n4} IN
  /\ Epoch = [i \in Node |-> IF i = n1 THEN 0 ELSE 1]
  /\ proposal = [e \in Epochs |-> [i \in Node |-> IF e = 1 /\ i = n1 THEN 0 ELSE 1]]
  /\ queue = [i \in Node |-> <<>>]
  /\ bcnt = [i \in Node |-> 1]
  /\ has = [e \in Epochs |-> [i \in Node |-> IF e = 0 THEN Node ELSE ahead]]
  /\ backs = [e \in Epochs |-> [i \in Node |->
                IF e > 0 THEN ahead ELSE IF i = n1 THEN came ELSE Node]]
  /\ com = [e \in Epochs |-> [i \in Node |-> [j \in Node |->
              IF IsQuorum(backs[e][j]) THEN backs[e][j] ELSE NONE]]]
  /\ comBacks = [e \in Epochs |-> [i \in Node |->
                   IF e = 0 /\ i = n1 /\ came = {} THEN {}
                   ELSE {j \in Node : com[e][i][j] # NONE}]]
  /\ elected = [e \in Epochs |-> IF e = 0 THEN ahead ELSE ahead \ {n4}]
  /\ votes = [e \in Epochs |-> [r \in Rounds |-> [i \in Node |->
                CASE r > 0 \/ i \notin elected[e] -> {} [] e = 0 -> {"YES"} [] OTHER -> {"NO"}]]]
  /\ OutputOfEpochZero(ahead, {})

\* The blocks that came back to the correct nodes: T to those of but, S to others.
Back(S, but, T) == [i \in Node |-> IF i \notin Correct THEN {} ELSE IF i \in but THEN T ELSE S]

\* All miss the block of the first leader; the slow node n4 and two others do; or
\* only n3, whose commitment is slow.  Or nothing has come back to n1, and the
\* others have not got its block.  Or n1 lags.
MCInit ==
  \/ ElectionInit(Back(Node \ {n1}, {}, {}), {n2, n3}, {}, {})
  \/ ElectionInit(Back(Node \ {n1}, {n3}, Node), {}, {}, {n4})
  \/ ElectionInit(Back(Node, {n3}, Node \ {n1}), {}, {<<n1, n3>>}, {})
  \/ ElectionInit([i \in Node |-> IF i = n1 THEN {} ELSE Node \ {n1}], {n2, n3, n4},
                  {n1} \X Node, {n2, n3, n4})
  \/ \E came \in {{}, Node} : LagInit(came)

MCSpec == MCInit /\ [][Next]_vars /\ Fairness

\* Bound on the behaviours in which n1 lags or nothing has come back to it: its
\* block of epoch 1 stays under way, no more of epoch 0 and no more blocks of
\* epoch 1 come back to it, and commitments do one after the other.
LagBound ==
  has[1][n4] # Node =>
    /\ \A i \in Node \ {n1} : n1 \notin has[1][i]
    /\ <<backs[0][n1], comBacks[0][n1]>> \in {<<{}, {}>>, <<Node, Node>>}
    /\ backs[1][n1] \in {{}, Node \ {n1}}
    /\ com[1][n1][n3] # NONE => n2 \in comBacks[1][n1]
    /\ com[1][n1][n4] # NONE => n3 \in comBacks[1][n1]

=============================================================================
