------------------------------- MODULE MCVABA --------------------------------
EXTENDS VABA

CONSTANTS n1, n2, n3, n4

\* The smallest committee that tolerates a crash.
FourNodes == {n1, n2, n3, n4}
OneCrashed == FourNodes \ {n4}

LeaderSequence == [e \in Epochs |-> IF e = 0 THEN n1 ELSE n2]

\* Epoch 1, when n4 has sent its Done of it and crashed.  Epoch 0 has ended with
\* block out everywhere: the block of the leader n1, or Empty.  Then n1 and n2
\* had the block of n1 and no votes of phase two were cast.  The nodes in late
\* have left epoch 0 on a Halt and wait for the block.  The blocks of
\* epoch 1 are next; the nodes in got have its leader's and voted in k phases;
\* those in viewed have sent their ViewChange, those in finished their Done.
SecondInit(out, late, next, got, k, finished, viewed) ==
  LET voted == IF out = Empty THEN {n1, n2} ELSE Node \ late
      last == IF out = Empty THEN 1 ELSE 4
      view(S, m) == [i \in Node |-> [hash |-> i \in S,
                                    commit |-> i \in S /\ m = 4,
                                    lock |-> i \in S /\ m >= 3]]
  IN
  /\ Epoch = [i \in Node |-> 1]
  /\ Lock = [i \in Node |-> 0]
  /\ proposal = [e \in Epochs |-> [i \in Node |-> IF e = 0 THEN FirstBlock(i) ELSE next[i]]]
  /\ received = [e \in Epochs |-> IF e = 0 THEN voted ELSE got]
  /\ started = received
  /\ stage = [e \in Epochs |-> [i \in Node |->
                CASE e = 0 /\ i \in voted -> last [] e = 1 /\ i \in got -> k [] OTHER -> 0]]
  /\ done = [e \in Epochs |-> IF e = 0 THEN {n2, n3, n4} ELSE finished]
  /\ skipShare = [e \in Epochs |-> IF e = 0 THEN Node ELSE viewed]
  /\ skip = skipShare
  /\ hash = [e \in Epochs |-> [i \in Node |->
               CASE e = 1 /\ i \notin viewed -> "unread"
                 [] i \in received[e] -> "set"
                 [] OTHER -> "nil"]]
  /\ viewChange = [e \in Epochs |-> [i \in Node |->
                     CASE e = 0 -> view(voted, last)[i]
                       [] e = 1 /\ i \in viewed -> view(got, k)[i]
                       [] OTHER -> NONE]]
  /\ commitFlag = [i \in Node |-> {0}]
  /\ halts = IF out = Empty THEN {} ELSE {0}
  /\ store = [i \in Node |-> (IF i \in voted THEN {FirstBlock(n1)} ELSE {})
                             \cup (IF i \in got THEN {next[n2]} ELSE {})]
  /\ commitor = [i \in Node |-> [Index |-> IF i \in late THEN 0 ELSE 1,
                   Blocks |-> [e \in Epochs |-> IF e = 0 /\ i \notin late THEN out ELSE NONE]]]
  /\ queue = [i \in Node |-> <<>>]
  /\ bcnt = [i \in Node |-> IF next[i] # NONE THEN next[i].batch.num ELSE 1]
  /\ panicked = {}

NewBlock(i, num) == [proposer |-> i, epoch |-> 1, batch |-> [maker |-> i, num |-> num]]

\* The end of epoch 0, or epoch 1.  After a commit n1 proposes a new batch, the
\* others the one that came back; n3, without the block, proposes a new one.
\* After an empty epoch a node takes the block of n1 along or not, by the
\* ViewChange it handled last; n3, which does not have it, is silent then.
MCInit ==
  \/ InitWith({n2, n3, n4}, {n4}, 2)
  \/ SecondInit(FirstBlock(n1), {}, [i \in Node |-> NewBlock(i, IF i = n1 THEN 2 ELSE 1)],
                {n1, n2, n4}, 3, {n4}, {})
  \/ SecondInit(Empty, {}, [i \in Node |-> IF i \in {n1, n2} THEN FirstBlock(n1) ELSE NewBlock(i, 2)],
                Correct, 3, {n1, n4}, {})
  \/ SecondInit(Empty, {}, [i \in Node |-> CASE i = n2 -> FirstBlock(n1) [] i = n3 -> NONE
                                        [] OTHER -> NewBlock(i, 2)],
                {n1, n2}, 1, {n4}, {})
  \/ \E k \in {1, 4} :
       SecondInit(FirstBlock(n1), {n3},
                  [i \in Node |-> NewBlock(i, IF i \in {n1, n3} THEN 2 ELSE 1)],
                  {n1, n2, n4}, k, {n1, n3, n4}, Correct)

MCSpec == MCInit /\ [][Next]_vars /\ Fairness

\* Behaviours that begin in epoch 0 stop with the first message of epoch 1.
OneEpoch == n4 \in done[1] \/ (received[1] = {} /\ done[1] = {})

\* The votes of three phases are in, and all but the leader have sent Done.
LateSpec == InitWith(Node \ {n1}, {}, 3) /\ [][Next]_vars

=============================================================================
