------------------------------ MODULE MVBAProofs -----------------------------
(***************************************************************************)
(* For every committee of 3f+1 nodes, any shuffle of leaders, any number   *)
(* of epochs and rounds, any set of crashed nodes and whatever the network *)
(* does: what is output is available, an epoch is one agreement on an      *)
(* available block, it does not reject many leaders, and no batch is       *)
(* output twice.                                                           *)
(***************************************************************************)
EXTENDS MVBA, CommitteeProofs

\* The variables the argument is about.
outVars == <<Epoch, has, backs, votes, input, decision, ended, commitor>>

Commitor == [curIndex : 0 .. MaxEpoch + 1,
             leaders : [Epochs -> Node \cup {NONE}],
             blocks : [Epochs -> Node \cup {NONE}]]

Types ==
  /\ Epoch \in [Node -> 0 .. MaxEpoch + 1]
  /\ has \in [Epochs -> [Node -> SUBSET Node]]
  /\ backs \in [Epochs -> [Node -> SUBSET Node]]
  /\ votes \in [Epochs -> [Rounds -> [Node -> SUBSET VoteFlag]]]
  /\ input \in [Epochs -> [Rounds -> [Node -> Flag \cup {NONE}]]]
  /\ decision \in [Epochs -> [Rounds -> Flag \cup {NONE}]]
  /\ ended \in [Epochs -> [Rounds -> SUBSET Node]]
  /\ commitor \in [Node -> Commitor]

\* 2f+1 nodes have the block of p in epoch e.
Available(e, p) == IsQuorum({j \in Node : p \in has[e][j]})

\* The leader of round r is one to vote on: those before were rejected.
Reached(e, r) == \A t \in Rounds : t < r => decision[e][t] = "NO"

BackInv == \A e \in Epochs, i \in Node : \A p \in backs[e][i] : Available(e, p)

\* A YES goes back to a block that came back; a round starts when the one before
\* has ended with NO.
VoteInv ==
  \A e \in Epochs, r \in Rounds, i \in Node :
    /\ "YES" \in votes[e][r][i] => Available(e, LeaderOf[e][r])
    /\ votes[e][r][i] # {} => Reached(e, r)

InputInv ==
  \A e \in Epochs, r \in Rounds, i \in Node :
    /\ input[e][r][i] = "YES" => Available(e, LeaderOf[e][r])
    /\ input[e][r][i] # NONE => Reached(e, r)

DecisionInv ==
  \A e \in Epochs, r \in Rounds :
    /\ decision[e][r] = "YES" => Available(e, LeaderOf[e][r])
    /\ decision[e][r] # NONE => Reached(e, r)

IInv == Types /\ BackInv /\ VoteInv /\ InputInv /\ DecisionInv

-----------------------------------------------------------------------------
LEMMA QuorumGrows ==
  ASSUME NEW S \in SUBSET Node, NEW T \in SUBSET Node, S \subseteq T, IsQuorum(S)
  PROVE  IsQuorum(T)
<1>1. /\ Cardinality(S) \in Nat
      /\ Cardinality(T) \in Nat
      /\ Cardinality(S) <= Cardinality(T)
  BY NodeSets
<1> QED
  BY <1>1, ThresholdType DEF IsQuorum

\* PutBatch appends a batch to a queue of batches.
LEMMA AppendBatch ==
  ASSUME NEW B, NEW s \in Seq(B), NEW x \in B
  PROVE  Append(s, x) \in Seq(B)
OBVIOUS

\* Commit gives a Commitor.
LEMMA CommitStays ==
  ASSUME NEW c \in Commitor, NEW e \in Epochs, NEW l \in Node
  PROVE  Commit(c, e, l) \in Commitor
<1> DEFINE blocks == [c.blocks EXCEPT ![e] = l]
           IsNext(k) == /\ \A m \in c.curIndex .. k - 1 : blocks[m] # NONE
                        /\ k \in Epochs => blocks[k] = NONE
           next == CHOOSE k \in c.curIndex .. MaxEpoch + 1 : IsNext(k)
<1>1. /\ MaxEpoch \in Nat
      /\ c.curIndex \in 0 .. MaxEpoch + 1
      /\ c.leaders \in [Epochs -> Node \cup {NONE}]
      /\ c.blocks \in [Epochs -> Node \cup {NONE}]
  BY MVBAAssumption DEF Commitor
<1>2. CASE e < c.curIndex
  <2>1. Commit(c, e, l) = c
    BY <1>2 DEF Commit
  <2> QED
    BY <2>1
<1>3. CASE ~ (e < c.curIndex)
  <2>1. Commit(c, e, l) = [curIndex |-> next,
                           leaders |-> [c.leaders EXCEPT ![e] = l],
                           blocks |-> blocks]
    BY <1>3 DEF Commit
  <2>2. blocks \in [Epochs -> Node \cup {NONE}]
    BY <1>1
  <2>3. \E k \in c.curIndex .. MaxEpoch + 1 : IsNext(k)
    <3> DEFINE T == {k \in c.curIndex .. MaxEpoch + 1 : k \in Epochs => blocks[k] = NONE}
    <3>1. MaxEpoch + 1 \in T
      BY <1>1 DEF Epochs
    <3>2. T \in SUBSET Nat /\ T # {}
      BY <1>1, <3>1
    <3>3. PICK x \in T : \A y \in T : x <= y
      <4> HIDE DEF T
      <4> QED
        BY <3>2, LeastElement
    <3>4. ASSUME NEW m \in c.curIndex .. x - 1 PROVE blocks[m] # NONE
      <4>1. m \in c.curIndex .. MaxEpoch + 1 /\ ~ (x <= m)
        BY <1>1
      <4>2. m \notin T
        BY <3>3, <4>1
      <4> QED
        BY <4>1, <4>2
    <3> QED
      BY <3>4
  <2> HIDE DEF IsNext
  <2>4. next \in c.curIndex .. MaxEpoch + 1 /\ IsNext(next)
    BY <2>3
  <2> HIDE DEF next
  <2> USE DEF IsNext
  <2>5. next \in 0 .. MaxEpoch + 1
    BY <1>1, <2>4
  <2> HIDE DEF blocks
  <2> QED
    BY <1>1, <2>1, <2>2, <2>5 DEF Commitor
<1> QED
  BY <1>2, <1>3

LEMMA InitIInv == Init => IInv
<1> SUFFICES ASSUME Init PROVE IInv
  OBVIOUS
<1>1. Types
  BY MVBAAssumption DEF Init, Types, Commitor
<1>2. BackInv
  BY DEF Init, BackInv
<1>3. VoteInv
  BY DEF Init, VoteInv
<1>4. InputInv
  BY MVBAAssumption DEF Init, InputInv, Flag
<1>5. DecisionInv
  BY MVBAAssumption DEF Init, DecisionInv, Flag
<1> QED
  BY <1>1, <1>2, <1>3, <1>4, <1>5 DEF IInv

\* A step that leaves these variables alone.
LEMMA Frame ==
  ASSUME IInv, UNCHANGED outVars
  PROVE  IInv'
<1>1. Types'
  BY DEF IInv, Types, outVars
<1>2. /\ \A e \in Epochs, p \in Node : Available(e, p)' = Available(e, p)
      /\ \A e \in Epochs, r \in Rounds : Reached(e, r)' = Reached(e, r)
  BY Zenon DEF Available, Reached, outVars
<1>4. \A e \in Epochs, r \in Rounds : LeaderOf[e][r] \in Node
  BY MVBAAssumption
<1>5. BackInv'
  BY <1>2 DEF IInv, Types, BackInv, outVars
<1>6. VoteInv' /\ InputInv' /\ DecisionInv'
  BY <1>2, <1>4 DEF IInv, VoteInv, InputInv, DecisionInv, outVars
<1> QED
  BY <1>1, <1>5, <1>6 DEF IInv

\* A block stays available, and a rejected leader stays rejected.
LEMMA Persist ==
  ASSUME \A e \in Epochs, j \in Node : has[e][j] \subseteq has'[e][j],
         \A e \in Epochs, r \in Rounds :
           decision[e][r] # NONE => decision'[e][r] = decision[e][r],
         NEW e \in Epochs
  PROVE  /\ \A p \in Node : Available(e, p) => Available(e, p)'
         /\ \A r \in Rounds : Reached(e, r) => Reached(e, r)'
<1>1. ASSUME NEW p \in Node, Available(e, p) PROVE Available(e, p)'
  <2> DEFINE S == {j \in Node : p \in has[e][j]}
             T == {j \in Node : p \in has'[e][j]}
  <2>1. S \in SUBSET Node /\ T \in SUBSET Node /\ S \subseteq T
    OBVIOUS
  <2>2. IsQuorum(S)
    BY <1>1 DEF Available
  <2> HIDE DEF S, T
  <2>3. IsQuorum(T)
    BY <2>1, <2>2, QuorumGrows
  <2> QED
    BY <2>3 DEF T, Available, IsQuorum
<1>2. ASSUME NEW r \in Rounds, Reached(e, r) PROVE Reached(e, r)'
  <2>1. "NO" # NONE
    BY MVBAAssumption DEF Flag
  <2> QED
    BY <1>2, <2>1 DEF Reached
<1> QED
  BY <1>1, <1>2

\* The Commitor of node i commits, and perhaps not.
LEMMA CommitorStep ==
  ASSUME IInv, NEW i \in Node, NEW e \in Epochs, NEW l \in Node,
         \/ commitor' = [commitor EXCEPT ![i] = Commit(@, e, l)]
         \/ commitor' = commitor
  PROVE  commitor' \in [Node -> Commitor]
<1>1. commitor \in [Node -> Commitor] /\ commitor[i] \in Commitor
  BY DEF IInv, Types
<1>2. Commit(commitor[i], e, l) \in Commitor
  BY <1>1, CommitStays
<1> QED
  BY <1>1, <1>2, Zenon

LEMMA HandleProposalStep ==
  ASSUME IInv, NEW i \in Node, NEW e \in Epochs, NEW p \in Node, HandleProposal(i, e, p)
  PROVE  IInv'
<1>1. /\ has' = [has EXCEPT ![e][i] = @ \cup {p}]
      /\ UNCHANGED <<Epoch, backs, votes, input, decision, ended>>
  BY DEF HandleProposal, voteVars, abaVars
<1>2. commitor' \in [Node -> Commitor]
  <2>1. \/ commitor' = [commitor EXCEPT ![i] = Commit(@, e, p)]
        \/ commitor' = commitor
    BY DEF HandleProposal
  <2> QED
    BY <2>1, CommitorStep
<1>3. /\ has' \in [Epochs -> [Node -> SUBSET Node]]
      /\ \A d \in Epochs, j \in Node : has[d][j] \subseteq has'[d][j]
  BY <1>1 DEF IInv, Types
<1>4. Types'
  BY <1>1, <1>2, <1>3 DEF IInv, Types
<1>5. \A d \in Epochs : /\ \A q \in Node : Available(d, q) => Available(d, q)'
                        /\ \A r \in Rounds : Reached(d, r) => Reached(d, r)'
  BY <1>1, <1>3, Persist
<1>6. BackInv'
  BY <1>1, <1>5 DEF IInv, Types, BackInv
<1>7. \A d \in Epochs, r \in Rounds : LeaderOf[d][r] \in Node
  BY MVBAAssumption
<1>8. VoteInv'
  BY <1>1, <1>5, <1>7 DEF IInv, VoteInv
<1>9. InputInv'
  BY <1>1, <1>5, <1>7 DEF IInv, InputInv
<1>10. DecisionInv'
  BY <1>1, <1>5, <1>7 DEF IInv, DecisionInv
<1> QED
  BY <1>2, <1>4, <1>6, <1>8, <1>9, <1>10 DEF IInv

LEMMA ProcessDataBackStep ==
  ASSUME IInv, NEW i \in Node, NEW e \in Epochs, NEW p \in Node, ProcessDataBack(i, e, p)
  PROVE  IInv'
<1>1. /\ backs' = [backs EXCEPT ![e][i] = @ \cup {p}]
      /\ Available(e, p)
      /\ UNCHANGED <<Epoch, has, votes, input, decision, ended, commitor>>
  BY DEF ProcessDataBack, voteVars, abaVars, Available
<1>2. /\ backs' \in [Epochs -> [Node -> SUBSET Node]]
      /\ \A d \in Epochs, j \in Node :
           \A q \in backs'[d][j] : q \in backs[d][j] \/ (d = e /\ q = p)
  <2>1. backs \in [Epochs -> [Node -> SUBSET Node]]
    BY DEF IInv, Types
  <2> QED
    BY <1>1, <2>1
<1>3. Types'
  BY <1>1, <1>2 DEF IInv, Types
<1>4. /\ \A d \in Epochs, q \in Node : Available(d, q)' = Available(d, q)
      /\ \A d \in Epochs, r \in Rounds : Reached(d, r)' = Reached(d, r)
  BY <1>1, Zenon DEF Available, Reached
<1>7. \A d \in Epochs, r \in Rounds : LeaderOf[d][r] \in Node
  BY MVBAAssumption
<1>5. BackInv'
  BY <1>1, <1>2, <1>4 DEF IInv, Types, BackInv
<1>6. VoteInv' /\ InputInv' /\ DecisionInv'
  BY <1>1, <1>4, <1>7 DEF IInv, VoteInv, InputInv, DecisionInv
<1> QED
  BY <1>3, <1>5, <1>6 DEF IInv

\* invokeStageTwo in a round that is reached.
LEMMA InvokeStageTwoStep ==
  ASSUME IInv, NEW i \in Node, NEW e \in Epochs, NEW r \in Rounds, NEW known,
         Reached(e, r), InvokeStageTwo(i, e, r, known),
         UNCHANGED <<Epoch, has, backs, input, decision, commitor>>,
         ended' \in [Epochs -> [Rounds -> SUBSET Node]]
  PROVE  IInv'
<1>1. votes \in [Epochs -> [Rounds -> [Node -> SUBSET VoteFlag]]]
  BY DEF IInv, Types
<1>2. LeaderOf[e][r] \in backs[e][i] => Available(e, LeaderOf[e][r])
  BY DEF IInv, BackInv
<1>3. \/ votes' = votes
      \/ \E f \in VoteFlag : /\ votes' = [votes EXCEPT ![e][r][i] = @ \cup {f}]
                             /\ f = "YES" => LeaderOf[e][r] \in backs[e][i]
  BY DEF InvokeStageTwo, VoteFlag, Flag
<1>4. /\ votes' \in [Epochs -> [Rounds -> [Node -> SUBSET VoteFlag]]]
      /\ \A d \in Epochs, s \in Rounds, j \in Node :
           \/ votes'[d][s][j] = votes[d][s][j]
           \/ /\ d = e /\ s = r
              /\ \/ "YES" \notin votes'[d][s][j]
                 \/ "YES" \in votes[d][s][j]
                 \/ Available(e, LeaderOf[e][r])
  <2>1. CASE votes' = votes
    BY <1>1, <2>1
  <2>2. ASSUME NEW f \in VoteFlag,
               votes' = [votes EXCEPT ![e][r][i] = @ \cup {f}],
               f = "YES" => LeaderOf[e][r] \in backs[e][i]
        PROVE  <1>4!1 /\ <1>4!2
    BY <1>1, <1>2, <2>2
  <2> QED
    BY <1>3, <2>1, <2>2
<1>5. /\ \A d \in Epochs, p \in Node : Available(d, p)' = Available(d, p)
      /\ \A d \in Epochs, s \in Rounds : Reached(d, s)' = Reached(d, s)
  BY Zenon DEF Available, Reached
<1>6. \A d \in Epochs, s \in Rounds : LeaderOf[d][s] \in Node
  BY MVBAAssumption
<1>7. Types'
  BY <1>4 DEF IInv, Types
<1>8. VoteInv'
  <2> SUFFICES ASSUME NEW d \in Epochs, NEW s \in Rounds, NEW j \in Node
               PROVE  /\ "YES" \in votes'[d][s][j] => Available(d, LeaderOf[d][s])
                      /\ votes'[d][s][j] # {} => Reached(d, s)
    BY <1>5, <1>6 DEF VoteInv
  <2>1. /\ "YES" \in votes[d][s][j] => Available(d, LeaderOf[d][s])
        /\ votes[d][s][j] # {} => Reached(d, s)
    BY DEF IInv, VoteInv
  <2> QED
    BY <1>4, <2>1
<1>9. BackInv'
  BY <1>5 DEF IInv, Types, BackInv
<1>10. InputInv' /\ DecisionInv'
  BY <1>5, <1>6 DEF IInv, InputInv, DecisionInv
<1> QED
  BY <1>7, <1>8, <1>9, <1>10 DEF IInv

LEMMA HandleElectShareStep ==
  ASSUME IInv, NEW i \in Node, NEW e \in Epochs, HandleElectShare(i, e)
  PROVE  IInv'
<1>1. Epoch[i] \in Epochs
  BY MVBAAssumption DEF HandleElectShare, Passes, IInv, Types, Epochs
<1>2. 0 \in Rounds /\ Reached(Epoch[i], 0)
  BY MVBAAssumption DEF Rounds, Reached
<1>3. /\ InvokeStageTwo(i, Epoch[i], 0, elected'[Epoch[i]])
      /\ UNCHANGED <<Epoch, has, backs, input, decision, ended, commitor>>
  BY DEF HandleElectShare, cbcVars, abaVars
<1>4. ended' \in [Epochs -> [Rounds -> SUBSET Node]]
  BY <1>3 DEF IInv, Types
<1> QED
  BY <1>1, <1>2, <1>3, <1>4, InvokeStageTwoStep

LEMMA ProcessABANoStep ==
  ASSUME IInv, NEW i \in Node, NEW e \in Epochs, NEW r \in Rounds, ProcessABANo(i, e, r)
  PROVE  IInv'
<1>1. r + 1 \in Rounds
  BY MVBAAssumption DEF ProcessABANo, Rounds
<1>2. Reached(e, r + 1)
  <2>1. decision[e][r] = "NO" /\ Reached(e, r)
    BY MVBAAssumption DEF ProcessABANo, IInv, DecisionInv, Flag
  <2> QED
    BY <2>1 DEF Reached, Rounds
<1>3. /\ InvokeStageTwo(i, e, r + 1, elected[e])
      /\ UNCHANGED <<Epoch, has, backs, input, decision, commitor>>
      /\ ended' = [ended EXCEPT ![e][r] = @ \cup {i}]
  BY DEF ProcessABANo, cbcVars
<1>4. ended' \in [Epochs -> [Rounds -> SUBSET Node]]
  BY <1>3 DEF IInv, Types
<1> QED
  BY <1>1, <1>2, <1>3, <1>4, InvokeStageTwoStep

\* A node invokes the ABA in a round that somebody voted in, with YES only if
\* somebody voted so.
LEMMA InvokeABAStep ==
  ASSUME IInv, NEW i \in Node, NEW e \in Epochs, NEW r \in Rounds, NEW j \in Node, NEW f \in Flag,
         votes[e][r][j] # {}, f = "YES" => "YES" \in votes[e][r][j],
         input' = [input EXCEPT ![e][r][i] = f],
         UNCHANGED <<Epoch, has, backs, votes, decision, ended, commitor>>
  PROVE  IInv'
<1>1. /\ f = "YES" => Available(e, LeaderOf[e][r])
      /\ Reached(e, r)
  BY DEF IInv, VoteInv
<1>2. /\ input' \in [Epochs -> [Rounds -> [Node -> Flag \cup {NONE}]]]
      /\ \A d \in Epochs, s \in Rounds, k \in Node :
           input'[d][s][k] = input[d][s][k] \/ (d = e /\ s = r /\ input'[d][s][k] = f)
  <2>1. input \in [Epochs -> [Rounds -> [Node -> Flag \cup {NONE}]]]
    BY DEF IInv, Types
  <2> QED
    BY <2>1
<1>3. /\ \A d \in Epochs, p \in Node : Available(d, p)' = Available(d, p)
      /\ \A d \in Epochs, s \in Rounds : Reached(d, s)' = Reached(d, s)
  BY Zenon DEF Available, Reached
<1>4. \A d \in Epochs, s \in Rounds : LeaderOf[d][s] \in Node
  BY MVBAAssumption
<1>5. Types'
  BY <1>2 DEF IInv, Types
<1>6. InputInv'
  BY <1>1, <1>2, <1>3, <1>4 DEF IInv, InputInv
<1>7. BackInv'
  BY <1>3 DEF IInv, Types, BackInv
<1>8. VoteInv' /\ DecisionInv'
  BY <1>3, <1>4 DEF IInv, VoteInv, DecisionInv
<1> QED
  BY <1>5, <1>6, <1>7, <1>8 DEF IInv

LEMMA InvokeABAYesStep ==
  ASSUME IInv, NEW i \in Node, NEW e \in Epochs, NEW r \in Rounds, NEW j \in Node,
         InvokeABAYes(i, e, r, j)
  PROVE  IInv'
<1>1. /\ "YES" \in Flag
      /\ votes[e][r][j] # {} /\ "YES" \in votes[e][r][j]
      /\ input' = [input EXCEPT ![e][r][i] = "YES"]
      /\ UNCHANGED <<Epoch, has, backs, votes, decision, ended, commitor>>
  BY DEF InvokeABAYes, cbcVars, abaVars, Flag
<1> QED
  BY <1>1, InvokeABAStep, Zenon

LEMMA InvokeABANoStep ==
  ASSUME IInv, NEW i \in Node, NEW e \in Epochs, NEW r \in Rounds, InvokeABANo(i, e, r)
  PROVE  IInv'
<1> DEFINE S == NoVotes(i, e, r)
<1>1. IsQuorum(S)
  BY Zenon DEF InvokeABANo
<1>2. S # {}
  <2> HIDE DEF S
  <2> QED
    BY <1>1, ThresholdType, FS_EmptySet DEF IsQuorum
<1>3. PICK j \in Node : votes[e][r][j] # {}
  BY <1>2, Zenon DEF NoVotes, Lost
<1>4. /\ "NO" \in Flag /\ ("NO" = "YES" => "YES" \in votes[e][r][j])
      /\ input' = [input EXCEPT ![e][r][i] = "NO"]
      /\ UNCHANGED <<Epoch, has, backs, votes, decision, ended, commitor>>
  BY Zenon DEF InvokeABANo, cbcVars, abaVars, Flag
<1> QED
  BY <1>3, <1>4, InvokeABAStep, Zenon

LEMMA DecideABAStep ==
  ASSUME IInv, NEW e \in Epochs, NEW r \in Rounds, NEW f \in Flag, DecideABA(e, r, f)
  PROVE  IInv'
<1>1. /\ decision[e][r] = NONE
      /\ Cardinality({i \in Node : input[e][r][i] = f}) >= LowThreshold
      /\ decision' = [decision EXCEPT ![e][r] = f]
      /\ UNCHANGED <<Epoch, has, backs, votes, input, ended, commitor>>
  BY Zenon DEF DecideABA, cbcVars, voteVars
<1>2. PICK i \in Node : input[e][r][i] = f
  <2> DEFINE S == {i \in Node : input[e][r][i] = f}
  <2>1. Cardinality(S) >= LowThreshold
    BY <1>1, Zenon
  <2>2. S # {}
    BY <2>1, ThresholdType, FS_EmptySet
  <2> QED
    BY <2>2, Zenon
<1>3. /\ f = "YES" => Available(e, LeaderOf[e][r])
      /\ Reached(e, r)
  BY <1>2, MVBAAssumption DEF IInv, InputInv
<1>4. /\ decision' \in [Epochs -> [Rounds -> Flag \cup {NONE}]]
      /\ \A d \in Epochs, s \in Rounds :
           decision'[d][s] = decision[d][s] \/ (d = e /\ s = r /\ decision'[d][s] = f)
      /\ \A d \in Epochs, s \in Rounds :
           decision[d][s] # NONE => decision'[d][s] = decision[d][s]
  <2>1. decision \in [Epochs -> [Rounds -> Flag \cup {NONE}]]
    BY Zenon DEF IInv, Types
  <2> QED
    BY <1>1, <2>1, Zenon
<1>5. /\ \A d \in Epochs, p \in Node : Available(d, p) => Available(d, p)'
      /\ \A d \in Epochs, s \in Rounds : Reached(d, s) => Reached(d, s)'
  BY <1>1, <1>4, Persist, Zenon
<1>6. \A d \in Epochs, s \in Rounds : LeaderOf[d][s] \in Node
  BY MVBAAssumption
<1>7. Types'
  BY <1>1, <1>4, Zenon DEF IInv, Types
<1>8. DecisionInv'
  <2> SUFFICES ASSUME NEW d \in Epochs, NEW s \in Rounds
               PROVE  /\ decision'[d][s] = "YES" => Available(d, LeaderOf[d][s])
                      /\ decision'[d][s] # NONE => Reached(d, s)
    BY <1>5, <1>6, Zenon DEF DecisionInv
  <2>1. /\ decision[d][s] = "YES" => Available(d, LeaderOf[d][s])
        /\ decision[d][s] # NONE => Reached(d, s)
    BY Zenon DEF IInv, DecisionInv
  <2> QED
    BY <1>3, <1>4, <2>1, Zenon
<1>9. BackInv'
  BY <1>1, <1>5 DEF IInv, Types, BackInv
<1>10. VoteInv' /\ InputInv'
  BY <1>1, <1>5, <1>6 DEF IInv, VoteInv, InputInv
<1> QED
  BY <1>7, <1>8, <1>9, <1>10, Zenon DEF IInv

\* The Commitor of node k commits the block of l in epoch d, or is left alone.
MayCommit(k, d, l) ==
  \/ commitor' = [commitor EXCEPT ![k] = Commit(@, d, l)]
  \/ commitor' = commitor

\* No node has a block of the leader NONE: handleOutput commits the round's leader.
LEMMA HandleOutputCommits ==
  ASSUME IInv, NEW i \in Node, NEW e \in Epochs, NEW r \in Rounds, NEW l \in HaltLeaders(e, r),
         HandleOutput(i, e, r, l)
  PROVE  LeaderOf[e][r] \in Node /\ MayCommit(i, e, LeaderOf[e][r])
<1>1. LeaderOf[e][r] \in Node
  BY MVBAAssumption
<1>2. has[e][i] \subseteq Node
  BY DEF IInv, Types
<1>3. l \in has[e][i] => l = LeaderOf[e][r]
  BY <1>2, CommitteeAssumption, Zenon DEF HaltLeaders
<1> QED
  BY <1>1, <1>3, Zenon DEF HandleOutput, MayCommit

LEMMA HandleOutputStep ==
  ASSUME IInv, NEW i \in Node, NEW e \in Epochs, NEW r \in Rounds, NEW l \in HaltLeaders(e, r),
         HandleOutput(i, e, r, l)
  PROVE  IInv'
<1>1. LeaderOf[e][r] \in Node /\ MayCommit(i, e, LeaderOf[e][r])
  BY HandleOutputCommits, Zenon
<1>2. /\ ended' = [ended EXCEPT ![e][r] = @ \cup {i}]
      /\ AbvanceNextEpoch(i, e + 1, PutBatch(i, e, l))
      /\ UNCHANGED <<has, backs, votes, input, decision>>
  BY Zenon DEF HandleOutput, cbcVars, voteVars
<1>3. commitor' \in [Node -> Commitor]
  BY <1>1, CommitorStep, Zenon DEF MayCommit
<1>4. Epoch' \in [Node -> 0 .. MaxEpoch + 1]
  <2>1. Epoch' = Epoch \/ Epoch' = [Epoch EXCEPT ![i] = e + 1]
    BY <1>2, Zenon DEF AbvanceNextEpoch
  <2>2. e + 1 \in 0 .. MaxEpoch + 1
    BY MVBAAssumption DEF Epochs
  <2> QED
    BY <2>1, <2>2, Zenon DEF IInv, Types
<1>5. Types'
  BY <1>2, <1>3, <1>4, ZenonT(40) DEF IInv, Types
<1>6. /\ \A d \in Epochs, p \in Node : Available(d, p)' = Available(d, p)
      /\ \A d \in Epochs, s \in Rounds : Reached(d, s)' = Reached(d, s)
  BY <1>2, Zenon DEF Available, Reached
<1>7. \A d \in Epochs, s \in Rounds : LeaderOf[d][s] \in Node
  BY MVBAAssumption
<1>8. BackInv'
  BY <1>2, <1>6 DEF IInv, Types, BackInv
<1>9. VoteInv' /\ InputInv' /\ DecisionInv'
  BY <1>2, <1>6, <1>7 DEF IInv, VoteInv, InputInv, DecisionInv
<1> QED
  BY <1>3, <1>5, <1>8, <1>9, Zenon DEF IInv

-----------------------------------------------------------------------------
LEMMA NextIInv == IInv /\ [Next]_vars => IInv'
<1> SUFFICES ASSUME IInv, [Next]_vars PROVE IInv'
  BY Zenon
<1>1. CASE UNCHANGED vars
  <2>1. UNCHANGED outVars
    BY <1>1, Zenon DEF vars, outVars, cbcVars, voteVars, abaVars
  <2> QED
    BY <2>1, Frame, Zenon
<1>2. CASE ABAStep
  BY <1>2, DecideABAStep, Zenon DEF ABAStep
<1>3. ASSUME NEW i \in Correct, NodeStep(i) PROVE IInv'
  <2>1. i \in Node
    BY MVBAAssumption, Zenon
  <2>2. CASE CBCStep(i)
    <3> SUFFICES ASSUME NEW e \in Epochs, NEW j \in Node,
                        \/ HandleProposal(i, e, j) \/ ProcessDataBack(i, e, j)
                        \/ HandleCommitment(i, e, j) \/ ProcessCommitBack(i, e, j)
                 PROVE  IInv'
      BY <2>2, Zenon DEF CBCStep
    <3>1. CASE HandleProposal(i, e, j)
      BY <2>1, <3>1, HandleProposalStep, Zenon
    <3>2. CASE ProcessDataBack(i, e, j)
      BY <2>1, <3>2, ProcessDataBackStep, Zenon
    <3>3. CASE HandleCommitment(i, e, j) \/ ProcessCommitBack(i, e, j)
      <4>1. UNCHANGED outVars
        BY <3>3, Zenon DEF HandleCommitment, ProcessCommitBack, outVars, voteVars, abaVars
      <4> QED
        BY <4>1, Frame, Zenon
    <3> QED
      BY <3>1, <3>2, <3>3, Zenon
  <2>3. CASE VoteStep(i)
    <3>1. ASSUME NEW e \in Epochs, HandleElectShare(i, e) PROVE IInv'
      BY <2>1, <3>1, HandleElectShareStep, Zenon
    <3>2. ASSUME NEW e \in Epochs, NEW r \in Rounds, InvokeABANo(i, e, r) PROVE IInv'
      BY <2>1, <3>2, InvokeABANoStep, Zenon
    <3>3. ASSUME NEW e \in Epochs, NEW r \in Rounds, NEW j \in Node, InvokeABAYes(i, e, r, j)
          PROVE  IInv'
      BY <2>1, <3>3, InvokeABAYesStep, Zenon
    <3>4. ASSUME NEW e \in Epochs, NEW r \in Rounds, NEW j \in Node, RefuseVote(i, e, r, j)
          PROVE  IInv'
      <4>1. UNCHANGED outVars
        BY <3>4, Zenon DEF RefuseVote, outVars, cbcVars, abaVars
      <4> QED
        BY <4>1, Frame, Zenon
    <3> QED
      BY <2>3, <3>1, <3>2, <3>3, <3>4, Zenon DEF VoteStep
  <2>4. CASE EndStep(i)
    BY <2>1, <2>4, ProcessABANoStep, HandleOutputStep, Zenon DEF EndStep
  <2> QED
    BY <1>3, <2>2, <2>3, <2>4, Zenon DEF NodeStep
<1> QED
  BY <1>1, <1>2, <1>3, Zenon DEF Next

LEMMA Invariance == Spec => []IInv
<1> QED
  BY InitIInv, NextIInv, PTL DEF Spec

\* A leader is output only if 2f+1 of the 3f+1 nodes have its block: the
\* YES the ABA of its round halts with goes back to a node whose CBC of the block
\* came back (invokeStageTwo).
THEOREM MVBAOutputIsAvailable == Spec => []OutputIsAvailable
<1>1. IInv => OutputIsAvailable
  BY Zenon DEF IInv, DecisionInv, OutputIsAvailable, Available
<1> QED
  BY <1>1, Invariance, PTL

\* An epoch has one output.
LEMMA OneOutput ==
  ASSUME IInv, NEW e \in Epochs, NEW r \in Rounds, NEW s \in Rounds,
         decision[e][r] = "YES", decision[e][s] = "YES"
  PROVE  r = s
<1>1. Reached(e, r) /\ Reached(e, s)
  BY MVBAAssumption, Zenon DEF IInv, DecisionInv, Flag
<1>2. ~ (r < s) /\ ~ (s < r)
  BY <1>1, Zenon DEF Reached
<1> QED
  BY <1>2 DEF Rounds

\* The steps that change a block a node has, a decision or a Commitor.
LEMMA StepShape ==
  ASSUME [Next]_vars
  PROVE  \/ UNCHANGED <<has, decision, commitor>>
         \/ \E e \in Epochs, r \in Rounds, f \in Flag : DecideABA(e, r, f)
         \/ \E k \in Node, e \in Epochs, p \in Node : HandleProposal(k, e, p)
         \/ \E k \in Node, e \in Epochs, r \in Rounds :
              \E l \in HaltLeaders(e, r) : HandleOutput(k, e, r, l)
<1> DEFINE Same == UNCHANGED <<has, decision, commitor>>
<1>1. CASE UNCHANGED vars
  BY <1>1, Zenon DEF vars, cbcVars, abaVars
<1>2. CASE ABAStep
  BY <1>2, Zenon DEF ABAStep
<1>3. ASSUME NEW k \in Correct, NodeStep(k)
      PROVE  \/ Same
             \/ \E e \in Epochs, p \in Node : HandleProposal(k, e, p)
             \/ \E e \in Epochs, r \in Rounds :
                  \E l \in HaltLeaders(e, r) : HandleOutput(k, e, r, l)
  <2>1. ASSUME NEW e \in Epochs, NEW j \in Node,
               ProcessDataBack(k, e, j) \/ HandleCommitment(k, e, j) \/ ProcessCommitBack(k, e, j)
        PROVE  Same
    BY <2>1, Zenon DEF ProcessDataBack, HandleCommitment, ProcessCommitBack, abaVars
  <2>2. ASSUME NEW e \in Epochs, HandleElectShare(k, e) PROVE Same
    BY <2>2, Zenon DEF HandleElectShare, cbcVars, abaVars
  <2>3. ASSUME NEW e \in Epochs, NEW r \in Rounds, InvokeABANo(k, e, r) PROVE Same
    BY <2>3, Zenon DEF InvokeABANo, cbcVars, abaVars
  <2>4. ASSUME NEW e \in Epochs, NEW r \in Rounds, NEW j \in Node,
               RefuseVote(k, e, r, j) \/ InvokeABAYes(k, e, r, j)
        PROVE  Same
    BY <2>4, Zenon DEF RefuseVote, InvokeABAYes, cbcVars, abaVars
  <2>5. ASSUME NEW e \in Epochs, NEW r \in Rounds, ProcessABANo(k, e, r) PROVE Same
    BY <2>5, Zenon DEF ProcessABANo, cbcVars
  <2> HIDE DEF Same
  <2> QED
    BY <1>3, <2>1, <2>2, <2>3, <2>4, <2>5, Zenon DEF NodeStep, CBCStep, VoteStep, EndStep
<1> HIDE DEF Same
<1> QED
  BY <1>1, <1>2, <1>3, MVBAAssumption, Zenon DEF Next, Same

-----------------------------------------------------------------------------
(* An epoch as a single choice.  The Commitor holds a block of an epoch    *)
(* only together with its leader, and only of the leader accepted.         *)

ChoiceInv ==
  \A e \in Epochs, i \in Node :
    /\ commitor[i].blocks[e] = commitor[i].leaders[e]
    /\ commitor[i].blocks[e] \in {NONE, Winner(e)}

\* The leader accepted is the one that the epoch outputs.
WinnerInv ==
  \A e \in Epochs, r \in Rounds : decision[e][r] = "YES" => Winner(e) = LeaderOf[e][r]

LEMMA OneWinner == IInv => WinnerInv
<1> SUFFICES ASSUME IInv, NEW e \in Epochs, NEW r \in Rounds, decision[e][r] = "YES"
             PROVE  Winner(e) = LeaderOf[e][r]
  BY Zenon DEF WinnerInv
<1>1. \A s \in Rounds : decision[e][s] = "YES" => s = r
  BY OneOutput, Zenon
<1>2. (CHOOSE s \in Rounds : decision[e][s] = "YES") = r
  BY <1>1, Zenon
<1> QED
  BY <1>2, Zenon DEF Winner

\* What Commit writes.
LEMMA CommitFields ==
  ASSUME NEW c \in Commitor, NEW e \in Epochs, NEW l \in Node
  PROVE  \/ Commit(c, e, l) = c
         \/ /\ Commit(c, e, l).blocks = [c.blocks EXCEPT ![e] = l]
            /\ Commit(c, e, l).leaders = [c.leaders EXCEPT ![e] = l]
BY DEF Commit

\* No entry changes but those of node k in epoch d, which become l.
EntriesStep(k, d, l) ==
  \A e \in Epochs, i \in Node :
    \/ /\ commitor'[i].blocks[e] = commitor[i].blocks[e]
       /\ commitor'[i].leaders[e] = commitor[i].leaders[e]
    \/ /\ e = d /\ i = k
       /\ commitor'[i].blocks[e] = l /\ commitor'[i].leaders[e] = l

LEMMA CommitorEntries ==
  ASSUME IInv, NEW k \in Node, NEW d \in Epochs, NEW l \in Node, MayCommit(k, d, l)
  PROVE  EntriesStep(k, d, l)
<1>1. /\ commitor \in [Node -> Commitor]
      /\ commitor[k] \in Commitor
      /\ commitor[k].blocks \in [Epochs -> Node \cup {NONE}]
      /\ commitor[k].leaders \in [Epochs -> Node \cup {NONE}]
  BY DEF IInv, Types, Commitor
<1>2. CASE commitor' = commitor
  BY <1>2, Zenon DEF EntriesStep
<1>3. CASE commitor' = [commitor EXCEPT ![k] = Commit(@, d, l)]
  <2> DEFINE c == Commit(commitor[k], d, l)
  <2>1. \/ c = commitor[k]
        \/ /\ c.blocks = [commitor[k].blocks EXCEPT ![d] = l]
           /\ c.leaders = [commitor[k].leaders EXCEPT ![d] = l]
    <3>1. commitor[k] \in Commitor
      BY <1>1, Zenon
    <3> QED
      BY <3>1, CommitFields
  <2>2. commitor' = [commitor EXCEPT ![k] = c]
    BY <1>3, Zenon
  <2> HIDE DEF c
  <2>3. \A i \in Node : commitor'[i] = IF i = k THEN c ELSE commitor[i]
    BY <1>1, <2>2, Zenon
  <2>4. \A e \in Epochs : \/ c.blocks[e] = commitor[k].blocks[e]
                             /\ c.leaders[e] = commitor[k].leaders[e]
                          \/ e = d /\ c.blocks[e] = l /\ c.leaders[e] = l
    BY <1>1, <2>1, Zenon
  <2> QED
    BY <2>3, <2>4, Zenon DEF EntriesStep
<1> QED
  BY <1>2, <1>3, Zenon DEF MayCommit

\* The winner depends on the decisions of its epoch only.
LEMMA SameWinner ==
  ASSUME NEW e, decision'[e] = decision[e]
  PROVE  Winner(e)' = Winner(e)
BY DEF Winner

\* A step that changes nothing but the decision, the block or the availability
\* of one block in one epoch.
ConStep(e) == Con(e)!Next \/ UNCHANGED Con(e)!conVars

\* handleProposal makes a block available to one node more; what it commits was
\* committed before.
LEMMA HandleProposalChoice ==
  ASSUME IInv, ChoiceInv, NEW k \in Node, NEW d \in Epochs, NEW p \in Node,
         HandleProposal(k, d, p)
  PROVE  ChoiceInv' /\ \A e \in Epochs : ConStep(e)
<1>1. /\ has' = [has EXCEPT ![d][k] = @ \cup {p}]
      /\ UNCHANGED decision
      /\ commitor' = IF commitor[k].leaders[d] = p
                     THEN [commitor EXCEPT ![k] = Commit(@, d, p)] ELSE commitor
  BY Zenon DEF HandleProposal, abaVars
<1>2. \A e \in Epochs : Winner(e)' = Winner(e)
  BY <1>1, SameWinner, Zenon
<1>3. \A e \in Epochs, i \in Node : /\ commitor'[i].blocks[e] = commitor[i].blocks[e]
                                    /\ commitor'[i].leaders[e] = commitor[i].leaders[e]
  <2>1. CASE commitor[k].leaders[d] = p
    <3>1. commitor' = [commitor EXCEPT ![k] = Commit(@, d, p)]
      BY <1>1, <2>1, Zenon
    <3>2. commitor[k].blocks[d] = p
      BY <2>1, Zenon DEF ChoiceInv
    <3>3. EntriesStep(k, d, p)
      BY <3>1, CommitorEntries, ZenonT(40) DEF MayCommit
    <3> QED
      BY <2>1, <3>2, <3>3, Zenon DEF EntriesStep
  <2>2. CASE commitor[k].leaders[d] # p
    BY <1>1, <2>2, Zenon
  <2> QED
    BY <2>1, <2>2, Zenon
<1>4. ChoiceInv'
  <2> SUFFICES ASSUME NEW e \in Epochs, NEW i \in Node
               PROVE  /\ commitor'[i].blocks[e] = commitor'[i].leaders[e]
                      /\ commitor'[i].blocks[e] \in {NONE, Winner(e)'}
    BY Zenon DEF ChoiceInv
  <2>1. /\ commitor[i].blocks[e] = commitor[i].leaders[e]
        /\ commitor[i].blocks[e] \in {NONE, Winner(e)}
    BY Zenon DEF ChoiceInv
  <2>2. Winner(e)' = Winner(e)
    BY <1>2, Zenon
  <2> QED
    BY <1>3, <2>1, <2>2, Zenon
<1>5. ASSUME NEW e \in Epochs PROVE ConStep(e)
  <2>1. Supported(e) \subseteq Supported(e)' /\ Supported(e)' \subseteq Node
    <3>1. \A b \in Epochs, j \in Node : has[b][j] \subseteq has'[b][j]
      BY <1>1 DEF IInv, Types
    <3>2. \A q \in Node : Available(e, q) => Available(e, q)'
      BY <1>1, <3>1, Persist, Zenon
    <3> QED
      BY <3>2, Zenon DEF Supported, Available
  <2>2. Outputs(e)' = Outputs(e)
    BY <1>3, Zenon DEF Outputs
  <2>3. Con(e)!Support
    BY <1>2, <2>1, <2>2, Zenon DEF Con!Support
  <2> QED
    BY <2>3, Zenon DEF ConStep, Con!Next
<1> QED
  BY <1>4, <1>5, Zenon

\* An ABA that halts with YES chooses an available leader, the first one of the
\* epoch.
LEMMA DecideABAChoice ==
  ASSUME IInv, IInv', ChoiceInv, WinnerInv, WinnerInv',
         NEW d \in Epochs, NEW r \in Rounds, NEW f \in Flag, DecideABA(d, r, f)
  PROVE  ChoiceInv' /\ \A e \in Epochs : ConStep(e)
<1>1. /\ decision[d][r] = NONE
      /\ decision' = [decision EXCEPT ![d][r] = f]
      /\ UNCHANGED <<has, commitor>>
  BY Zenon DEF DecideABA, cbcVars
<1>2. /\ \A e \in Epochs : e # d => decision'[e] = decision[e]
      /\ decision'[d] = [decision[d] EXCEPT ![r] = f]
      /\ decision'[d][r] = f
      /\ \A s \in Rounds : s # r => decision'[d][s] = decision[d][s]
  BY <1>1 DEF IInv, Types
<1>3. NONE # "YES"
  BY MVBAAssumption, ZenonT(40) DEF Flag
<1>4. /\ \A e \in Epochs : Supported(e)' = Supported(e) /\ Outputs(e)' = Outputs(e)
  BY <1>1, Zenon DEF Supported, Outputs, IsQuorum
<1>5. ASSUME NEW e \in Epochs, Winner(e)' = Winner(e) PROVE ConStep(e)
  BY <1>4, <1>5, Zenon DEF ConStep, Con!conVars
<1>6. ASSUME NEW e \in Epochs, e # d PROVE Winner(e)' = Winner(e)
  BY <1>2, <1>6, SameWinner, Zenon
<1>7. CASE \E s \in Rounds : decision[d][s] = "YES"
  <2>1. PICK s \in Rounds : decision[d][s] = "YES"
    BY <1>7, Zenon
  <2>2. decision'[d][s] = "YES"
    BY <1>1, <1>2, <1>3, <2>1, Zenon
  <2>3. Winner(d) = LeaderOf[d][s] /\ Winner(d)' = LeaderOf[d][s]
    BY <2>1, <2>2, Zenon DEF WinnerInv
  <2>4. \A e \in Epochs : Winner(e)' = Winner(e)
    BY <1>6, <2>3, Zenon
  <2> QED
    BY <1>1, <1>5, <2>4, Zenon DEF ChoiceInv
<1>8. CASE ~ \E s \in Rounds : decision[d][s] = "YES"
  <2>1. Winner(d) = NONE
    BY <1>8, Zenon DEF Winner
  <2>2. ChoiceInv'
    BY <1>1, <1>6, <2>1, Zenon DEF ChoiceInv
  <2>3. CASE f # "YES"
    <3>1. ~ \E s \in Rounds : decision'[d][s] = "YES"
      BY <1>2, <1>8, <2>3, Zenon
    <3>2. Winner(d)' = NONE
      BY <3>1, Zenon DEF Winner
    <3> QED
      BY <1>5, <1>6, <2>1, <2>2, <3>2, Zenon
  <2>4. CASE f = "YES"
    <3>1. decision'[d][r] = "YES"
      BY <1>2, <2>4, Zenon
    <3>2. Winner(d)' = LeaderOf[d][r] /\ LeaderOf[d][r] \in Node
      <4>1. Winner(d)' = LeaderOf[d][r]
        BY <3>1, Zenon DEF WinnerInv
      <4>2. LeaderOf[d][r] \in Node
        BY MVBAAssumption
      <4> QED
        BY <4>1, <4>2, Zenon
    <3>3. LeaderOf[d][r] \in Supported(d)'
      BY <3>1, <3>2, Zenon DEF IInv, DecisionInv, Available, Supported
    <3>4. Con(d)!Choose(LeaderOf[d][r])
      BY <1>4, <2>1, <3>2, <3>3, Zenon DEF Con!Choose
    <3>5. ConStep(d)
      BY <3>2, <3>4, Zenon DEF ConStep, Con!Next
    <3> QED
      BY <1>5, <1>6, <2>2, <3>5, Zenon
  <2> QED
    BY <2>3, <2>4, Zenon
<1> QED
  BY <1>7, <1>8, Zenon

\* handleOutput commits the block of the leader accepted.
LEMMA HandleOutputChoice ==
  ASSUME IInv, ChoiceInv, WinnerInv, NEW k \in Node, NEW d \in Epochs, NEW r \in Rounds,
         NEW m \in HaltLeaders(d, r), HandleOutput(k, d, r, m)
  PROVE  ChoiceInv' /\ \A e \in Epochs : ConStep(e)
<1> DEFINE l == LeaderOf[d][r]
<1>1. /\ decision[d][r] = "YES"
      /\ UNCHANGED <<has, decision>>
      /\ MayCommit(k, d, l)
  BY HandleOutputCommits, Zenon DEF HandleOutput, cbcVars
<1>2. l \in Node /\ l # NONE /\ Winner(d) = l
  <2>1. Winner(d) = l
    BY <1>1, Zenon DEF WinnerInv
  <2>2. l \in Node
    BY MVBAAssumption
  <2> QED
    BY <2>1, <2>2, CommitteeAssumption, ZenonT(40)
<1>3. \A e \in Epochs : Winner(e)' = Winner(e)
  BY <1>1, SameWinner, Zenon
<1> HIDE DEF l
<1>4. EntriesStep(k, d, l)
  BY <1>1, <1>2, CommitorEntries, Zenon
<1>5. ChoiceInv'
  <2> SUFFICES ASSUME NEW e \in Epochs, NEW i \in Node
               PROVE  /\ commitor'[i].blocks[e] = commitor'[i].leaders[e]
                      /\ commitor'[i].blocks[e] \in {NONE, Winner(e)'}
    BY Zenon DEF ChoiceInv
  <2>1. /\ commitor[i].blocks[e] = commitor[i].leaders[e]
        /\ commitor[i].blocks[e] \in {NONE, Winner(e)}
    BY Zenon DEF ChoiceInv
  <2>2. Winner(e)' = Winner(e)
    BY <1>3, Zenon
  <2>3. \/ /\ commitor'[i].blocks[e] = commitor[i].blocks[e]
           /\ commitor'[i].leaders[e] = commitor[i].leaders[e]
        \/ e = d /\ commitor'[i].blocks[e] = l /\ commitor'[i].leaders[e] = l
    BY <1>4, Zenon DEF EntriesStep
  <2> QED
    BY <1>2, <2>1, <2>2, <2>3, ZenonT(40)
<1>6. \A e \in Epochs : Supported(e)' = Supported(e)
  BY <1>1, Zenon DEF Supported, IsQuorum
<1>7. ASSUME NEW e \in Epochs, Outputs(e)' = Outputs(e) PROVE ConStep(e)
  BY <1>3, <1>6, <1>7, Zenon DEF ConStep, Con!conVars
<1>8. ASSUME NEW e \in Epochs, Outputs(e)' # Outputs(e) PROVE ConStep(e)
  <2>1. /\ e = d
        /\ \A i \in Node : i # k => commitor'[i].blocks[e] = commitor[i].blocks[e]
        /\ commitor'[k].blocks[e] = l
        /\ commitor[k].blocks[e] # l
    <3>1. PICK i \in Node : commitor'[i].blocks[e] # commitor[i].blocks[e]
      BY <1>8, Zenon DEF Outputs
    <3> QED
      BY <1>4, <3>1, Zenon DEF EntriesStep
  <2>2. commitor[k].blocks[e] = NONE
    BY <1>2, <2>1, Zenon DEF ChoiceInv
  <2>3. Outputs(e)' = [Outputs(e) EXCEPT ![k] = l]
    BY <2>1, Zenon DEF Outputs
  <2>4. Outputs(e)[k] = NONE
    BY <2>2, Zenon DEF Outputs
  <2>5. Con(e)!Output(k)
    BY <1>2, <1>3, <1>6, <2>1, <2>3, <2>4, Zenon DEF Con!Output
  <2> QED
    BY <2>5, Zenon DEF ConStep, Con!Next
<1> QED
  BY <1>5, <1>7, <1>8, Zenon

LEMMA ChoiceStep ==
  ASSUME IInv, IInv', ChoiceInv, WinnerInv, WinnerInv', [Next]_vars
  PROVE  ChoiceInv' /\ \A e \in Epochs : ConStep(e)
<1>1. ASSUME UNCHANGED <<has, decision, commitor>>
      PROVE  ChoiceInv' /\ \A e \in Epochs : ConStep(e)
  <2>1. \A e \in Epochs : Winner(e)' = Winner(e)
    BY <1>1, SameWinner, Zenon
  <2>2. \A e \in Epochs : Supported(e)' = Supported(e) /\ Outputs(e)' = Outputs(e)
    BY <1>1, Zenon DEF Supported, Outputs, IsQuorum
  <2> QED
    BY <1>1, <2>1, <2>2, Zenon DEF ChoiceInv, ConStep, Con!conVars
<1> QED
  BY <1>1, StepShape, HandleProposalChoice, DecideABAChoice, HandleOutputChoice, Zenon

\* In every epoch, for every committee of 3f+1, shuffle and number of rounds, the nodes
\* take the steps of one agreement on a block that 2f+1 nodes have.  So two nodes
\* never output different blocks of an epoch, whatever round a leader was
\* accepted in, and no Commitor replaces what it holds.
THEOREM MVBAConsensusSteps ==
  Spec => (\A e \in Epochs : Con(e)!Init) /\ ConsensusSteps
<1>1. Init => ChoiceInv /\ \A e \in Epochs : Con(e)!Init
  <2> SUFFICES ASSUME Init, NEW e \in Epochs
               PROVE  /\ Con(e)!Init
                      /\ \A i \in Node : commitor[i].blocks[e] = NONE /\ commitor[i].leaders[e] = NONE
    BY Zenon DEF ChoiceInv
  <2>1. \A i \in Node : commitor[i].blocks[e] = NONE /\ commitor[i].leaders[e] = NONE
    BY DEF Init
  <2>2. Outputs(e) = [i \in Node |-> NONE]
    BY <2>1, Zenon DEF Outputs
  <2>3. \A r \in Rounds : decision[e][r] # "YES"
    BY MVBAAssumption, Zenon DEF Init, Flag
  <2>4. Winner(e) = NONE
    BY <2>3, Zenon DEF Winner
  <2> QED
    BY <2>1, <2>2, <2>4, Zenon DEF Con!Init, Supported
<1>2. IInv /\ ChoiceInv /\ WinnerInv /\ IInv' /\ WinnerInv' /\ [Next]_vars =>
        ChoiceInv' /\ [\A e \in Epochs : Con(e)!Next \/ UNCHANGED Con(e)!conVars]_vars
  BY ChoiceStep, Zenon DEF ConStep
<1> QED
  BY <1>1, <1>2, Invariance, OneWinner, PTL DEF Spec, ConsensusSteps

-----------------------------------------------------------------------------
(***************************************************************************)
(* How many leaders an epoch can reject.  Before the first vote of an      *)
(* epoch 2f+1 nodes have 2f+1 blocks each that came back (Prepared), and   *)
(* no such node ever votes NO on a leader among those blocks (Kept).  So   *)
(* each rejected leader is missed by 2*(2f+1) - Size of these nodes, and   *)
(* each of them misses Size - 2f-1 leaders at most.                        *)
(***************************************************************************)
RestTypes ==
  /\ proposal \in [Epochs -> [Node -> Nat]]
  /\ queue \in [Node -> Seq(Nat \ {0})]
  /\ bcnt \in [Node -> Nat]
  /\ com \in [Epochs -> [Node -> [Node -> (SUBSET Node) \cup {NONE}]]]
  /\ comBacks \in [Epochs -> [Node -> SUBSET Node]]
  /\ elected \in [Epochs -> SUBSET Node]
  /\ refused \in [Epochs -> [Rounds -> [Node -> SUBSET Node]]]
  /\ panicked \subseteq Node

HasInv == \A e \in Epochs, i \in Node : \A p \in has[e][i] : proposal[e][p] # 0

\* 2f+1 nodes may send their Commitment of epoch e.
Prepared(e) == IsQuorum({j \in Node : IsQuorum(backs[e][j])})

\* The same of every epoch before e, and of every epoch up to e.
Before(e) == \A d \in Epochs : d < e => Prepared(d)
UpTo(e) == \A d \in Epochs : d <= e => Prepared(d)

\* A block is proposed in an epoch only when those before were prepared, and
\* nobody has a Commitment of a node that may not have sent it.
StartInv ==
  \A e \in Epochs, i \in Node :
    /\ proposal[e][i] # 0 => Before(e)
    /\ backs[e][i] \subseteq has[e][i]
    /\ \A j \in Node : com[e][i][j] # NONE => IsQuorum(backs[e][j])
    /\ \A j \in comBacks[e][i] : com[e][i][j] # NONE

Voted(e) == \E r \in Rounds, i \in Node : votes[e][r][i] # {}

\* Node j voted NO in round r, with the leader or without one.
Nay == {"NO", "LOST"}
SaysNo(e, r, j) == \E f \in Nay : f \in votes[e][r][j]

\* The leaders of epoch e that node j voted NO on.
Rejects(e, j) == {LeaderOf[e][r] : r \in {s \in Rounds : SaysNo(e, s, j)}}

\* The blocks that came back to node j, without those of leaders it voted NO on.
Kept(e, j) == backs[e][j] \ Rejects(e, j)

Frozen(e) == IsQuorum({j \in Node : IsQuorum(Kept(e, j))})

FreezeInv == \A e \in Epochs : Voted(e) => UpTo(e) /\ Frozen(e)

\* 2f+1 nodes voted NO in round r.
Rejected(e, r) == IsQuorum({j \in Node : SaysNo(e, r, j)})

NoInv ==
  \A e \in Epochs, r \in Rounds :
    /\ \A i \in Node : input[e][r][i] # NONE => Voted(e)
    /\ \A i \in Node : input[e][r][i] = "NO" => Rejected(e, r)
    /\ decision[e][r] # NONE => Voted(e)
    /\ decision[e][r] = "NO" => Rejected(e, r)

RInv == RestTypes /\ HasInv /\ StartInv /\ FreezeInv /\ NoInv

LEMMA InitRInv == Init => RInv
<1> SUFFICES ASSUME Init PROVE RInv
  BY Zenon
<1>1. RestTypes
  <2>1. <<>> \in Seq(Nat \ {0})
    OBVIOUS
  <2>2. queue \in [Node -> Seq(Nat \ {0})]
    BY <2>1, Zenon DEF Init
  <2>3. /\ proposal \in [Epochs -> [Node -> Nat]]
        /\ bcnt \in [Node -> Nat]
        /\ com \in [Epochs -> [Node -> [Node -> (SUBSET Node) \cup {NONE}]]]
    BY Zenon DEF Init
  <2>4. /\ comBacks \in [Epochs -> [Node -> SUBSET Node]]
        /\ elected \in [Epochs -> SUBSET Node]
        /\ refused \in [Epochs -> [Rounds -> [Node -> SUBSET Node]]]
        /\ panicked \subseteq Node
    BY Zenon DEF Init
  <2> QED
    BY <2>2, <2>3, <2>4, Zenon DEF RestTypes
<1>2. HasInv
  BY Zenon DEF Init, HasInv
<1>3. StartInv
  <2>1. 0 \in Epochs => Before(0)
    BY MVBAAssumption DEF Before, Epochs
  <2>2. \A e \in Epochs, i \in Node : proposal[e][i] # 0 => Before(e)
    BY <2>1, Zenon DEF Init
  <2> QED
    BY <2>2, Zenon DEF Init, StartInv
<1>4. FreezeInv
  BY Zenon DEF Init, FreezeInv, Voted
<1>5. NoInv
  BY MVBAAssumption, Zenon DEF Init, NoInv, Flag
<1> QED
  BY <1>1, <1>2, <1>3, <1>4, <1>5, Zenon DEF RInv

\* Blocks only come back: a prepared epoch stays prepared.
LEMMA PreparedStays ==
  ASSUME backs' \in [Epochs -> [Node -> SUBSET Node]],
         \A d \in Epochs, j \in Node : backs[d][j] \subseteq backs'[d][j]
  PROVE  /\ \A d \in Epochs, j \in Node : IsQuorum(backs[d][j]) => IsQuorum(backs'[d][j])
         /\ \A d \in Epochs : Prepared(d) => Prepared(d)'
         /\ \A d \in Epochs : Before(d) => Before(d)'
         /\ \A d \in Epochs : UpTo(d) => UpTo(d)'
<1>1. ASSUME NEW d \in Epochs, NEW j \in Node, IsQuorum(backs[d][j])
      PROVE  IsQuorum(backs'[d][j])
  <2>1. backs'[d][j] \in SUBSET Node /\ backs[d][j] \subseteq backs'[d][j]
    OBVIOUS
  <2> QED
    BY <1>1, <2>1, QuorumGrows, Zenon
<1>2. ASSUME NEW d \in Epochs, Prepared(d) PROVE Prepared(d)'
  <2> DEFINE S == {j \in Node : IsQuorum(backs[d][j])}
             T == {j \in Node : IsQuorum(backs'[d][j])}
  <2>1. S \in SUBSET Node /\ T \in SUBSET Node /\ S \subseteq T
    BY <1>1, Zenon
  <2>2. IsQuorum(S)
    BY <1>2, Zenon DEF Prepared
  <2> HIDE DEF S, T
  <2>3. IsQuorum(T)
    BY <2>1, <2>2, QuorumGrows, Zenon
  <2> QED
    BY <2>3, Zenon DEF T, Prepared, IsQuorum
<1> QED
  BY <1>1, <1>2, Zenon DEF Before, UpTo

\* The leaders a node votes NO on are not among its blocks: the kept ones stay.
LEMMA FreezeStays ==
  ASSUME backs' \in [Epochs -> [Node -> SUBSET Node]],
         \A d \in Epochs, j \in Node : Kept(d, j) \subseteq Kept(d, j)'
  PROVE  \A d \in Epochs : Frozen(d) => Frozen(d)'
<1> SUFFICES ASSUME NEW d \in Epochs, Frozen(d) PROVE Frozen(d)'
  BY Zenon
<1> DEFINE S == {j \in Node : IsQuorum(Kept(d, j))}
           T == {j \in Node : IsQuorum(Kept(d, j)')}
<1>1. ASSUME NEW j \in Node, IsQuorum(Kept(d, j)) PROVE IsQuorum(Kept(d, j)')
  <2>1. Kept(d, j)' \in SUBSET Node
    BY Zenon DEF Kept
  <2>2. Kept(d, j) \subseteq Kept(d, j)'
    BY Zenon
  <2> QED
    BY <1>1, <2>1, <2>2, QuorumGrows, Zenon
<1>2. S \in SUBSET Node /\ T \in SUBSET Node /\ S \subseteq T
  BY <1>1, Zenon
<1>3. IsQuorum(S)
  BY Zenon DEF Frozen
<1> HIDE DEF S, T
<1>4. IsQuorum(T)
  BY <1>2, <1>3, QuorumGrows, Zenon
<1> QED
  BY <1>4, Zenon DEF T, Frozen, IsQuorum

\* A quorum has a member.
LEMMA SomeMember ==
  ASSUME NEW S \in SUBSET Node, IsQuorum(S)
  PROVE  \E j \in Node : j \in S
<1>1. S \in Quorums
  BY Zenon DEF IsQuorum, Quorums
<1> QED
  BY <1>1, QuorumNotEmpty, Zenon

-----------------------------------------------------------------------------
\* A step that changes none of the variables of these invariants.
LEMMA RestFrame ==
  ASSUME RInv, UNCHANGED <<proposal, has, backs, com, comBacks, votes, input, decision>>
  PROVE  HasInv' /\ StartInv' /\ FreezeInv' /\ NoInv'
<1>1. HasInv'
  BY Zenon DEF RInv, HasInv
<1>2. /\ \A e \in Epochs : Before(e)' = Before(e)
      /\ \A e \in Epochs : UpTo(e)' = UpTo(e)
      /\ \A e \in Epochs, j \in Node : IsQuorum(backs[e][j])' = IsQuorum(backs[e][j])
  BY Zenon DEF Before, UpTo, Prepared, IsQuorum
<1>3. /\ \A e \in Epochs : Voted(e)' = Voted(e)
      /\ \A e \in Epochs : Frozen(e)' = Frozen(e)
      /\ \A e \in Epochs, r \in Rounds : Rejected(e, r)' = Rejected(e, r)
  BY Zenon DEF Voted, Frozen, Kept, Rejects, Rejected, SaysNo, IsQuorum
<1>4. StartInv'
  BY <1>2, Zenon DEF RInv, StartInv
<1>5. FreezeInv'
  BY <1>2, <1>3, Zenon DEF RInv, FreezeInv
<1>6. NoInv'
  BY <1>3, Zenon DEF RInv, NoInv
<1> QED
  BY <1>1, <1>4, <1>5, <1>6, Zenon

\* Votes, inputs and decisions stay: nothing about the rounds changes.
LEMMA RoundFrame ==
  ASSUME RInv, UNCHANGED <<votes, input, decision>>,
         backs' \in [Epochs -> [Node -> SUBSET Node]],
         \A d \in Epochs, j \in Node : backs[d][j] \subseteq backs'[d][j]
  PROVE  FreezeInv' /\ NoInv'
<1>1. \A e \in Epochs : Voted(e)' = Voted(e)
  BY Zenon DEF Voted
<1>2. \A e \in Epochs, r \in Rounds : Rejected(e, r)' = Rejected(e, r)
  BY Zenon DEF Rejected, SaysNo, IsQuorum
<1>3. \A e \in Epochs, j \in Node : Rejects(e, j)' = Rejects(e, j)
  BY Zenon DEF Rejects, SaysNo
<1>4. \A e \in Epochs, j \in Node : Kept(e, j) \subseteq Kept(e, j)'
  BY <1>3, Zenon DEF Kept
<1>5. \A e \in Epochs : (UpTo(e) => UpTo(e)') /\ (Frozen(e) => Frozen(e)')
  BY <1>4, PreparedStays, FreezeStays, Zenon
<1>6. FreezeInv'
  BY <1>1, <1>5, Zenon DEF RInv, FreezeInv
<1>7. NoInv'
  BY <1>1, <1>2, Zenon DEF RInv, NoInv
<1> QED
  BY <1>6, <1>7, Zenon

LEMMA HandleProposalRest ==
  ASSUME IInv, RInv, NEW i \in Node, NEW e \in Epochs, NEW p \in Node, HandleProposal(i, e, p)
  PROVE  RInv'
<1>1. /\ proposal[e][p] # 0
      /\ has' = [has EXCEPT ![e][i] = @ \cup {p}]
      /\ UNCHANGED <<proposal, queue, bcnt, backs, com, comBacks, elected, votes, refused, input,
                     decision, panicked>>
  BY Zenon DEF HandleProposal, batchVars, voteVars, abaVars
<1>2. has \in [Epochs -> [Node -> SUBSET Node]] /\ backs \in [Epochs -> [Node -> SUBSET Node]]
  BY Zenon DEF IInv, Types
<1>3. RestTypes'
  BY <1>1, Zenon DEF RInv, RestTypes
<1>4. \A d \in Epochs, j \in Node :
        /\ has[d][j] \subseteq has'[d][j]
        /\ \A q \in has'[d][j] : q \in has[d][j] \/ (d = e /\ q = p)
  BY <1>1, <1>2, Zenon
<1>5. HasInv'
  BY <1>1, <1>4, Zenon DEF RInv, HasInv
<1>6. StartInv'
  <2>1. /\ \A d \in Epochs : Before(d)' = Before(d)
        /\ \A d \in Epochs, j \in Node : IsQuorum(backs[d][j])' = IsQuorum(backs[d][j])
    BY <1>1, Zenon DEF Before, Prepared, IsQuorum
  <2> QED
    BY <1>1, <1>4, <2>1, Zenon DEF RInv, StartInv
<1>7. FreezeInv' /\ NoInv'
  BY <1>1, <1>2, RoundFrame, Zenon
<1> QED
  BY <1>3, <1>5, <1>6, <1>7, Zenon DEF RInv

LEMMA ProcessDataBackRest ==
  ASSUME IInv, RInv, NEW i \in Node, NEW e \in Epochs, NEW p \in Node, ProcessDataBack(i, e, p)
  PROVE  RInv'
<1>1. /\ p \in has[e][i]
      /\ backs' = [backs EXCEPT ![e][i] = @ \cup {p}]
      /\ UNCHANGED <<proposal, queue, bcnt, has, com, comBacks, elected, votes, refused, input,
                     decision, panicked>>
  BY Zenon DEF ProcessDataBack, batchVars, voteVars, abaVars
<1>2. backs \in [Epochs -> [Node -> SUBSET Node]]
  BY Zenon DEF IInv, Types
<1>3. /\ backs' \in [Epochs -> [Node -> SUBSET Node]]
      /\ \A d \in Epochs, j \in Node : backs[d][j] \subseteq backs'[d][j]
      /\ \A d \in Epochs, j \in Node : \A q \in backs'[d][j] :
           q \in backs[d][j] \/ (d = e /\ j = i /\ q = p)
  BY <1>1, <1>2, Zenon
<1>4. RestTypes'
  BY <1>1, Zenon DEF RInv, RestTypes
<1>5. HasInv'
  BY <1>1, Zenon DEF RInv, HasInv
<1>6. /\ \A d \in Epochs : Before(d) => Before(d)'
      /\ \A d \in Epochs, j \in Node : IsQuorum(backs[d][j]) => IsQuorum(backs'[d][j])
  BY <1>3, PreparedStays, Zenon
<1>7. StartInv'
  <2> SUFFICES ASSUME NEW d \in Epochs, NEW k \in Node
               PROVE  /\ proposal[d][k] # 0 => Before(d)'
                      /\ backs'[d][k] \subseteq has[d][k]
                      /\ \A j \in Node : com[d][k][j] # NONE => IsQuorum(backs'[d][j])
                      /\ \A j \in comBacks[d][k] : com[d][k][j] # NONE
    BY <1>1, Zenon DEF StartInv, IsQuorum
  <2>1. /\ proposal[d][k] # 0 => Before(d)
        /\ backs[d][k] \subseteq has[d][k]
        /\ \A j \in Node : com[d][k][j] # NONE => IsQuorum(backs[d][j])
        /\ \A j \in comBacks[d][k] : com[d][k][j] # NONE
    BY Zenon DEF RInv, StartInv
  <2> QED
    BY <1>1, <1>3, <1>6, <2>1, Zenon
<1>8. FreezeInv' /\ NoInv'
  BY <1>1, <1>3, RoundFrame, Zenon
<1> QED
  BY <1>4, <1>5, <1>7, <1>8, Zenon DEF RInv

LEMMA HandleCommitmentRest ==
  ASSUME IInv, RInv, NEW i \in Node, NEW e \in Epochs, NEW k \in Node, HandleCommitment(i, e, k)
  PROVE  RInv'
<1>1. /\ IsQuorum(backs[e][k])
      /\ com[e][i][k] = NONE
      /\ com' = [com EXCEPT ![e][i][k] = backs[e][k]]
      /\ UNCHANGED <<proposal, queue, bcnt, has, backs, comBacks, elected, votes, refused, input,
                     decision, panicked>>
  BY Zenon DEF HandleCommitment, SendsCommitment, batchVars, voteVars, abaVars
<1>2. /\ backs \in [Epochs -> [Node -> SUBSET Node]]
      /\ com \in [Epochs -> [Node -> [Node -> (SUBSET Node) \cup {NONE}]]]
  BY Zenon DEF IInv, Types, RInv, RestTypes
<1>3. /\ com' \in [Epochs -> [Node -> [Node -> (SUBSET Node) \cup {NONE}]]]
      /\ \A d \in Epochs, l, j \in Node :
           com'[d][l][j] = com[d][l][j] \/ (d = e /\ l = i /\ j = k)
  BY <1>1, <1>2
<1>4. RestTypes'
  BY <1>1, <1>3, Zenon DEF RInv, RestTypes
<1>5. HasInv'
  BY <1>1, Zenon DEF RInv, HasInv
<1>6. /\ \A d \in Epochs : Before(d)' = Before(d)
      /\ \A d \in Epochs, j \in Node : IsQuorum(backs[d][j])' = IsQuorum(backs[d][j])
  BY <1>1, ZenonT(40) DEF Before, Prepared, IsQuorum
<1>7. StartInv'
  <2> SUFFICES ASSUME NEW d \in Epochs, NEW l \in Node
               PROVE  /\ proposal[d][l] # 0 => Before(d)
                      /\ backs[d][l] \subseteq has[d][l]
                      /\ \A j \in Node : com'[d][l][j] # NONE => IsQuorum(backs[d][j])
                      /\ \A j \in comBacks[d][l] : com'[d][l][j] # NONE
    BY <1>1, <1>6, Zenon DEF StartInv
  <2>1. /\ proposal[d][l] # 0 => Before(d)
        /\ backs[d][l] \subseteq has[d][l]
        /\ \A j \in Node : com[d][l][j] # NONE => IsQuorum(backs[d][j])
        /\ \A j \in comBacks[d][l] : com[d][l][j] # NONE
    BY Zenon DEF RInv, StartInv
  <2>2. comBacks[d][l] \subseteq Node
    BY DEF RInv, RestTypes
  <2>3. ASSUME NEW j \in comBacks[d][l] PROVE com'[d][l][j] # NONE
    BY <1>1, <1>3, <2>1, <2>2, ZenonT(40)
  <2> QED
    BY <1>1, <1>3, <2>1, <2>3
<1>8. FreezeInv' /\ NoInv'
  BY <1>1, <1>2, RoundFrame, Zenon
<1> QED
  BY <1>4, <1>5, <1>7, <1>8, Zenon DEF RInv

LEMMA ProcessCommitBackRest ==
  ASSUME IInv, RInv, NEW i \in Node, NEW e \in Epochs, NEW k \in Node, ProcessCommitBack(i, e, k)
  PROVE  RInv'
<1>1. /\ com[e][i][k] # NONE
      /\ comBacks' = [comBacks EXCEPT ![e][i] = @ \cup {k}]
      /\ UNCHANGED <<proposal, queue, bcnt, has, backs, com, elected, votes, refused, input,
                     decision, panicked>>
  BY Zenon DEF ProcessCommitBack, batchVars, voteVars, abaVars
<1>2. /\ backs \in [Epochs -> [Node -> SUBSET Node]]
      /\ comBacks \in [Epochs -> [Node -> SUBSET Node]]
  BY Zenon DEF IInv, Types, RInv, RestTypes
<1>3. /\ comBacks' \in [Epochs -> [Node -> SUBSET Node]]
      /\ \A d \in Epochs, l \in Node : \A j \in comBacks'[d][l] :
           j \in comBacks[d][l] \/ (d = e /\ l = i /\ j = k)
  BY <1>1, <1>2, Zenon
<1>4. RestTypes'
  BY <1>1, <1>3, Zenon DEF RInv, RestTypes
<1>5. HasInv'
  BY <1>1, Zenon DEF RInv, HasInv
<1>6. /\ \A d \in Epochs : Before(d)' = Before(d)
      /\ \A d \in Epochs, j \in Node : IsQuorum(backs[d][j])' = IsQuorum(backs[d][j])
  BY <1>1, Zenon DEF Before, Prepared, IsQuorum
<1>7. StartInv'
  <2> SUFFICES ASSUME NEW d \in Epochs, NEW l \in Node
               PROVE  /\ proposal'[d][l] # 0 => Before(d)'
                      /\ backs'[d][l] \subseteq has'[d][l]
                      /\ \A j \in Node : com'[d][l][j] # NONE => IsQuorum(backs[d][j])'
                      /\ \A j \in comBacks'[d][l] : com'[d][l][j] # NONE
    BY Zenon DEF StartInv
  <2>1. /\ proposal[d][l] # 0 => Before(d)
        /\ backs[d][l] \subseteq has[d][l]
        /\ \A j \in Node : com[d][l][j] # NONE => IsQuorum(backs[d][j])
        /\ \A j \in comBacks[d][l] : com[d][l][j] # NONE
    BY Zenon DEF RInv, StartInv
  <2>2. \A j \in comBacks'[d][l] : com[d][l][j] # NONE
    BY <1>1, <1>3, <2>1, Zenon
  <2> QED
    BY <1>1, <1>6, <2>1, <2>2, Zenon
<1>8. FreezeInv' /\ NoInv'
  BY <1>1, <1>2, RoundFrame, Zenon
<1> QED
  BY <1>4, <1>5, <1>7, <1>8, Zenon DEF RInv

\* invokeStageTwo of a node in an epoch that was voted in, or is prepared.
LEMMA InvokeStageTwoRest ==
  ASSUME IInv, RInv, NEW i \in Node, NEW e \in Epochs, NEW r \in Rounds, NEW known,
         Voted(e) \/ UpTo(e), InvokeStageTwo(i, e, r, known),
         UNCHANGED <<proposal, has, backs, com, comBacks, input, decision>>
  PROVE  HasInv' /\ StartInv' /\ FreezeInv' /\ NoInv' /\ panicked' \subseteq Node
<1>1. /\ votes \in [Epochs -> [Rounds -> [Node -> SUBSET VoteFlag]]]
      /\ backs \in [Epochs -> [Node -> SUBSET Node]]
      /\ panicked \subseteq Node
  BY Zenon DEF IInv, Types, RInv, RestTypes
<1>2. \/ votes' = votes
      \/ \E f \in VoteFlag : /\ votes' = [votes EXCEPT ![e][r][i] = @ \cup {f}]
                             /\ f \in Nay => LeaderOf[e][r] \notin backs[e][i]
  BY DEF InvokeStageTwo, VoteFlag, Flag, Nay
<1>3. panicked' \subseteq Node
  BY <1>1, Zenon DEF InvokeStageTwo
<1>4. CASE votes' = votes
  BY <1>3, <1>4, RestFrame, Zenon
<1>5. ASSUME NEW f \in VoteFlag,
             votes' = [votes EXCEPT ![e][r][i] = @ \cup {f}],
             f \in Nay => LeaderOf[e][r] \notin backs[e][i]
      PROVE  HasInv' /\ StartInv' /\ FreezeInv' /\ NoInv'
  <2>1. /\ \A d \in Epochs, s \in Rounds, j \in Node :
             votes[d][s][j] \subseteq votes'[d][s][j]
        /\ \A d \in Epochs, s \in Rounds, j \in Node : \A g \in votes'[d][s][j] :
             g \in votes[d][s][j] \/ (d = e /\ s = r /\ j = i /\ g = f)
    BY <1>1, <1>5
  <2>2. /\ \A d \in Epochs : Before(d)' = Before(d)
        /\ \A d \in Epochs : UpTo(d)' = UpTo(d)
        /\ \A d \in Epochs, j \in Node : IsQuorum(backs[d][j])' = IsQuorum(backs[d][j])
    BY Zenon DEF Before, UpTo, Prepared, IsQuorum
  <2>3. HasInv' /\ StartInv'
    BY <2>2, Zenon DEF RInv, HasInv, StartInv
  <2>4. \A d \in Epochs : Voted(d) => Voted(d)'
    BY <2>1, Zenon DEF Voted
  <2>5. ASSUME NEW d \in Epochs, NEW s \in Rounds, Rejected(d, s) PROVE Rejected(d, s)'
    <3> DEFINE S == {j \in Node : SaysNo(d, s, j)}
               T == {j \in Node : SaysNo(d, s, j)'}
    <3>1. S \in SUBSET Node /\ T \in SUBSET Node /\ S \subseteq T
      BY <2>1, Zenon DEF SaysNo
    <3>2. IsQuorum(S)
      BY <2>5, Zenon DEF Rejected
    <3> HIDE DEF S, T
    <3>3. IsQuorum(T)
      BY <3>1, <3>2, QuorumGrows, Zenon
    <3> QED
      BY <3>3, Zenon DEF T, Rejected, IsQuorum
  <2>6. NoInv'
    BY <2>4, <2>5, Zenon DEF RInv, NoInv
  <2>7. ASSUME NEW d \in Epochs, NEW j \in Node PROVE Kept(d, j) \subseteq Kept(d, j)'
    <3>1. ASSUME NEW p \in backs[d][j], p \in Rejects(d, j)' PROVE p \in Rejects(d, j)
      <4>1. PICK s \in Rounds, g \in Nay : g \in votes'[d][s][j] /\ p = LeaderOf[d][s]
        BY <3>1, Zenon DEF Rejects, SaysNo
      <4>2. ~ (d = e /\ s = r /\ j = i /\ g = f)
        BY <1>5, <4>1, Zenon
      <4>3. g \in votes[d][s][j]
        BY <2>1, <4>1, <4>2, Zenon
      <4> QED
        BY <4>1, <4>3, Zenon DEF Rejects, SaysNo
    <3> QED
      BY <3>1, Zenon DEF Kept
  <2>8. \A d \in Epochs : Frozen(d) => Frozen(d)'
    BY <1>1, <2>7, FreezeStays, Zenon
  <2>9. ASSUME ~ Voted(e), UpTo(e) PROVE Frozen(e)
    <3>1. Prepared(e)
      BY <2>9 DEF UpTo, Epochs
    <3>2. \A s \in Rounds, j \in Node : ~ SaysNo(e, s, j)
      BY <2>9, Zenon DEF Voted, SaysNo
    <3>3. ASSUME NEW j \in Node PROVE Kept(e, j) = backs[e][j]
      <4>1. Rejects(e, j) = {}
        BY <3>2, Zenon DEF Rejects
      <4> QED
        BY <4>1, Zenon DEF Kept
    <3>4. {j \in Node : IsQuorum(Kept(e, j))} = {j \in Node : IsQuorum(backs[e][j])}
      BY <3>3, Zenon
    <3> QED
      BY <3>1, <3>4, Zenon DEF Prepared, Frozen
  <2>10. FreezeInv'
    <3> SUFFICES ASSUME NEW d \in Epochs, Voted(d)' PROVE UpTo(d) /\ Frozen(d)'
      BY <2>2, Zenon DEF FreezeInv
    <3>1. Voted(d) \/ d = e
      BY <2>1, Zenon DEF Voted
    <3>2. UpTo(d) /\ Frozen(d)
      BY <2>9, <3>1, Zenon DEF RInv, FreezeInv
    <3> QED
      BY <2>8, <3>2, Zenon
  <2> QED
    BY <2>3, <2>6, <2>10, Zenon
<1> QED
  BY <1>2, <1>3, <1>4, <1>5, Zenon

LEMMA HandleElectShareRest ==
  ASSUME IInv, RInv, NEW i \in Node, NEW e \in Epochs, HandleElectShare(i, e)
  PROVE  RInv'
<1>1. /\ IsQuorum(ElectShares(e))
      /\ Epoch[i] <= e
      /\ elected' = [elected EXCEPT ![e] = @ \cup {i}]
      /\ InvokeStageTwo(i, Epoch[i], 0, elected'[Epoch[i]])
      /\ UNCHANGED <<proposal, queue, bcnt, has, backs, com, comBacks, refused, input, decision>>
  BY Zenon DEF HandleElectShare, Passes, batchVars, cbcVars, abaVars, IInv, Types, Epochs
<1>2. Epoch[i] \in Epochs /\ 0 \in Rounds
  BY <1>1, MVBAAssumption DEF IInv, Types, Epochs, Rounds
<1>3. PICK k \in Node : IsQuorum(comBacks[e][k])
  <2> DEFINE S == ElectShares(e)
  <2>1. S \in SUBSET Node /\ IsQuorum(S)
    BY <1>1, Zenon DEF ElectShares
  <2>2. \E k \in Node : k \in S
    <3> HIDE DEF S
    <3> QED
      BY <2>1, SomeMember, ZenonT(40)
  <2> QED
    BY <2>2, Zenon DEF ElectShares
<1>4. /\ comBacks[e][k] \in SUBSET Node
      /\ \A j \in comBacks[e][k] : IsQuorum(backs[e][j])
  BY DEF RInv, RestTypes, StartInv
<1>5. Prepared(e)
  <2> DEFINE S == comBacks[e][k]
             T == {j \in Node : IsQuorum(backs[e][j])}
  <2>1. S \in SUBSET Node /\ T \in SUBSET Node /\ S \subseteq T /\ IsQuorum(S)
    BY <1>3, <1>4, Zenon
  <2>2. IsQuorum(T)
    <3> HIDE DEF S, T
    <3> QED
      BY <2>1, QuorumGrows, Zenon
  <2> QED
    BY <2>2, Zenon DEF Prepared
<1>6. Before(e)
  <2>1. PICK j \in Node : j \in comBacks[e][k]
    BY <1>3, <1>4, SomeMember, ZenonT(40)
  <2>2. backs[e][j] \in SUBSET Node /\ IsQuorum(backs[e][j])
    BY <1>4, <2>1 DEF IInv, Types
  <2>3. PICK p \in Node : p \in backs[e][j]
    BY <2>2, SomeMember, Zenon
  <2>4. p \in has[e][j]
    BY <2>3, Zenon DEF RInv, StartInv
  <2>5. proposal[e][p] # 0
    BY <2>4, Zenon DEF RInv, HasInv
  <2> QED
    BY <2>5, Zenon DEF RInv, StartInv
<1>7. UpTo(Epoch[i])
  <2>1. ASSUME NEW d \in Epochs, d <= Epoch[i] PROVE Prepared(d)
    <3>1. d < e \/ d = e
      BY <1>1, <1>2, <2>1, MVBAAssumption DEF Epochs
    <3> QED
      BY <1>5, <1>6, <3>1, Zenon DEF Before
  <2> QED
    BY <2>1, Zenon DEF UpTo
<1>8. HasInv' /\ StartInv' /\ FreezeInv' /\ NoInv' /\ panicked' \subseteq Node
  BY <1>1, <1>2, <1>7, InvokeStageTwoRest, Zenon
<1>9. RestTypes'
  BY <1>1, <1>8, Zenon DEF RInv, RestTypes
<1> QED
  BY <1>8, <1>9, Zenon DEF RInv

LEMMA ProcessABANoRest ==
  ASSUME IInv, RInv, NEW i \in Node, NEW e \in Epochs, NEW r \in Rounds, ProcessABANo(i, e, r)
  PROVE  RInv'
<1>1. r + 1 \in Rounds
  BY MVBAAssumption DEF ProcessABANo, Rounds
<1>2. Voted(e)
  BY MVBAAssumption, Zenon DEF ProcessABANo, RInv, NoInv, Flag
<1>3. /\ InvokeStageTwo(i, e, r + 1, elected[e])
      /\ UNCHANGED <<proposal, queue, bcnt, has, backs, com, comBacks, elected, refused, input,
                     decision>>
  BY Zenon DEF ProcessABANo, batchVars, cbcVars
<1>4. HasInv' /\ StartInv' /\ FreezeInv' /\ NoInv' /\ panicked' \subseteq Node
  BY <1>1, <1>2, <1>3, InvokeStageTwoRest, Zenon
<1>5. RestTypes'
  BY <1>3, <1>4, Zenon DEF RInv, RestTypes
<1> QED
  BY <1>4, <1>5, Zenon DEF RInv

LEMMA RefuseVoteRest ==
  ASSUME IInv, RInv, NEW i \in Node, NEW e \in Epochs, NEW r \in Rounds, NEW j \in Node,
         RefuseVote(i, e, r, j)
  PROVE  RInv'
<1>1. /\ refused' = [refused EXCEPT ![e][r][i] = @ \cup {j}]
      /\ UNCHANGED <<proposal, queue, bcnt, has, backs, com, comBacks, elected, votes, input,
                     decision, panicked>>
  BY Zenon DEF RefuseVote, batchVars, cbcVars, abaVars
<1>2. refused' \in [Epochs -> [Rounds -> [Node -> SUBSET Node]]]
  BY <1>1 DEF RInv, RestTypes
<1>3. RestTypes'
  BY <1>1, <1>2, Zenon DEF RInv, RestTypes
<1> QED
  BY <1>1, <1>3, RestFrame, Zenon DEF RInv

\* A node invokes the ABA in a round that is voted in, with NO only if 2f+1 nodes
\* voted so.
LEMMA InvokeABARest ==
  ASSUME IInv, RInv, NEW i \in Node, NEW e \in Epochs, NEW r \in Rounds, NEW f \in Flag,
         Voted(e), f = "NO" => Rejected(e, r),
         input' = [input EXCEPT ![e][r][i] = f],
         UNCHANGED <<proposal, queue, bcnt, has, backs, com, comBacks, elected, votes, refused,
                     decision, panicked>>
  PROVE  RInv'
<1>1. input \in [Epochs -> [Rounds -> [Node -> Flag \cup {NONE}]]]
  BY Zenon DEF IInv, Types
<1>2. \A d \in Epochs, s \in Rounds, k \in Node :
        input'[d][s][k] = input[d][s][k] \/ (d = e /\ s = r /\ input'[d][s][k] = f)
  BY <1>1
<1>3. RestTypes'
  BY Zenon DEF RInv, RestTypes
<1>4. HasInv'
  BY Zenon DEF RInv, HasInv
<1>5. /\ \A d \in Epochs : Before(d)' = Before(d)
      /\ \A d \in Epochs : UpTo(d)' = UpTo(d)
      /\ \A d \in Epochs, j \in Node : IsQuorum(backs[d][j])' = IsQuorum(backs[d][j])
  BY Zenon DEF Before, UpTo, Prepared, IsQuorum
<1>6. /\ \A d \in Epochs : Voted(d)' = Voted(d)
      /\ \A d \in Epochs : Frozen(d)' = Frozen(d)
      /\ \A d \in Epochs, s \in Rounds : Rejected(d, s)' = Rejected(d, s)
  BY Zenon DEF Voted, Frozen, Kept, Rejects, Rejected, SaysNo, IsQuorum
<1>7. StartInv'
  BY <1>5, Zenon DEF RInv, StartInv
<1>8. FreezeInv'
  BY <1>5, <1>6, ZenonT(40) DEF RInv, FreezeInv
<1>9. NoInv'
  BY <1>2, <1>6 DEF RInv, NoInv
<1> QED
  BY <1>3, <1>4, <1>7, <1>8, <1>9, Zenon DEF RInv

LEMMA InvokeABAYesRest ==
  ASSUME IInv, RInv, NEW i \in Node, NEW e \in Epochs, NEW r \in Rounds, NEW j \in Node,
         InvokeABAYes(i, e, r, j)
  PROVE  RInv'
<1>1. /\ "YES" \in votes[e][r][j]
      /\ input' = [input EXCEPT ![e][r][i] = "YES"]
      /\ UNCHANGED <<proposal, queue, bcnt, has, backs, com, comBacks, elected, votes, refused,
                     decision, panicked>>
  BY Zenon DEF InvokeABAYes, batchVars, cbcVars, abaVars
<1>2. Voted(e) /\ "YES" \in Flag /\ ("YES" = "NO" => Rejected(e, r))
  BY <1>1, Zenon DEF Voted, Flag
<1> QED
  BY <1>1, <1>2, InvokeABARest, Zenon

LEMMA InvokeABANoRest ==
  ASSUME IInv, RInv, NEW i \in Node, NEW e \in Epochs, NEW r \in Rounds, InvokeABANo(i, e, r)
  PROVE  RInv'
<1>1. /\ IsQuorum(NoVotes(i, e, r))
      /\ input' = [input EXCEPT ![e][r][i] = "NO"]
      /\ UNCHANGED <<proposal, queue, bcnt, has, backs, com, comBacks, elected, votes, refused,
                     decision, panicked>>
  BY Zenon DEF InvokeABANo, batchVars, cbcVars, abaVars
<1> DEFINE S == NoVotes(i, e, r)
           T == {j \in Node : SaysNo(e, r, j)}
<1>2. S \in SUBSET Node /\ T \in SUBSET Node /\ S \subseteq T /\ IsQuorum(S)
  BY <1>1, Zenon DEF NoVotes, Lost, SaysNo, Nay
<1>3. IsQuorum(T) /\ \E j \in Node : j \in T
  <2> HIDE DEF S, T
  <2>1. IsQuorum(T)
    BY <1>2, QuorumGrows, Zenon
  <2> QED
    BY <1>2, <2>1, SomeMember, Zenon
<1>4. Rejected(e, r) /\ Voted(e) /\ "NO" \in Flag
  BY <1>3, Zenon DEF Rejected, Voted, SaysNo, Flag
<1> QED
  BY <1>1, <1>4, InvokeABARest, Zenon

LEMMA DecideABARest ==
  ASSUME IInv, RInv, NEW e \in Epochs, NEW r \in Rounds, NEW f \in Flag, DecideABA(e, r, f)
  PROVE  RInv'
<1>1. /\ Cardinality({i \in Node : input[e][r][i] = f}) >= LowThreshold
      /\ decision' = [decision EXCEPT ![e][r] = f]
      /\ UNCHANGED <<proposal, queue, bcnt, has, backs, com, comBacks, elected, votes, refused,
                     input, panicked>>
  BY Zenon DEF DecideABA, batchVars, cbcVars, voteVars
<1>2. PICK i \in Node : input[e][r][i] = f
  <2> DEFINE S == {i \in Node : input[e][r][i] = f}
  <2>1. Cardinality(S) >= LowThreshold
    BY <1>1, Zenon
  <2>2. S # {}
    BY <2>1, ThresholdType, FS_EmptySet
  <2> QED
    BY <2>2, Zenon
<1>3. Voted(e) /\ (f = "NO" => Rejected(e, r))
  BY <1>2, MVBAAssumption, Zenon DEF RInv, NoInv
<1>4. \A d \in Epochs, s \in Rounds :
        decision'[d][s] = decision[d][s] \/ (d = e /\ s = r /\ decision'[d][s] = f)
  <2>1. decision \in [Epochs -> [Rounds -> Flag \cup {NONE}]]
    BY Zenon DEF IInv, Types
  <2> QED
    BY <1>1, <2>1, Zenon
<1>5. RestTypes'
  BY <1>1, Zenon DEF RInv, RestTypes
<1>6. HasInv'
  BY <1>1, Zenon DEF RInv, HasInv
<1>7. /\ \A d \in Epochs : Before(d)' = Before(d)
      /\ \A d \in Epochs : UpTo(d)' = UpTo(d)
      /\ \A d \in Epochs, j \in Node : IsQuorum(backs[d][j])' = IsQuorum(backs[d][j])
  BY <1>1, Zenon DEF Before, UpTo, Prepared, IsQuorum
<1>8. /\ \A d \in Epochs : Voted(d)' = Voted(d)
      /\ \A d \in Epochs : Frozen(d)' = Frozen(d)
      /\ \A d \in Epochs, s \in Rounds : Rejected(d, s)' = Rejected(d, s)
  BY <1>1, Zenon DEF Voted, Frozen, Kept, Rejects, Rejected, SaysNo, IsQuorum
<1>9. StartInv'
  BY <1>1, <1>7, Zenon DEF RInv, StartInv
<1>10. FreezeInv'
  BY <1>7, <1>8, ZenonT(40) DEF RInv, FreezeInv
<1>11. NoInv'
  BY <1>1, <1>3, <1>4, <1>8 DEF RInv, NoInv
<1> QED
  BY <1>5, <1>6, <1>9, <1>10, <1>11, Zenon DEF RInv

\* The batches a node proposes have a number: so has the one PutBatch returns.
LEMMA HandleOutputRest ==
  ASSUME IInv, RInv, NEW i \in Node, NEW e \in Epochs, NEW r \in Rounds,
         NEW l \in HaltLeaders(e, r), HandleOutput(i, e, r, l)
  PROVE  RInv'
<1> DEFINE q == PutBatch(i, e, l)
<1>1. /\ decision[e][r] = "YES"
      /\ AbvanceNextEpoch(i, e + 1, q)
      /\ UNCHANGED <<has, backs, com, comBacks, elected, votes, refused, input, decision, panicked>>
  BY Zenon DEF HandleOutput, cbcVars, voteVars
<1>2. /\ proposal \in [Epochs -> [Node -> Nat]]
      /\ queue \in [Node -> Seq(Nat \ {0})]
      /\ bcnt \in [Node -> Nat]
      /\ backs \in [Epochs -> [Node -> SUBSET Node]]
  BY Zenon DEF RInv, RestTypes, IInv, Types
<1>3. q \in Seq(Nat \ {0})
  <2>1. CASE l # i /\ {l, i} \subseteq has[e][i]
    <3>1. proposal[e][i] \in Nat \ {0}
      BY <1>2, <2>1, Zenon DEF RInv, HasInv
    <3>2. q = Append(queue[i], proposal[e][i]) /\ queue[i] \in Seq(Nat \ {0})
      BY <1>2, <2>1, Zenon DEF PutBatch
    <3> QED
      BY <3>1, <3>2, AppendBatch, Zenon
  <2>2. CASE ~ (l # i /\ {l, i} \subseteq has[e][i])
    BY <1>2, <2>2, Zenon DEF PutBatch
  <2> QED
    BY <2>1, <2>2, Zenon
<1>4. UpTo(e)
  BY <1>1, MVBAAssumption, Zenon DEF RInv, NoInv, FreezeInv, Flag
<1> HIDE DEF q
<1>5. /\ queue' \in [Node -> Seq(Nat \ {0})]
      /\ bcnt' \in [Node -> Nat]
      /\ proposal' \in [Epochs -> [Node -> Nat]]
      /\ \A d \in Epochs, j \in Node :
           \/ proposal'[d][j] = proposal[d][j]
           \/ d = e + 1 /\ proposal'[d][j] # 0
  <2>1. CASE e + 1 <= Epoch[i]
    BY <1>1, <1>2, <1>3, <2>1, Zenon DEF AbvanceNextEpoch
  <2>2. CASE ~ (e + 1 <= Epoch[i])
    <3> DEFINE b == IF q = <<>> THEN bcnt[i] + 1 ELSE Head(q)
               t == IF q = <<>> THEN q ELSE Tail(q)
    <3>1. b \in Nat \ {0} /\ t \in Seq(Nat \ {0})
      <4>1. q # <<>> => Head(q) \in Nat \ {0} /\ Tail(q) \in Seq(Nat \ {0})
        BY <1>3
      <4> QED
        BY <1>2, <1>3, <4>1
    <3>2. /\ proposal' = IF e + 1 \in Epochs
                         THEN [proposal EXCEPT ![e + 1][i] = b]
                         ELSE proposal
          /\ bcnt' = [bcnt EXCEPT ![i] = IF q = <<>> THEN @ + 1 ELSE @]
          /\ queue' = [queue EXCEPT ![i] = t]
      BY <1>1, <2>2, Zenon DEF AbvanceNextEpoch
    <3> HIDE DEF b, t
    <3>3. queue' \in [Node -> Seq(Nat \ {0})] /\ bcnt' \in [Node -> Nat]
      BY <1>2, <3>1, <3>2
    <3>4. /\ proposal' \in [Epochs -> [Node -> Nat]]
          /\ \A d \in Epochs, j \in Node :
               \/ proposal'[d][j] = proposal[d][j]
               \/ d = e + 1 /\ proposal'[d][j] # 0
      BY <1>2, <3>1, <3>2, Zenon
    <3> QED
      BY <3>3, <3>4, Zenon
  <2> QED
    BY <2>1, <2>2, Zenon
<1>6. RestTypes'
  BY <1>1, <1>5, Zenon DEF RInv, RestTypes
<1>7. HasInv'
  <2>1. has \in [Epochs -> [Node -> SUBSET Node]]
    BY Zenon DEF IInv, Types
  <2>2. ASSUME NEW d \in Epochs, NEW j \in Node, NEW p \in has[d][j] PROVE proposal'[d][p] # 0
    <3>1. p \in Node /\ proposal[d][p] # 0
      BY <2>1, Zenon DEF RInv, HasInv
    <3> QED
      BY <1>5, <3>1, Zenon
  <2> QED
    BY <1>1, <2>2, Zenon DEF HasInv
<1>8. StartInv'
  <2>1. /\ \A d \in Epochs : Before(d)' = Before(d)
        /\ \A d \in Epochs, j \in Node : IsQuorum(backs[d][j])' = IsQuorum(backs[d][j])
    BY <1>1, Zenon DEF Before, Prepared, IsQuorum
  <2>2. e + 1 \in Epochs => Before(e + 1)
    BY <1>4, MVBAAssumption DEF Before, UpTo, Epochs
  <2> QED
    BY <1>1, <1>5, <2>1, <2>2, Zenon DEF RInv, StartInv
<1>9. FreezeInv' /\ NoInv'
  BY <1>1, <1>2, RoundFrame, Zenon
<1> QED
  BY <1>6, <1>7, <1>8, <1>9, Zenon DEF RInv

LEMMA NextRInv == IInv /\ RInv /\ [Next]_vars => RInv'
<1> SUFFICES ASSUME IInv, RInv, [Next]_vars PROVE RInv'
  BY Zenon
<1>1. CASE UNCHANGED vars
  <2>1. UNCHANGED <<proposal, queue, bcnt, has, backs, com, comBacks, elected, votes, refused,
                    input, decision, panicked>>
    BY <1>1, Zenon DEF vars, batchVars, cbcVars, voteVars, abaVars
  <2>2. RestTypes'
    BY <2>1, Zenon DEF RInv, RestTypes
  <2> QED
    BY <2>1, <2>2, RestFrame, Zenon DEF RInv
<1>2. CASE ABAStep
  BY <1>2, DecideABARest, Zenon DEF ABAStep
<1>3. ASSUME NEW i \in Correct, NodeStep(i) PROVE RInv'
  <2>1. i \in Node
    BY MVBAAssumption, Zenon
  <2>2. CASE CBCStep(i)
    BY <2>1, <2>2, HandleProposalRest, ProcessDataBackRest, HandleCommitmentRest,
       ProcessCommitBackRest, Zenon DEF CBCStep
  <2>3. CASE VoteStep(i)
    <3>1. ASSUME NEW e \in Epochs, HandleElectShare(i, e) PROVE RInv'
      BY <2>1, <3>1, HandleElectShareRest, Zenon
    <3>2. ASSUME NEW e \in Epochs, NEW r \in Rounds, InvokeABANo(i, e, r) PROVE RInv'
      BY <2>1, <3>2, InvokeABANoRest, Zenon
    <3>3. ASSUME NEW e \in Epochs, NEW r \in Rounds, NEW j \in Node, InvokeABAYes(i, e, r, j)
          PROVE  RInv'
      BY <2>1, <3>3, InvokeABAYesRest, Zenon
    <3>4. ASSUME NEW e \in Epochs, NEW r \in Rounds, NEW j \in Node, RefuseVote(i, e, r, j)
          PROVE  RInv'
      BY <2>1, <3>4, RefuseVoteRest, Zenon
    <3> QED
      BY <2>3, <3>1, <3>2, <3>3, <3>4, Zenon DEF VoteStep
  <2>4. CASE EndStep(i)
    BY <2>1, <2>4, ProcessABANoRest, HandleOutputRest, Zenon DEF EndStep
  <2> QED
    BY <1>3, <2>2, <2>3, <2>4, Zenon DEF NodeStep
<1> QED
  BY <1>1, <1>2, <1>3, Zenon DEF Next

LEMMA RestInvariance == Spec => [](IInv /\ RInv)
<1> QED
  BY InitIInv, NextIInv, InitRInv, NextRInv, PTL DEF Spec

\* The state of every node keeps its shape: in particular no
\* node queues or proposes a batch without a number (PutBatch, abvanceNextEpoch).
THEOREM MVBATypeOK == Spec => []TypeOK
<1>1. IInv /\ RInv => TypeOK
  <2> SUFFICES ASSUME IInv, RInv PROVE TypeOK
    BY Zenon
  <2>1. \A e \in Epochs, i, j \in Node : com[e][i][j] = NONE \/ com[e][i][j] \subseteq Node
    BY DEF RInv, RestTypes
  <2> QED
    BY <2>1, Zenon DEF IInv, Types, RInv, RestTypes, Commitor, TypeOK
<1> QED
  BY <1>1, RestInvariance, PTL

\* The rejected leaders of an epoch, counted with the nodes that missed them.
LEMMA RejectedLeaders ==
  ASSUME IInv, RInv, NEW e \in Epochs
  PROVE  Cardinality({r \in Rounds : decision[e][r] = "NO"}) * (2 * HightThreshold - Size)
           <= HightThreshold * (Size - HightThreshold)
<1> DEFINE R == {r \in Rounds : decision[e][r] = "NO"}
           k == 2 * HightThreshold - Size
           m == Size - HightThreshold
<1>1. /\ IsFiniteSet(R)
      /\ Cardinality(R) \in Nat
  <2>1. IsFiniteSet(Rounds)
    BY MVBAAssumption, ThresholdType, FS_Interval DEF Rounds
  <2> QED
    BY <2>1, FS_Subset, FS_CardinalityType, Zenon
<1>2. m \in Nat /\ k \in Int /\ HightThreshold \in Nat
  BY ThresholdType DEF HightThreshold
<1>3. CASE R = {}
  <2>1. Cardinality(R) = 0
    BY <1>3, FS_EmptySet, Zenon
  <2>2. HightThreshold * m >= 0
    BY <1>2
  <2>3. Cardinality(R) * k = 0
    <3> HIDE DEF R, k
    <3> QED
      BY <1>2, <2>1
  <2> QED
    BY <1>2, <2>2, <2>3, Zenon
<1>4. CASE R # {} /\ k \notin Nat
  <2>1. k < 0
    BY <1>2, <1>4
  <2>2. Cardinality(R) * k <= 0
    BY <1>1, <1>2, <2>1
  <2>3. HightThreshold * m >= 0
    BY <1>2
  <2> QED
    BY <1>1, <1>2, <2>2, <2>3
<1>5. CASE R # {} /\ k \in Nat
  <2>1. Frozen(e)
    <3>1. PICK r \in Rounds : decision[e][r] = "NO"
      BY <1>5, Zenon
    <3> QED
      BY <3>1, MVBAAssumption, Zenon DEF RInv, NoInv, FreezeInv, Flag
  <2> DEFINE W == {j \in Node : IsQuorum(Kept(e, j))}
  <2>2. IsFiniteSet(W) /\ Cardinality(W) \in Nat /\ HightThreshold <= Cardinality(W)
    BY <2>1, NodeSets, <1>2, Zenon DEF Frozen, IsQuorum
  <2>3. PICK P \in SUBSET W : IsFiniteSet(P) /\ Cardinality(P) = HightThreshold
    <3> HIDE DEF W
    <3> QED
      BY <1>2, <2>2, SubsetOfSize, Zenon
  <2>4. P \in SUBSET Node /\ \A p \in P : IsQuorum(Kept(e, p))
    BY <2>3, Zenon
  <2> DEFINE H == [r \in R |-> {p \in P : SaysNo(e, r, p)}]
  <2>5. H \in [R -> SUBSET P]
    BY Zenon
  <2>6. ASSUME NEW r \in R PROVE Cardinality(H[r]) >= k
    <3> DEFINE N == {j \in Node : SaysNo(e, r, j)}
    <3>1. N \in SUBSET Node /\ Cardinality(N) >= HightThreshold
      BY Zenon DEF RInv, NoInv, Rejected, IsQuorum
    <3>2. H[r] = P \cap N
      BY <2>4, Zenon
    <3> HIDE DEF N, H
    <3>3. /\ IsFiniteSet(P) /\ IsFiniteSet(N)
          /\ Cardinality(N) \in Nat
          /\ Cardinality(P \cap N) \in Nat
          /\ Cardinality(P \cup N) \in Nat
          /\ Cardinality(P \cup N) <= Cardinality(Node)
      BY <2>4, <3>1, NodeSets, Zenon
    <3>4. Cardinality(P \cup N) = Cardinality(P) + Cardinality(N) - Cardinality(P \cap N)
      BY <3>3, FS_Union, Zenon
    <3> QED
      BY <1>2, <2>3, <3>1, <3>2, <3>3, <3>4, ThresholdType DEF Size
  <2>7. ASSUME NEW p \in P PROVE Cardinality({r \in R : p \in H[r]}) <= m
    <3> DEFINE S == {r \in R : p \in H[r]}
               M == Node \ Kept(e, p)
               f == [r \in S |-> LeaderOf[e][r]]
    <3>1. \A r \in S : r \in Rounds /\ LeaderOf[e][r] \in M
      BY MVBAAssumption DEF Kept, Rejects
    <3>2. f \in [S -> M] /\ \A r, s \in S : f[r] = f[s] => r = s
      BY <3>1, MVBAAssumption, Zenon
    <3>3. f \in Injection(S, M)
      <4> HIDE DEF f, S, M
      <4> QED
        BY <3>2, IsInjection, Zenon
    <3>4. Kept(e, p) \in SUBSET Node
      BY <2>4 DEF Kept, IInv, Types
    <3>5. /\ IsFiniteSet(M)
          /\ Cardinality(M) = Cardinality(Node) - Cardinality(Node \cap Kept(e, p))
      BY CommitteeAssumption, FS_Difference, Zenon
    <3>6. Node \cap Kept(e, p) = Kept(e, p)
      BY <3>4, Zenon
    <3> HIDE DEF f, S, M
    <3>7. IsFiniteSet(S) /\ Cardinality(S) <= Cardinality(M)
      BY <3>3, <3>5, FS_Injection, Zenon
    <3>8. Cardinality(S) \in Nat /\ Cardinality(Kept(e, p)) \in Nat
      BY <3>4, <3>7, NodeSets, FS_CardinalityType, Zenon
    <3>9. Cardinality(Kept(e, p)) >= HightThreshold
      BY <2>4, Zenon DEF IsQuorum
    <3>10. Cardinality(S) <= m
      BY <1>2, <3>5, <3>6, <3>7, <3>8, <3>9, ThresholdType DEF Size
    <3> QED
      BY <3>10, Zenon DEF S
  <2> HIDE DEF H, R, k, m
  <2>8. Cardinality(R) * k <= Cardinality(P) * m
    BY <1>1, <1>2, <1>5, <2>3, <2>5, <2>6, <2>7, DoubleCounting, Zenon
  <2> QED
    BY <2>3, <2>8, Zenon DEF R, k, m
<1> QED
  BY <1>3, <1>4, <1>5, Zenon

\* An epoch of 3f+1 nodes does not reject many leaders: f+1 of 2f+1 nodes
\* that had 2f+1 blocks before the first vote (processCBCBack, the Commitments an
\* ElectShare waits for) must miss each, and Elector.Leader stays in its shuffle.
THEOREM MVBALeaderIsFound == Spec => []LeaderIsFound
<1>1. IInv /\ RInv => LeaderIsFound
  BY RejectedLeaders, Zenon DEF LeaderIsFound
<1> QED
  BY <1>1, RestInvariance, PTL
-----------------------------------------------------------------------------
(* Where the batches of a node are.  One that waits in the queue is in no  *)
(* block, but for blocks of epochs that output another node's.             *)

\* Node i has processed the output of epoch e, which was another node's block.
Gone(e, i) ==
  /\ Winner(e) # i
  /\ \E r \in Rounds : decision[e][r] = "YES" /\ i \in ended[e][r]

\* The batches of queue q are different ones of the first n.
Distinct(q, n) ==
  /\ \A k \in DOMAIN q : q[k] <= n
  /\ \A k, m \in DOMAIN q : q[k] = q[m] => k = m

\* Batch b is not in queue q.
Apart(q, b) == \A k \in DOMAIN q : q[k] # b

BatchInv ==
  \A i \in Node :
    /\ Distinct(queue[i], bcnt[i])
    /\ \A e \in Epochs :
         /\ proposal[e][i] <= bcnt[i]
         /\ Epoch[i] < e => proposal[e][i] = 0
         /\ proposal[e][i] # 0 /\ ~ Gone(e, i) =>
              /\ Apart(queue[i], proposal[e][i])
              /\ \A f \in Epochs : e < f => proposal[f][i] # proposal[e][i]

LEMMA InitBatchInv == Init => BatchInv
<1> SUFFICES ASSUME Init, NEW i \in Node PROVE BatchInv!(i)
  BY Zenon DEF BatchInv
<1>1. queue[i] = <<>> /\ bcnt[i] = 1 /\ Epoch[i] = 0
  BY DEF Init
<1>2. \A e \in Epochs : proposal[e][i] = IF e = 0 THEN 1 ELSE 0
  BY DEF Init
<1>3. Distinct(queue[i], bcnt[i]) /\ \A b \in Nat : Apart(queue[i], b)
  BY <1>1 DEF Distinct, Apart
<1> QED
  BY <1>1, <1>2, <1>3, MVBAAssumption DEF Epochs

\* An output that was processed stays so, and its winner stays.
LEMMA GoneStays ==
  ASSUME WinnerInv, WinnerInv', NEW e \in Epochs, NEW i \in Node, Gone(e, i),
         \A r \in Rounds : decision[e][r] = "YES" => decision'[e][r] = "YES",
         \A r \in Rounds : ended[e][r] \subseteq ended'[e][r]
  PROVE  Gone(e, i)'
<1>1. PICK r \in Rounds : decision[e][r] = "YES" /\ i \in ended[e][r]
  BY Zenon DEF Gone
<1>2. Winner(e) = LeaderOf[e][r] /\ Winner(e)' = LeaderOf[e][r]
  BY <1>1, Zenon DEF WinnerInv
<1> QED
  BY <1>1, <1>2, Zenon DEF Gone

\* A step that touches no batch and takes back no decision.
Keeps ==
  /\ UNCHANGED <<Epoch, proposal, queue, bcnt>>
  /\ \A e \in Epochs, r \in Rounds :
       /\ decision[e][r] = "YES" => decision'[e][r] = "YES"
       /\ ended[e][r] \subseteq ended'[e][r]

LEMMA BatchFrame ==
  ASSUME WinnerInv, WinnerInv', BatchInv, Keeps
  PROVE  BatchInv'
<1>1. \A e \in Epochs, i \in Node : ~ Gone(e, i)' => ~ Gone(e, i)
  BY GoneStays, Zenon DEF Keeps
<1>2. UNCHANGED <<Epoch, proposal, queue, bcnt>>
  BY Zenon DEF Keeps
<1> QED
  BY <1>1, <1>2, Zenon DEF BatchInv, Apart, Distinct

\* Every step is of that kind but handleOutput.
LEMMA BatchShape ==
  ASSUME IInv, [Next]_vars
  PROVE  \/ Keeps
         \/ \E i \in Node, e \in Epochs, r \in Rounds :
              \E l \in HaltLeaders(e, r) : HandleOutput(i, e, r, l)
<1>1. CASE UNCHANGED vars
  BY <1>1, Zenon DEF vars, batchVars, abaVars, Keeps
<1>2. ASSUME NEW e \in Epochs, NEW r \in Rounds, NEW f \in Flag, DecideABA(e, r, f) PROVE Keeps
  <2>1. /\ decision[e][r] = NONE
        /\ decision' = [decision EXCEPT ![e][r] = f]
        /\ UNCHANGED <<Epoch, proposal, queue, bcnt, ended>>
    BY <1>2, Zenon DEF DecideABA, batchVars
  <2>2. decision \in [Epochs -> [Rounds -> Flag \cup {NONE}]]
    BY Zenon DEF IInv, Types
  <2>3. "YES" # NONE
    BY MVBAAssumption DEF Flag
  <2>4. \A d \in Epochs, s \in Rounds : decision[d][s] = "YES" => decision'[d][s] = "YES"
    BY <2>1, <2>2, <2>3
  <2> QED
    BY <2>1, <2>4, Zenon DEF Keeps
<1>3. ASSUME NEW i \in Node, NodeStep(i)
      PROVE  \/ Keeps
             \/ \E e \in Epochs, r \in Rounds :
                  \E l \in HaltLeaders(e, r) : HandleOutput(i, e, r, l)
  <2>1. ASSUME NEW e \in Epochs, NEW j \in Node,
               \/ HandleProposal(i, e, j) \/ ProcessDataBack(i, e, j)
               \/ HandleCommitment(i, e, j) \/ ProcessCommitBack(i, e, j)
        PROVE  Keeps
    BY <2>1, Zenon DEF HandleProposal, ProcessDataBack, HandleCommitment, ProcessCommitBack,
                       batchVars, abaVars, Keeps
  <2>2. ASSUME NEW e \in Epochs, HandleElectShare(i, e) PROVE Keeps
    BY <2>2, Zenon DEF HandleElectShare, batchVars, abaVars, Keeps
  <2>3. ASSUME NEW e \in Epochs, NEW r \in Rounds, InvokeABANo(i, e, r) PROVE Keeps
    BY <2>3, Zenon DEF InvokeABANo, batchVars, abaVars, Keeps
  <2>4. ASSUME NEW e \in Epochs, NEW r \in Rounds, NEW j \in Node,
               RefuseVote(i, e, r, j) \/ InvokeABAYes(i, e, r, j)
        PROVE  Keeps
    BY <2>4, Zenon DEF RefuseVote, InvokeABAYes, batchVars, abaVars, Keeps
  <2>5. ASSUME NEW e \in Epochs, NEW r \in Rounds, ProcessABANo(i, e, r) PROVE Keeps
    <3>1. /\ ended' = [ended EXCEPT ![e][r] = @ \cup {i}]
          /\ UNCHANGED <<Epoch, proposal, queue, bcnt, decision>>
      BY <2>5, Zenon DEF ProcessABANo, batchVars
    <3>2. \A d \in Epochs, s \in Rounds : ended[d][s] \subseteq ended'[d][s]
      BY <3>1 DEF IInv, Types
    <3> QED
      BY <3>1, <3>2, Zenon DEF Keeps
  <2> QED
    BY <1>3, <2>1, <2>2, <2>3, <2>4, <2>5, Zenon DEF NodeStep, CBCStep, VoteStep, EndStep
<1> QED
  BY <1>1, <1>2, <1>3, MVBAAssumption, Zenon DEF Next, ABAStep

LEMMA AppendDistinct ==
  ASSUME NEW q \in Seq(Nat \ {0}), NEW n \in Nat, NEW b \in Nat \ {0},
         Distinct(q, n), b <= n, Apart(q, b)
  PROVE  Append(q, b) \in Seq(Nat \ {0}) /\ Distinct(Append(q, b), n)
<1>1. /\ DOMAIN q = 1 .. Len(q) /\ Len(q) \in Nat
      /\ Append(q, b) \in Seq(Nat \ {0})
      /\ DOMAIN Append(q, b) = 1 .. Len(q) + 1
      /\ \A k \in 1 .. Len(q) + 1 : Append(q, b)[k] = IF k = Len(q) + 1 THEN b ELSE q[k]
  OBVIOUS
<1> QED
  BY <1>1 DEF Distinct, Apart

LEMMA AppendApart ==
  ASSUME NEW q \in Seq(Nat \ {0}), NEW b \in Nat \ {0}, NEW a \in Nat, Apart(q, a), a # b
  PROVE  Apart(Append(q, b), a)
<1>1. /\ DOMAIN q = 1 .. Len(q) /\ Len(q) \in Nat
      /\ DOMAIN Append(q, b) = 1 .. Len(q) + 1
      /\ \A k \in 1 .. Len(q) + 1 : Append(q, b)[k] = IF k = Len(q) + 1 THEN b ELSE q[k]
  OBVIOUS
<1> QED
  BY <1>1 DEF Apart

\* The batch that GetBatch gives: the first of the queue, or a new one.
LEMMA TakeBatch ==
  ASSUME NEW q \in Seq(Nat \ {0}), NEW m \in Nat, Distinct(q, m)
  PROVE  LET b == IF q = <<>> THEN m + 1 ELSE Head(q)
             n == IF q = <<>> THEN m + 1 ELSE m
             t == IF q = <<>> THEN q ELSE Tail(q)
         IN  /\ b \in Nat \ {0} /\ b <= n
             /\ Distinct(t, n)
             /\ Apart(t, b)
             /\ \A a \in Nat : Apart(q, a) /\ a <= m => Apart(t, a) /\ a # b
<1>1. CASE q = <<>>
  BY <1>1 DEF Distinct, Apart
<1>2. CASE q # <<>>
  <2>1. /\ DOMAIN q = 1 .. Len(q) /\ Len(q) \in Nat \ {0}
        /\ Head(q) = q[1] /\ q[1] \in Nat \ {0}
        /\ DOMAIN Tail(q) = 1 .. Len(q) - 1
        /\ \A k \in 1 .. Len(q) - 1 : Tail(q)[k] = q[k + 1]
    BY <1>2
  <2>4. /\ \A k \in 1 .. Len(q) : q[k] <= m
        /\ \A k, j \in 1 .. Len(q) : q[k] = q[j] => k = j
    BY <2>1 DEF Distinct
  <2>5. Distinct(Tail(q), m)
    <3>1. \A k \in 1 .. Len(q) - 1 : k + 1 \in 1 .. Len(q) /\ Tail(q)[k] = q[k + 1]
      BY <2>1
    <3>2. \A k \in 1 .. Len(q) - 1 : Tail(q)[k] <= m
      BY <2>4, <3>1
    <3>3. ASSUME NEW k \in 1 .. Len(q) - 1, NEW j \in 1 .. Len(q) - 1, Tail(q)[k] = Tail(q)[j]
          PROVE  k = j
      <4>1. q[k + 1] = q[j + 1] /\ k + 1 \in 1 .. Len(q) /\ j + 1 \in 1 .. Len(q)
        BY <3>1, <3>3, Zenon
      <4>2. k + 1 = j + 1
        BY <2>4, <4>1, Zenon
      <4> QED
        BY <2>1, <4>2
    <3> QED
      BY <2>1, <3>2, <3>3, Zenon DEF Distinct
  <2>6. Apart(Tail(q), q[1])
    BY <2>1, <2>4 DEF Apart
  <2>2. Distinct(Tail(q), m) /\ Apart(Tail(q), q[1]) /\ q[1] <= m
    BY <2>1, <2>4, <2>5, <2>6
  <2>3. \A a \in Nat : Apart(q, a) => Apart(Tail(q), a) /\ a # q[1]
    BY <2>1 DEF Apart
  <2> QED
    BY <1>2, <2>1, <2>2, <2>3
<1> QED
  BY <1>1, <1>2

\* What handleOutput puts back comes from an epoch that is gone by then.
LEMMA PutBatchApart ==
  ASSUME IInv, RInv, WinnerInv, WinnerInv', BatchInv,
         NEW i \in Node, NEW e \in Epochs, NEW r \in Rounds, NEW l \in HaltLeaders(e, r),
         HandleOutput(i, e, r, l)
  PROVE  /\ PutBatch(i, e, l) \in Seq(Nat \ {0})
         /\ Distinct(PutBatch(i, e, l), bcnt[i])
         /\ \A d \in Epochs : proposal[d][i] # 0 /\ ~ Gone(d, i)' =>
              /\ Apart(PutBatch(i, e, l), proposal[d][i])
              /\ ~ Gone(d, i)
<1>1. /\ decision[e][r] = "YES"
      /\ i \notin ended[e][r]
      /\ ended' = [ended EXCEPT ![e][r] = @ \cup {i}]
      /\ decision' = decision
  BY Zenon DEF HandleOutput
<1>2. /\ i \in ended'[e][r]
      /\ \A d \in Epochs, s \in Rounds : ended[d][s] \subseteq ended'[d][s]
  BY <1>1 DEF IInv, Types
<1>3. \A d \in Epochs : ~ Gone(d, i)' => ~ Gone(d, i)
  BY <1>1, <1>2, GoneStays, Zenon
<1>4. queue[i] \in Seq(Nat \ {0}) /\ bcnt[i] \in Nat /\ \A d \in Epochs : proposal[d][i] \in Nat
  BY DEF RInv, RestTypes
<1>5. Distinct(queue[i], bcnt[i])
  BY Zenon DEF BatchInv
<1>6. \A d \in Epochs : proposal[d][i] # 0 /\ ~ Gone(d, i) =>
        /\ Apart(queue[i], proposal[d][i])
        /\ \A f \in Epochs : d < f => proposal[f][i] # proposal[d][i]
  BY Zenon DEF BatchInv
<1>7. CASE l # i /\ {l, i} \subseteq has[e][i]
  <2>1. PutBatch(i, e, l) = Append(queue[i], proposal[e][i])
    BY <1>7, Zenon DEF PutBatch
  <2>2. Gone(e, i)'
    <3>1. l \in Node
      BY <1>7 DEF IInv, Types
    <3>2. l = LeaderOf[e][r]
      BY <3>1, CommitteeAssumption, Zenon DEF HaltLeaders
    <3>3. Winner(e)' = l
      BY <1>1, <3>2, Zenon DEF WinnerInv
    <3> QED
      BY <1>1, <1>2, <1>7, <3>3, Zenon DEF Gone
  <2>3. ~ Gone(e, i)
    BY <1>1, OneOutput, Zenon DEF Gone
  <2>4. proposal[e][i] \in Nat \ {0} /\ proposal[e][i] <= bcnt[i]
    BY <1>4, <1>7, Zenon DEF RInv, HasInv, BatchInv
  <2>5. Apart(queue[i], proposal[e][i])
    BY <1>6, <2>3, <2>4, Zenon
  <2>6. /\ Append(queue[i], proposal[e][i]) \in Seq(Nat \ {0})
        /\ Distinct(Append(queue[i], proposal[e][i]), bcnt[i])
    BY <1>4, <1>5, <2>4, <2>5, AppendDistinct
  <2>7. ASSUME NEW d \in Epochs, proposal[d][i] # 0, ~ Gone(d, i)'
        PROVE  Apart(Append(queue[i], proposal[e][i]), proposal[d][i]) /\ ~ Gone(d, i)
    <3>1. d # e /\ ~ Gone(d, i)
      BY <1>3, <2>2, <2>7, Zenon
    <3>2. d < e \/ e < d
      BY <3>1, MVBAAssumption DEF Epochs
    <3>3. proposal[d][i] # proposal[e][i]
      BY <1>6, <2>3, <2>4, <2>7, <3>1, <3>2
    <3>4. Apart(queue[i], proposal[d][i])
      BY <1>6, <2>7, <3>1, Zenon
    <3>5. Apart(Append(queue[i], proposal[e][i]), proposal[d][i])
      BY <1>4, <2>4, <3>3, <3>4, AppendApart
    <3> QED
      BY <3>1, <3>5, Zenon
  <2> QED
    BY <2>1, <2>6, <2>7, Zenon
<1>8. CASE ~ (l # i /\ {l, i} \subseteq has[e][i])
  <2>1. PutBatch(i, e, l) = queue[i]
    BY <1>8, Zenon DEF PutBatch
  <2> QED
    BY <1>3, <1>4, <1>5, <1>6, <2>1, Zenon
<1> QED
  BY <1>7, <1>8, Zenon

\* handleOutput, with the batch of the next epoch.
LEMMA HandleOutputBatch ==
  ASSUME IInv, RInv, WinnerInv, WinnerInv', BatchInv,
         NEW i \in Node, NEW e \in Epochs, NEW r \in Rounds, NEW l \in HaltLeaders(e, r),
         HandleOutput(i, e, r, l)
  PROVE  BatchInv'
<1> DEFINE q == PutBatch(i, e, l)
<1>1. /\ AbvanceNextEpoch(i, e + 1, q)
      /\ ended' = [ended EXCEPT ![e][r] = @ \cup {i}]
      /\ decision' = decision
  BY Zenon DEF HandleOutput
<1>2. /\ q \in Seq(Nat \ {0})
      /\ Distinct(q, bcnt[i])
      /\ \A d \in Epochs : proposal[d][i] # 0 /\ ~ Gone(d, i)' =>
           Apart(q, proposal[d][i]) /\ ~ Gone(d, i)
  BY PutBatchApart, Zenon
<1> HIDE DEF q
<1>3. \A d \in Epochs, j \in Node : ~ Gone(d, j)' => ~ Gone(d, j)
  <2>1. \A d \in Epochs, s \in Rounds : ended[d][s] \subseteq ended'[d][s]
    BY <1>1 DEF IInv, Types
  <2> QED
    BY <1>1, <2>1, GoneStays, Zenon
<1>4. /\ Epoch \in [Node -> 0 .. MaxEpoch + 1]
      /\ proposal \in [Epochs -> [Node -> Nat]]
      /\ queue \in [Node -> Seq(Nat \ {0})]
      /\ bcnt \in [Node -> Nat]
  BY Zenon DEF IInv, Types, RInv, RestTypes
<1> SUFFICES ASSUME NEW j \in Node PROVE BatchInv!(j)'
  BY Zenon DEF BatchInv
<1>8. ASSUME /\ Epoch'[j] = Epoch[j]
             /\ \A d \in Epochs : proposal'[d][j] = proposal[d][j]
             /\ bcnt'[j] = bcnt[j],
             Distinct(queue'[j], bcnt[j]),
             \A d \in Epochs : proposal[d][j] # 0 /\ ~ Gone(d, j)' => Apart(queue'[j], proposal[d][j])
      PROVE  BatchInv!(j)'
  <2>1. ASSUME NEW d \in Epochs
        PROVE  /\ proposal'[d][j] <= bcnt'[j]
               /\ Epoch'[j] < d => proposal'[d][j] = 0
               /\ proposal'[d][j] # 0 /\ ~ Gone(d, j)' =>
                    /\ Apart(queue'[j], proposal'[d][j])
                    /\ \A f \in Epochs : d < f => proposal'[f][j] # proposal'[d][j]
    <3>1. /\ proposal[d][j] <= bcnt[j]
          /\ Epoch[j] < d => proposal[d][j] = 0
          /\ proposal[d][j] # 0 /\ ~ Gone(d, j) =>
               \A f \in Epochs : d < f => proposal[f][j] # proposal[d][j]
      BY Zenon DEF BatchInv
    <3>2. proposal'[d][j] = proposal[d][j]
      BY <1>8, Zenon
    <3>3. ASSUME proposal[d][j] # 0, ~ Gone(d, j)', NEW f \in Epochs, d < f
          PROVE  proposal'[f][j] # proposal[d][j]
      BY <1>3, <1>8, <3>1, <3>3, Zenon
    <3> QED
      BY <1>8, <3>1, <3>2, <3>3, Zenon
  <2>2. Distinct(queue'[j], bcnt'[j])
    BY <1>8, Zenon
  <2> QED
    BY <2>1, <2>2, Zenon DEF Apart, Distinct
<1>5. CASE j # i
  <2>1. /\ \E x : Epoch' = Epoch \/ Epoch' = [Epoch EXCEPT ![i] = x]
        /\ \/ proposal' = proposal
           \/ e + 1 \in Epochs /\ \E x : proposal' = [proposal EXCEPT ![e + 1][i] = x]
        /\ \E x : queue' = [queue EXCEPT ![i] = x]
        /\ \E x : bcnt' = bcnt \/ bcnt' = [bcnt EXCEPT ![i] = x]
    BY <1>1, Zenon DEF AbvanceNextEpoch
  <2>2. /\ Epoch'[j] = Epoch[j]
        /\ queue'[j] = queue[j]
        /\ bcnt'[j] = bcnt[j]
    BY <1>4, <1>5, <2>1, Zenon
  <2>3. \A d \in Epochs : proposal'[d][j] = proposal[d][j]
    <3>1. ASSUME NEW x, e + 1 \in Epochs, proposal' = [proposal EXCEPT ![e + 1][i] = x]
          PROVE  \A d \in Epochs : proposal'[d][j] = proposal[d][j]
      BY <1>4, <1>5, <3>1, SMTT(20)
    <3> QED
      BY <2>1, <3>1, Zenon
  <2>4. /\ Distinct(queue[j], bcnt[j])
        /\ \A d \in Epochs : proposal[d][j] # 0 /\ ~ Gone(d, j) => Apart(queue[j], proposal[d][j])
    BY Zenon DEF BatchInv
  <2> QED
    BY <1>3, <1>8, <2>2, <2>3, <2>4, Zenon
<1>6. CASE j = i /\ e + 1 <= Epoch[i]
  <2>1. /\ Epoch'[j] = Epoch[j]
        /\ \A d \in Epochs : proposal'[d][j] = proposal[d][j]
        /\ queue'[j] = q
        /\ bcnt'[j] = bcnt[j]
    BY <1>1, <1>4, <1>6, Zenon DEF AbvanceNextEpoch
  <2>2. /\ Distinct(queue'[j], bcnt[j])
        /\ \A d \in Epochs : proposal[d][j] # 0 /\ ~ Gone(d, j)' => Apart(queue'[j], proposal[d][j])
    BY <1>2, <1>6, <2>1, Zenon
  <2> QED
    BY <1>8, <2>1, <2>2, Zenon
<1>7. CASE j = i /\ ~ (e + 1 <= Epoch[i])
  <2> DEFINE b == IF q = <<>> THEN bcnt[i] + 1 ELSE Head(q)
             n == IF q = <<>> THEN bcnt[i] + 1 ELSE bcnt[i]
             t == IF q = <<>> THEN q ELSE Tail(q)
  <2>1. /\ Epoch'[i] = e + 1
        /\ \A d \in Epochs : proposal'[d][i] = IF d = e + 1 THEN b ELSE proposal[d][i]
        /\ queue'[i] = t
        /\ bcnt'[i] = n
    BY <1>1, <1>4, <1>7, SMTT(20) DEF AbvanceNextEpoch
  <2>2. bcnt[i] \in Nat /\ n \in Nat /\ bcnt[i] <= n
    BY <1>4
  <2>3. /\ b \in Nat \ {0} /\ b <= n
        /\ Distinct(t, n)
        /\ Apart(t, b)
        /\ \A a \in Nat : Apart(q, a) /\ a <= bcnt[i] => Apart(t, a) /\ a # b
    BY <1>2, <2>2, TakeBatch, Zenon
  <2> HIDE DEF b, n, t
  <2>4. ASSUME NEW d \in Epochs
        PROVE  /\ proposal'[d][i] <= n
               /\ e + 1 < d => proposal'[d][i] = 0
               /\ proposal'[d][i] # 0 /\ ~ Gone(d, i)' =>
                    /\ Apart(t, proposal'[d][i])
                    /\ \A f \in Epochs : d < f => proposal'[f][i] # proposal'[d][i]
    <3>1. \A f \in Epochs : e + 1 <= f => proposal[f][i] = 0
      BY <1>4, <1>7, MVBAAssumption DEF BatchInv, Epochs
    <3>2. proposal[d][i] \in Nat /\ proposal[d][i] <= bcnt[i]
      BY <1>4, Zenon DEF BatchInv
    <3>3. CASE d = e + 1
      <4>1. proposal'[d][i] = b
        BY <2>1, <3>3, Zenon
      <4>2. ~ (e + 1 < d)
        BY <3>3, MVBAAssumption DEF Epochs
      <4>3. ASSUME NEW f \in Epochs, d < f PROVE proposal'[f][i] # b
        <5>1. f # e + 1 /\ e + 1 <= f
          BY <3>3, <4>3, MVBAAssumption DEF Epochs
        <5>2. proposal'[f][i] = 0
          BY <2>1, <3>1, <5>1, Zenon
        <5> QED
          BY <2>3, <5>2, Zenon
      <4> QED
        BY <2>3, <4>1, <4>2, <4>3, Zenon
    <3>4. CASE d # e + 1
      <4>1. proposal'[d][i] = proposal[d][i]
        BY <2>1, <3>4, Zenon
      <4>2. proposal[d][i] <= n /\ (e + 1 < d => proposal[d][i] = 0)
        BY <2>2, <3>1, <3>2, MVBAAssumption DEF Epochs
      <4>3. ASSUME proposal[d][i] # 0, ~ Gone(d, i)'
            PROVE  /\ Apart(t, proposal[d][i])
                   /\ \A f \in Epochs : d < f => proposal'[f][i] # proposal[d][i]
        <5>1. Apart(q, proposal[d][i]) /\ ~ Gone(d, i)
          BY <1>2, <4>3, Zenon
        <5>2. Apart(t, proposal[d][i]) /\ proposal[d][i] # b
          BY <2>3, <3>2, <5>1, Zenon
        <5>3. \A f \in Epochs : d < f => proposal[f][i] # proposal[d][i]
          BY <4>3, <5>1, Zenon DEF BatchInv
        <5> QED
          BY <2>1, <5>2, <5>3, Zenon
      <4> QED
        BY <4>1, <4>2, <4>3, Zenon
    <3> QED
      BY <3>3, <3>4, Zenon
  <2>5. BatchInv!(i)'
    BY <2>1, <2>3, <2>4, Zenon DEF Apart, Distinct
  <2> QED
    BY <1>7, <2>5, Zenon
<1> QED
  BY <1>5, <1>6, <1>7, Zenon

LEMMA NextBatchInv ==
  IInv /\ RInv /\ WinnerInv /\ WinnerInv' /\ BatchInv /\ [Next]_vars => BatchInv'
<1> QED
  BY BatchShape, BatchFrame, HandleOutputBatch, Zenon

\* A batch is output once, in any number of epochs, rounds and orders of the
\* ABABacks: it goes back to the queue only from an epoch that accepted another
\* node's block (handleOutput), and a node proposes it again only from there.
THEOREM MVBABatchIsOutputOnce == Spec => []BatchIsOutputOnce
<1>1. IInv /\ RInv /\ BatchInv => BatchIsOutputOnce
  <2> SUFFICES ASSUME IInv, RInv, BatchInv, NEW e \in Epochs, NEW p \in Node, Winner(e) = p
               PROVE  /\ \A f \in e + 1 .. MaxEpoch : proposal[f][p] # proposal[e][p]
                      /\ \A k \in DOMAIN queue[p] : queue[p][k] # proposal[e][p]
    BY Zenon DEF BatchIsOutputOnce
  <2>1. PICK r \in Rounds : decision[e][r] = "YES" /\ LeaderOf[e][r] = p
    <3>1. p # NONE
      BY CommitteeAssumption, Zenon
    <3>2. \E r \in Rounds : decision[e][r] = "YES"
      BY <3>1, Zenon DEF Winner
    <3> QED
      BY <3>2, OneWinner, Zenon DEF WinnerInv
  <2>2. proposal[e][p] # 0
    <3> DEFINE S == {j \in Node : p \in has[e][j]}
    <3>1. IsQuorum(S) /\ S \in SUBSET Node
      BY <2>1, Zenon DEF IInv, DecisionInv, Available
    <3>2. \E j \in Node : j \in S
      <4> HIDE DEF S
      <4> QED
        BY <3>1, SomeMember, ZenonT(40)
    <3> QED
      BY <3>2, Zenon DEF RInv, HasInv
  <2>3. ~ Gone(e, p)
    BY Zenon DEF Gone
  <2>4. /\ Apart(queue[p], proposal[e][p])
        /\ \A f \in Epochs : e < f => proposal[f][p] # proposal[e][p]
    BY <2>2, <2>3, Zenon DEF BatchInv
  <2>5. \A f \in e + 1 .. MaxEpoch : f \in Epochs /\ e < f
    BY MVBAAssumption DEF Epochs
  <2> QED
    BY <2>4, <2>5, Zenon DEF Apart
<1> QED
  BY <1>1, RestInvariance, OneWinner, InitBatchInv, NextBatchInv, PTL DEF Spec
=============================================================================
