----------------------------- MODULE EpochsProofs ----------------------------
(***************************************************************************)
(* What SMVBA nodes output over the epochs, for every committee, any      *)
(* number of epochs and any sequence of decisions.                        *)
(***************************************************************************)
EXTENDS SMVBAEpochs, CommitteeProofs

\* A node halts epochs below the one it is in.  The Committor has output those
\* below the first epoch not halted, and holds blocks of halted ones beyond.
GapInv ==
  \A i \in Node :
    /\ Index[i] <= Epoch[i]
    /\ \A e \in HaltFlags[i] : e < Epoch[i]
    /\ \A e \in 0 .. Index[i] - 1 : e \in HaltFlags[i]
    /\ Index[i] \notin HaltFlags[i]
    /\ \A e \in Epochs : Blocks[i][e] # NONE => e \in HaltFlags[i] /\ e > Index[i]

\* Where a block is stored, it was proposed; an epoch is halted with its block.
StoreInv ==
  /\ \A i, p \in Node, e \in Epochs : p \in store[i][e] => batch[p][e] # 0
  /\ \A i \in Node : \A e \in HaltFlags[i] : Decision[e] \in store[i][e]

\* The batches of node p: those that wait, and those of the blocks it proposed.
\* One that was decided, or that is in the current block, does not wait.
BatchInv ==
  \A p \in Node :
    /\ \A e \in Epochs : /\ batch[p][e] # 0 => e <= Epoch[p]
                         /\ batch[p][e] <= bcnt[p]
    /\ \A a \in 1 .. Len(queue[p]) : queue[p][a] \in 1 .. bcnt[p]
    /\ \A a, b \in 1 .. Len(queue[p]) : a # b => queue[p][a] # queue[p][b]
    /\ \A a \in 1 .. Len(queue[p]), e \in Epochs :
         Decision[e] = p \/ e = Epoch[p] => queue[p][a] # batch[p][e]
    /\ \A e, f \in Epochs :
         e < f /\ batch[p][e] = batch[p][f] /\ batch[p][e] # 0 => Decision[e] # p

EInv == TypeOK /\ LogIsDecided /\ GapInv /\ StoreInv /\ BatchInv

-----------------------------------------------------------------------------
\* The first epoch from a on without a block, where the scan starts at a gap.
LEMMA NextGapHere ==
  ASSUME NEW w \in [Epochs -> Node \cup {NONE}], NEW a \in Epochs, w[a] = NONE
  PROVE  NextGap(w, a) = a
<1> DEFINE P(k) == /\ \A e \in a .. k - 1 : w[e] # NONE
                   /\ k \in Epochs => w[k] = NONE
<1>1. a \in a .. MaxEpoch + 1 /\ P(a)
  BY EpochsAssumption DEF Epochs
<1>2. \A k \in a .. MaxEpoch + 1 : P(k) => k = a
  <2>1. \A k \in a .. MaxEpoch + 1 : k # a => a \in a .. k - 1
    BY EpochsAssumption DEF Epochs
  <2> QED
    BY <2>1
<1> HIDE DEF P
<1>3. (CHOOSE k \in a .. MaxEpoch + 1 : P(k)) = a
  BY <1>1, <1>2
<1> QED
  BY <1>3 DEF NextGap, P

\* The same where the only block from a on is the one of epoch a.
LEMMA NextGapNext ==
  ASSUME NEW w \in [Epochs -> Node \cup {NONE}], NEW a \in Epochs, w[a] # NONE,
         \A e \in Epochs : e > a => w[e] = NONE
  PROVE  NextGap(w, a) = a + 1
<1> DEFINE P(k) == /\ \A e \in a .. k - 1 : w[e] # NONE
                   /\ k \in Epochs => w[k] = NONE
<1>1. a + 1 \in a .. MaxEpoch + 1
  BY EpochsAssumption DEF Epochs
<1>2. P(a + 1)
  <2>1. \A e \in a .. (a + 1) - 1 : e = a
    BY EpochsAssumption DEF Epochs
  <2>2. a + 1 > a
    BY EpochsAssumption DEF Epochs
  <2> QED
    BY <2>1, <2>2
<1>3. \A k \in a .. MaxEpoch + 1 : P(k) => k = a + 1
  <2> SUFFICES ASSUME NEW k \in a .. MaxEpoch + 1, P(k), k # a + 1
               PROVE  FALSE
    OBVIOUS
  <2>1. k # a
    OBVIOUS
  <2>2. a + 1 \in a .. k - 1 /\ a + 1 \in Epochs /\ a + 1 > a
    BY <2>1, EpochsAssumption DEF Epochs
  <2> QED
    BY <2>2
<1> HIDE DEF P
<1>4. (CHOOSE k \in a .. MaxEpoch + 1 : P(k)) = a + 1
  BY <1>1, <1>2, <1>3
<1> QED
  BY <1>4 DEF NextGap, P

\* What Commit outputs of w when its scan goes from a to n, and what it keeps.
Line(w, a, n) == [k \in 1 .. n - a |-> w[a + k - 1]]
Rest(w, n) == [k \in Epochs |-> IF k < n THEN NONE ELSE w[k]]

\* A block behind a gap is kept, and nothing is output.
LEMMA CommitBehindGap ==
  ASSUME TypeOK, NEW i \in Node, NEW e \in Epochs, NEW p \in Node,
         e > Index[i], Blocks[i][Index[i]] = NONE, Commit(i, e, p)
  PROVE  /\ Index' = Index
         /\ log' = log
         /\ Blocks' \in [Node -> [Epochs -> Node \cup {NONE}]]
         /\ \A j \in Node, k \in Epochs :
              Blocks'[j][k] # NONE => Blocks[j][k] # NONE \/ (j = i /\ k = e)
<1> DEFINE w == [Blocks[i] EXCEPT ![e] = p]
<1>0. /\ Index[i] \in 0 .. MaxEpoch + 1
      /\ Blocks[i] \in [Epochs -> Node \cup {NONE}]
      /\ log[i] \in Seq(Node)
  BY DEF TypeOK
<1>1. Index[i] \in Epochs /\ ~ (e < Index[i])
  BY <1>0, EpochsAssumption DEF Epochs
<1>2. w \in [Epochs -> Node \cup {NONE}]
  BY <1>0
<1>3. w[Index[i]] = NONE
  BY <1>0, <1>1, EpochsAssumption DEF Epochs
<1>4. NextGap(w, Index[i]) = Index[i]
  BY <1>1, <1>2, <1>3, NextGapHere
<1>5. /\ Index' = [Index EXCEPT ![i] = Index[i]]
      /\ log' = [log EXCEPT ![i] = @ \o Line(w, Index[i], Index[i])]
      /\ Blocks' = [Blocks EXCEPT ![i] = Rest(w, Index[i])]
  <2>1. /\ Index' = [Index EXCEPT ![i] = NextGap(w, Index[i])]
        /\ log' = [log EXCEPT ![i] = @ \o Line(w, Index[i], NextGap(w, Index[i]))]
        /\ Blocks' = [Blocks EXCEPT ![i] = Rest(w, NextGap(w, Index[i]))]
    BY <1>1, Zenon DEF Commit, Line, Rest
  <2> HIDE DEF w
  <2> QED
    BY <1>4, <2>1
<1>6. Index' = Index
  BY <1>5 DEF TypeOK
<1>7. log' = log
  <2>1. Line(w, Index[i], Index[i]) = <<>>
    BY <1>1 DEF Epochs, Line
  <2>2. log[i] \o <<>> = log[i]
    BY <1>0
  <2> QED
    BY <1>5, <2>1, <2>2, Zenon DEF TypeOK
<1> DEFINE u == Rest(w, Index[i])
<1>8. u \in [Epochs -> Node \cup {NONE}]
  BY <1>2 DEF Rest
<1>9. \A k \in Epochs : u[k] # NONE => Blocks[i][k] # NONE \/ k = e
  BY <1>0 DEF Rest
<1> HIDE DEF w, u
<1>10. Blocks' = [Blocks EXCEPT ![i] = u]
  BY <1>5 DEF u
<1> QED
  BY <1>6, <1>7, <1>8, <1>9, <1>10 DEF TypeOK

\* A block that is next in line is output, alone where nothing waits.
LEMMA CommitInLine ==
  ASSUME TypeOK, LogIsDecided, NEW i \in Node, NEW e \in Epochs,
         e = Index[i], \A k \in Epochs : Blocks[i][k] = NONE,
         Commit(i, e, Decision[e])
  PROVE  /\ Index' = [Index EXCEPT ![i] = e + 1]
         /\ log' = [log EXCEPT ![i] = [k \in 1 .. e + 1 |-> Decision[k - 1]]]
         /\ Blocks' \in [Node -> [Epochs -> Node \cup {NONE}]]
         /\ \A k \in Epochs : Blocks'[i][k] = NONE
         /\ \A j \in Node : j # i => Blocks'[j] = Blocks[j]
<1> DEFINE w == [Blocks[i] EXCEPT ![e] = Decision[e]]
<1>0. /\ Blocks[i] \in [Epochs -> Node \cup {NONE}]
      /\ log[i] \in Seq(Node)
  BY DEF TypeOK
<1>1. e \in Nat /\ e + 1 \in Nat /\ Decision[e] \in Node /\ Decision[e] # NONE
  BY EpochsAssumption, CommitteeAssumption DEF Epochs
<1>2. w \in [Epochs -> Node \cup {NONE}]
  BY <1>0, <1>1
<1>3. w[e] = Decision[e] /\ \A k \in Epochs : k > e => w[k] = NONE
  BY <1>0, <1>1, EpochsAssumption DEF Epochs
<1>4. NextGap(w, e) = e + 1
  BY <1>1, <1>2, <1>3, NextGapNext
<1>5. /\ Index' = [Index EXCEPT ![i] = e + 1]
      /\ log' = [log EXCEPT ![i] = @ \o Line(w, e, e + 1)]
      /\ Blocks' = [Blocks EXCEPT ![i] = Rest(w, e + 1)]
  <2>1. ~ (e < Index[i])
    BY <1>1
  <2>2. /\ Index' = [Index EXCEPT ![i] = NextGap(w, Index[i])]
        /\ log' = [log EXCEPT ![i] = @ \o Line(w, Index[i], NextGap(w, Index[i]))]
        /\ Blocks' = [Blocks EXCEPT ![i] = Rest(w, NextGap(w, Index[i]))]
    BY <2>1, Zenon DEF Commit, Line, Rest
  <2> HIDE DEF w
  <2> QED
    BY <1>4, <2>2, Zenon
<1>6. Line(w, e, e + 1) = <<Decision[e]>>
  <2>1. (e + 1) - e = 1 /\ e + 1 - 1 = e
    BY <1>1
  <2>2. \A k \in 1 .. 1 : w[e + k - 1] = Decision[e]
    BY <1>1, <1>3
  <2> HIDE DEF w
  <2> QED
    BY <2>1, <2>2 DEF Line
<1>7. log[i] = [k \in 1 .. e |-> Decision[k - 1]]
  BY DEF LogIsDecided
<1>8. log[i] \o <<Decision[e]>> = [k \in 1 .. e + 1 |-> Decision[k - 1]]
  <2>1. Len(log[i]) = e /\ log[i] \in Seq(Node)
    BY <1>0, <1>1, <1>7
  <2> QED
    BY <1>1, <1>7, <2>1
<1> DEFINE u == Rest(w, e + 1)
<1>9. u \in [Epochs -> Node \cup {NONE}] /\ \A k \in Epochs : u[k] = NONE
  BY <1>1, <1>2, <1>3 DEF Epochs, Rest
<1> HIDE DEF w, u
<1>10. Blocks' = [Blocks EXCEPT ![i] = u]
  BY <1>5 DEF u
<1>11. log' = [log EXCEPT ![i] = [k \in 1 .. e + 1 |-> Decision[k - 1]]]
  BY <1>5, <1>6, <1>8, Zenon DEF TypeOK
<1>12. Blocks' \in [Node -> [Epochs -> Node \cup {NONE}]]
  BY <1>9, <1>10 DEF TypeOK
<1>13. Blocks'[i] = u /\ \A j \in Node : j # i => Blocks'[j] = Blocks[j]
  BY <1>10 DEF TypeOK
<1>14. \A k \in Epochs : Blocks'[i][k] = NONE
  BY <1>9, <1>13
<1> QED
  BY <1>5, <1>11, <1>12, <1>13, <1>14, Zenon

-----------------------------------------------------------------------------
\* The invariant holds initially.
LEMMA InitEInv == Init => EInv
<1> SUFFICES ASSUME Init PROVE EInv
  OBVIOUS
<1> USE EpochsAssumption, CommitteeAssumption DEF Init
<1>1. TypeOK
  <2>1. 0 \in 0 .. MaxEpoch + 1 /\ 0 \in Nat /\ 1 \in Nat
    OBVIOUS
  <2>2. /\ <<>> \in Seq(Nat)
        /\ <<>> \in Seq(Node)
        /\ halts \in Seq(HaltMsg)
    OBVIOUS
  <2> QED
    BY <2>1, <2>2 DEF TypeOK
<1>2. LogIsDecided
  <2>1. \A i \in Node : log[i] = <<>> /\ Index[i] = 0
    OBVIOUS
  <2>2. [k \in 1 .. 0 |-> Decision[k - 1]] = <<>>
    OBVIOUS
  <2> QED
    BY <2>1, <2>2 DEF LogIsDecided
<1>3. GapInv
  BY DEF GapInv
<1>4. StoreInv
  BY DEF StoreInv
<1>5. BatchInv
  <2>1. \A p \in Node : queue[p] = <<>> /\ bcnt[p] = 1 /\ Epoch[p] = 0
    OBVIOUS
  <2>2. \A p \in Node, e \in Epochs : batch[p][e] = IF e = 0 THEN 1 ELSE 0
    OBVIOUS
  <2>3. \A e \in Epochs : e \in Nat
    BY DEF Epochs
  <2>4. Len(<<>>) = 0
    OBVIOUS
  <2> QED
    BY <2>1, <2>2, <2>3, <2>4 DEF BatchInv
<1> QED
  BY <1>1, <1>2, <1>3, <1>4, <1>5 DEF EInv

\* A late proposal is committed behind a gap or not at all: nothing is output.
LEMMA LateCommit ==
  ASSUME EInv, NEW i \in Node, NEW e \in Epochs, NEW p \in Node,
         HandleSpbProposal(i, e, p)
  PROVE  /\ Index' = Index
         /\ log' = log
         /\ Blocks' \in [Node -> [Epochs -> Node \cup {NONE}]]
         /\ \A j \in Node, k \in Epochs : Blocks'[j][k] # NONE =>
              \/ Blocks[j][k] # NONE
              \/ j = i /\ k = e /\ e \in HaltFlags[i] /\ e > Index[i]
<1>1. CASE e \in HaltFlags[i] /\ leaders[i][e] = p /\ ~ (e < Index[i])
  <2>1. Commit(i, e, p)
    BY <1>1 DEF HandleSpbProposal
  <2>2. TypeOK /\ GapInv
    BY DEF EInv
  <2>3. Index[i] \in 0 .. MaxEpoch + 1
    BY <2>2 DEF TypeOK
  <2>4. e # Index[i] /\ e > Index[i] /\ Index[i] \in Epochs
    BY <1>1, <2>2, <2>3, EpochsAssumption DEF GapInv, Epochs
  <2>5. Blocks[i][Index[i]] = NONE
    BY <2>2, <2>4 DEF GapInv
  <2> QED
    BY <1>1, <2>1, <2>2, <2>4, <2>5, CommitBehindGap
<1>2. CASE ~ (e \in HaltFlags[i] /\ leaders[i][e] = p /\ ~ (e < Index[i]))
  <2>1. UNCHANGED commitVars
    BY <1>2 DEF HandleSpbProposal, Commit
  <2> QED
    BY <2>1 DEF commitVars, EInv, TypeOK
<1> QED
  BY <1>1, <1>2

\* A proposal keeps the invariant.
LEMMA HandleSpbProposalEInv ==
  ASSUME EInv, NEW i \in Node, NEW e \in Epochs, NEW p \in Node,
         HandleSpbProposal(i, e, p)
  PROVE  EInv'
<1>1. /\ Index' = Index
      /\ log' = log
      /\ Blocks' \in [Node -> [Epochs -> Node \cup {NONE}]]
      /\ \A j \in Node, k \in Epochs : Blocks'[j][k] # NONE =>
           \/ Blocks[j][k] # NONE
           \/ j = i /\ k = e /\ e \in HaltFlags[i] /\ e > Index[i]
  BY LateCommit
<1>2. /\ UNCHANGED <<Epoch, batch, queue, bcnt, halts, handled, HaltFlags, leaders>>
      /\ store' = IF e < Epoch[i] THEN store ELSE [store EXCEPT ![i][e] = @ \cup {p}]
      /\ batch[p][e] # 0
  BY DEF HandleSpbProposal, poolVars
<1>3. store \in [Node -> [Epochs -> SUBSET Node]]
  BY Zenon DEF EInv, TypeOK
<1>4. /\ store' \in [Node -> [Epochs -> SUBSET Node]]
      /\ \A j \in Node, k \in Epochs :
           /\ store[j][k] \subseteq store'[j][k]
           /\ \A q \in store'[j][k] : q \in store[j][k] \/ (k = e /\ q = p)
  <2> DEFINE s == store[i][e] \cup {p}
  <2>1. s \in SUBSET Node
    BY <1>3, Zenon
  <2>2. /\ [store EXCEPT ![i][e] = s] \in [Node -> [Epochs -> SUBSET Node]]
        /\ \A j \in Node, k \in Epochs :
             [store EXCEPT ![i][e] = s][j][k] = IF j = i /\ k = e THEN s ELSE store[j][k]
    <3> HIDE DEF s
    <3> QED
      BY <1>3, <2>1, EntryUpdate
  <2>3. store' = store \/ store' = [store EXCEPT ![i][e] = s]
    BY <1>2, Zenon
  <2>4. CASE store' = store
    BY <1>3, <2>4, Zenon
  <2>5. CASE store' = [store EXCEPT ![i][e] = s]
    BY <2>2, <2>5, Zenon
  <2> QED
    BY <2>3, <2>4, <2>5, Zenon
<1>5. TypeOK'
  BY <1>1, <1>2, <1>4, Zenon DEF EInv, TypeOK
<1>6. LogIsDecided'
  BY <1>1, Zenon DEF EInv, LogIsDecided
<1>7. GapInv'
  BY <1>1, <1>2, Zenon DEF EInv, GapInv
<1>8. StoreInv'
  <2>1. \A j, q \in Node, k \in Epochs : q \in store'[j][k] => batch'[q][k] # 0
    BY <1>2, <1>4, Zenon DEF EInv, StoreInv
  <2>2. \A j \in Node : \A k \in HaltFlags'[j] : Decision[k] \in store'[j][k]
    <3>1. \A j \in Node : HaltFlags[j] \subseteq Epochs
      BY Zenon DEF EInv, TypeOK
    <3> QED
      BY <1>2, <1>4, <3>1, Zenon DEF EInv, StoreInv
  <2> QED
    BY <2>1, <2>2, Zenon DEF StoreInv
<1>9. BatchInv'
  BY <1>2 DEF EInv, BatchInv
<1> QED
  BY <1>5, <1>6, <1>7, <1>8, <1>9, Zenon DEF EInv

\* So does the broadcast of a Halt.
LEMMA BroadcastHaltEInv ==
  ASSUME EInv, NEW i \in Node, NEW e \in Epochs, NEW ld \in Node, BroadcastHalt(i, e, ld)
  PROVE  EInv'
<1> DEFINE m == [author |-> i, leader |-> ld, epoch |-> e]
<1>1. /\ UNCHANGED <<Epoch, batch, queue, bcnt, store, handled, HaltFlags, leaders,
                     Index, Blocks, log>>
      /\ halts' = Append(halts, m)
  BY Zenon DEF BroadcastHalt, poolVars, commitVars
<1>2. m \in HaltMsg
  BY Zenon DEF HaltMsg
<1>3. halts' \in Seq(HaltMsg) /\ DOMAIN halts \subseteq DOMAIN halts'
  <2>1. halts \in Seq(HaltMsg)
    BY Zenon DEF EInv, TypeOK
  <2> HIDE DEF m
  <2> QED
    BY <1>1, <1>2, <2>1
<1>4. TypeOK'
  BY <1>1, <1>3, Zenon DEF EInv, TypeOK
<1>5. (LogIsDecided /\ GapInv)'
  BY <1>1, Zenon DEF EInv, LogIsDecided, GapInv
<1>6. StoreInv'
  BY <1>1, Zenon DEF EInv, StoreInv
<1>7. BatchInv'
  BY <1>1 DEF EInv, BatchInv
<1> QED
  BY <1>4, <1>5, <1>6, <1>7, Zenon DEF EInv

-----------------------------------------------------------------------------
\* The Halt a node handles is one of an epoch it has not left.
LEMMA PendingType ==
  ASSUME TypeOK, NEW i \in Node, NEW k \in Pending(i)
  PROVE  /\ k \in DOMAIN halts
         /\ halts[k].epoch \in Epochs
         /\ halts[k].leader \in Node
         /\ halts[k].epoch >= Epoch[i]
         /\ Epoch[i] \in 0 .. MaxEpoch + 1
         /\ handled' = [handled EXCEPT ![i] = @ \cup {k}] =>
              handled' \in [Node -> SUBSET (DOMAIN halts)]
         /\ leaders' = [leaders EXCEPT ![i][halts[k].epoch] = halts[k].leader] =>
              leaders' \in [Node -> [Epochs -> Node \cup {NONE}]]
<1>1. k \in DOMAIN halts /\ halts[k].epoch >= Epoch[i] /\ halts \in Seq(HaltMsg)
  BY Zenon DEF Pending, TypeOK
<1>2. halts[k] \in HaltMsg
  BY <1>1
<1>3. halts[k].epoch \in Epochs /\ halts[k].leader \in Node
  BY <1>2, Zenon DEF HaltMsg
<1>4. ASSUME handled' = [handled EXCEPT ![i] = @ \cup {k}]
      PROVE  handled' \in [Node -> SUBSET (DOMAIN halts)]
  BY <1>1, <1>4, Zenon DEF TypeOK
<1>5. [leaders EXCEPT ![i][halts[k].epoch] = halts[k].leader]
        \in [Node -> [Epochs -> Node \cup {NONE}]]
  <2>1. leaders \in [Node -> [Epochs -> Node \cup {NONE}]]
    BY Zenon DEF TypeOK
  <2>2. halts[k].leader \in Node \cup {NONE}
    BY <1>3, Zenon
  <2> QED
    BY <1>3, <2>1, <2>2, EntryUpdate, Zenon
<1>6. Epoch[i] \in 0 .. MaxEpoch + 1
  BY Zenon DEF TypeOK
<1> QED
  BY <1>1, <1>3, <1>4, <1>5, <1>6, Zenon

\* The commit of an epoch that halts: what the node outputs stays the sequence
\* of decisions, and ends at the first epoch it has not halted.
LEMMA HaltCommit ==
  ASSUME TypeOK, LogIsDecided, GapInv, NEW i \in Node, NEW e \in Epochs, e >= Epoch[i],
         Commit(i, e, Decision[e]),
         HaltFlags' = [HaltFlags EXCEPT ![i] = @ \cup {e}],
         Epoch' = [Epoch EXCEPT ![i] = e + 1]
  PROVE  /\ Epoch' \in [Node -> 0 .. MaxEpoch + 1]
         /\ HaltFlags' \in [Node -> SUBSET Epochs]
         /\ Index' \in [Node -> 0 .. MaxEpoch + 1]
         /\ Blocks' \in [Node -> [Epochs -> Node \cup {NONE}]]
         /\ log' \in [Node -> Seq(Node)]
         /\ LogIsDecided'
         /\ GapInv'
<1>1. /\ Index[i] \in 0 .. MaxEpoch + 1 /\ Epoch[i] \in 0 .. MaxEpoch + 1
      /\ e \in 0 .. MaxEpoch /\ MaxEpoch \in Nat
      /\ Index[i] <= Epoch[i]
      /\ Decision[e] \in Node
  BY EpochsAssumption, Zenon DEF TypeOK, Epochs, GapInv
<1>2. Epoch' \in [Node -> 0 .. MaxEpoch + 1] /\ HaltFlags' \in [Node -> SUBSET Epochs]
  <2>1. e + 1 \in 0 .. MaxEpoch + 1
    BY <1>1
  <2> QED
    BY <2>1, Zenon DEF TypeOK
<1>3. /\ \A j \in Node : j # i => Epoch'[j] = Epoch[j] /\ HaltFlags'[j] = HaltFlags[j]
      /\ Epoch'[i] = e + 1
      /\ HaltFlags'[i] = HaltFlags[i] \cup {e}
  BY Zenon DEF TypeOK
<1>4. \A h \in HaltFlags[i] : h \in Epochs /\ h < Epoch[i] /\ h < e + 1
  <2>1. \A h \in HaltFlags[i] : h \in 0 .. MaxEpoch /\ h < Epoch[i]
    BY Zenon DEF TypeOK, GapInv, Epochs
  <2> QED
    BY <1>1, <2>1 DEF Epochs
<1>5. CASE e > Index[i]
  <2>1. Blocks[i][Index[i]] = NONE
    <3>1. Index[i] \in Epochs
      BY <1>1, <1>5 DEF Epochs
    <3> QED
      BY <1>1, <3>1, Zenon DEF GapInv
  <2>2. /\ Index' = Index
        /\ log' = log
        /\ Blocks' \in [Node -> [Epochs -> Node \cup {NONE}]]
        /\ \A j \in Node, k \in Epochs :
             Blocks'[j][k] # NONE => Blocks[j][k] # NONE \/ (j = i /\ k = e)
    BY <1>1, <1>5, <2>1, CommitBehindGap, Zenon
  <2>3. LogIsDecided'
    BY <2>2, Zenon DEF LogIsDecided
  <2>4. GapInv'
    <3> SUFFICES ASSUME NEW j \in Node
                 PROVE  /\ Index'[j] <= Epoch'[j]
                        /\ \A h \in HaltFlags'[j] : h < Epoch'[j]
                        /\ \A h \in 0 .. Index'[j] - 1 : h \in HaltFlags'[j]
                        /\ Index'[j] \notin HaltFlags'[j]
                        /\ \A h \in Epochs : Blocks'[j][h] # NONE =>
                             h \in HaltFlags'[j] /\ h > Index'[j]
      BY Zenon DEF GapInv
    <3>1. CASE j = i
      <4>1. Index'[i] <= Epoch'[i]
        BY <1>1, <1>3, <2>2
      <4>2. \A h \in HaltFlags'[i] : h < Epoch'[i]
        BY <1>1, <1>3, <1>4
      <4>3. /\ \A h \in 0 .. Index'[i] - 1 : h \in HaltFlags'[i]
            /\ Index'[i] \notin HaltFlags'[i]
        BY <1>1, <1>3, <1>5, <2>2 DEF GapInv
      <4>4. \A h \in Epochs : Blocks'[i][h] # NONE => h \in HaltFlags'[i] /\ h > Index'[i]
        BY <1>3, <1>5, <2>2, ZenonT(40) DEF GapInv
      <4> QED
        BY <3>1, <4>1, <4>2, <4>3, <4>4, Zenon
    <3>2. CASE j # i
      BY <1>3, <2>2, <3>2, Zenon DEF GapInv
    <3> QED
      BY <3>1, <3>2, Zenon
  <2> QED
    BY <1>2, <2>2, <2>3, <2>4, Zenon DEF TypeOK
<1>6. CASE ~ (e > Index[i])
  <2>1. e = Index[i] /\ e = Epoch[i]
    BY <1>1, <1>6
  <2>2. \A k \in Epochs : Blocks[i][k] = NONE
    <3> SUFFICES ASSUME NEW k \in Epochs, Blocks[i][k] # NONE
                 PROVE  FALSE
      BY Zenon
    <3>1. k \in HaltFlags[i] /\ k > Index[i]
      BY Zenon DEF GapInv
    <3>2. k < Epoch[i] /\ k \in Nat
      BY <1>4, <3>1 DEF Epochs
    <3> QED
      BY <1>1, <2>1, <3>1, <3>2
  <2>3. /\ Index' = [Index EXCEPT ![i] = e + 1]
        /\ log' = [log EXCEPT ![i] = [k \in 1 .. e + 1 |-> Decision[k - 1]]]
        /\ Blocks' \in [Node -> [Epochs -> Node \cup {NONE}]]
        /\ \A k \in Epochs : Blocks'[i][k] = NONE
        /\ \A j \in Node : j # i => Blocks'[j] = Blocks[j]
    BY <2>1, <2>2, CommitInLine, Zenon
  <2>4. /\ Index' \in [Node -> 0 .. MaxEpoch + 1]
        /\ Index'[i] = e + 1
        /\ \A j \in Node : j # i => Index'[j] = Index[j]
    <3>1. e + 1 \in 0 .. MaxEpoch + 1
      BY <1>1
    <3> QED
      BY <2>3, <3>1, Zenon DEF TypeOK
  <2>5. log' \in [Node -> Seq(Node)]
    <3>1. e + 1 \in Nat /\ \A k \in 1 .. e + 1 : Decision[k - 1] \in Node
      <4>1. \A k \in 1 .. e + 1 : k - 1 \in Epochs
        BY <1>1 DEF Epochs
      <4> QED
        BY <1>1, <4>1, EpochsAssumption
    <3>2. [k \in 1 .. e + 1 |-> Decision[k - 1]] \in Seq(Node)
      BY <3>1
    <3> QED
      BY <2>3, <3>2, Zenon DEF TypeOK
  <2>6. LogIsDecided'
    <3>1. \A j \in Node : log'[j] = [k \in 1 .. Index'[j] |-> Decision[k - 1]]
      <4> SUFFICES ASSUME NEW j \in Node
                   PROVE  log'[j] = [k \in 1 .. Index'[j] |-> Decision[k - 1]]
        BY Zenon
      <4>1. CASE j = i
        BY <2>3, <2>4, <4>1, Zenon DEF TypeOK
      <4>2. CASE j # i
        <5>1. log'[j] = log[j] /\ Index'[j] = Index[j]
          BY <2>3, <2>4, <4>2, Zenon DEF TypeOK
        <5> QED
          BY <5>1, Zenon DEF LogIsDecided
      <4> QED
        BY <4>1, <4>2, Zenon
    <3> QED
      BY <3>1, Zenon DEF LogIsDecided
  <2>7. GapInv'
    <3> SUFFICES ASSUME NEW j \in Node
                 PROVE  /\ Index'[j] <= Epoch'[j]
                        /\ \A h \in HaltFlags'[j] : h < Epoch'[j]
                        /\ \A h \in 0 .. Index'[j] - 1 : h \in HaltFlags'[j]
                        /\ Index'[j] \notin HaltFlags'[j]
                        /\ \A h \in Epochs : Blocks'[j][h] # NONE =>
                             h \in HaltFlags'[j] /\ h > Index'[j]
      BY Zenon DEF GapInv
    <3>1. CASE j = i
      <4>1. Index'[i] <= Epoch'[i]
        BY <1>1, <1>3, <2>4
      <4>2. \A h \in HaltFlags'[i] : h < Epoch'[i]
        BY <1>1, <1>3, <1>4
      <4>3. \A h \in 0 .. Index'[i] - 1 : h \in HaltFlags'[i]
        <5>1. \A h \in 0 .. Index'[i] - 1 : h \in 0 .. Index[i] - 1 \/ h = e
          BY <1>1, <2>1, <2>4
        <5> QED
          BY <1>3, <5>1, Zenon DEF GapInv
      <4>4. Index'[i] \notin HaltFlags'[i]
        BY <1>1, <1>3, <2>4, <4>2
      <4> QED
        BY <2>3, <3>1, <4>1, <4>2, <4>3, <4>4, Zenon
    <3>2. CASE j # i
      BY <1>3, <2>3, <2>4, <3>2, ZenonT(40) DEF GapInv
    <3> QED
      BY <3>1, <3>2, Zenon
  <2> QED
    BY <1>2, <2>3, <2>4, <2>5, <2>6, <2>7, Zenon
<1> QED
  BY <1>5, <1>6, Zenon

-----------------------------------------------------------------------------
\* The channel a node takes its next batch from holds each batch once, and none
\* that was decided: the batch that came back is one of a block that lost.
LEMMA BatchBack ==
  ASSUME EInv, NEW i \in Node, NEW e \in Epochs, e >= Epoch[i],
         NEW q \in OwnBatchBack(i, e)
  PROVE  /\ q \in Seq(Nat)
         /\ \A a \in 1 .. Len(q) : q[a] \in 1 .. bcnt[i]
         /\ \A a, b \in 1 .. Len(q) : a # b => q[a] # q[b]
         /\ \A a \in 1 .. Len(q), k \in Epochs : Decision[k] = i => q[a] # batch[i][k]
<1> DEFINE c == queue[i]
           x == batch[i][e]
<1>1. /\ c \in Seq(Nat)
      /\ \A a \in 1 .. Len(c) : c[a] \in 1 .. bcnt[i]
      /\ \A a, b \in 1 .. Len(c) : a # b => c[a] # c[b]
      /\ \A a \in 1 .. Len(c), k \in Epochs :
           Decision[k] = i \/ k = Epoch[i] => c[a] # batch[i][k]
  BY Zenon DEF EInv, TypeOK, BatchInv
<1>2. CASE q = c
  BY <1>1, <1>2, Zenon
<1>3. CASE q # c
  <2>1. q = Append(c, x) /\ Decision[e] # i /\ i \in store[i][e]
    BY <1>3, Zenon DEF OwnBatchBack
  <2>2. x # 0
    BY <2>1, Zenon DEF EInv, StoreInv
  <2>3. x \in Nat /\ bcnt[i] \in Nat /\ Epoch[i] \in Nat /\ \A k \in Epochs : k \in Nat
    BY EpochsAssumption DEF EInv, TypeOK, Epochs
  <2>4. e <= Epoch[i] /\ x <= bcnt[i]
    BY <2>2, Zenon DEF EInv, BatchInv
  <2>5. x \in 1 .. bcnt[i] /\ e = Epoch[i]
    BY <2>2, <2>3, <2>4
  <2>6. \A a \in 1 .. Len(c) : c[a] # x
    BY <1>1, <2>5, Zenon
  <2>7. \A k \in Epochs : Decision[k] = i => x # batch[i][k]
    <3> SUFFICES ASSUME NEW k \in Epochs, Decision[k] = i, x = batch[i][k]
                 PROVE  FALSE
      BY Zenon
    <3>1. k <= Epoch[i]
      BY <2>2, Zenon DEF EInv, BatchInv
    <3>2. k < e
      BY <2>1, <2>3, <2>5, <3>1
    <3> QED
      BY <2>2, <3>2, Zenon DEF EInv, BatchInv
  <2> HIDE DEF c, x
  <2>8. /\ q \in Seq(Nat)
        /\ Len(q) = Len(c) + 1
        /\ Len(c) \in Nat
        /\ \A a \in 1 .. Len(q) : q[a] = IF a = Len(c) + 1 THEN x ELSE c[a]
        /\ \A a \in 1 .. Len(q) : a # Len(c) + 1 => a \in 1 .. Len(c)
    BY <1>1, <2>1, <2>3
  <2>9. \A a \in 1 .. Len(q) : q[a] \in 1 .. bcnt[i]
    BY <1>1, <2>5, <2>8, Zenon
  <2>10. \A a, b \in 1 .. Len(q) : a # b => q[a] # q[b]
    BY <1>1, <2>6, <2>8, Zenon
  <2>11. \A a \in 1 .. Len(q), k \in Epochs : Decision[k] = i => q[a] # batch[i][k]
    BY <1>1, <2>7, <2>8, Zenon
  <2> QED
    BY <2>8, <2>9, <2>10, <2>11, Zenon
<1> QED
  BY <1>2, <1>3, Zenon

\* The batch of a new block is none that waits and none that was decided.
LEMMA GetBatchFresh ==
  ASSUME NEW i \in Node, NEW n \in Nat, NEW q \in Seq(Nat),
         NEW B \in [Epochs -> Nat], \A k \in Epochs : B[k] <= n,
         \A a \in 1 .. Len(q) : q[a] \in 1 .. n,
         \A a, b \in 1 .. Len(q) : a # b => q[a] # q[b],
         \A a \in 1 .. Len(q), k \in Epochs : Decision[k] = i => q[a] # B[k]
  PROVE  LET got == GetBatch(n, q) IN
         /\ got.made \in Nat /\ got.made >= n
         /\ got.batch \in 1 .. got.made
         /\ got.rest \in Seq(Nat)
         /\ \A a \in 1 .. Len(got.rest) : got.rest[a] \in 1 .. got.made
         /\ \A a, b \in 1 .. Len(got.rest) : a # b => got.rest[a] # got.rest[b]
         /\ \A a \in 1 .. Len(got.rest) : got.rest[a] # got.batch
         /\ \A a \in 1 .. Len(got.rest), k \in Epochs : Decision[k] = i => got.rest[a] # B[k]
         /\ \A k \in Epochs : B[k] = got.batch => Decision[k] # i
<1> DEFINE got == GetBatch(n, q)
<1>1. CASE q = <<>>
  <2>1. got.batch = n + 1 /\ got.rest = <<>> /\ got.made = n + 1
    BY <1>1, Zenon DEF GetBatch
  <2>2. <<>> \in Seq(Nat) /\ Len(<<>>) = 0
    OBVIOUS
  <2>3. \A k \in Epochs : B[k] # n + 1
    OBVIOUS
  <2> HIDE DEF got
  <2>4. /\ got.made \in Nat /\ got.made >= n
        /\ got.batch \in 1 .. got.made
        /\ got.rest \in Seq(Nat)
        /\ \A a \in 1 .. Len(got.rest) : FALSE
    BY <2>1, <2>2
  <2>5. \A k \in Epochs : B[k] # got.batch
    BY <2>1, <2>3, Zenon
  <2> QED
    BY <2>4, <2>5, Zenon DEF got
<1>2. CASE q # <<>>
  <2>1. got.batch = Head(q) /\ got.rest = Tail(q) /\ got.made = n
    BY <1>2, Zenon DEF GetBatch
  <2>2. /\ Len(q) \in Nat \ {0}
        /\ Head(q) = q[1]
        /\ Tail(q) \in Seq(Nat)
        /\ Len(Tail(q)) = Len(q) - 1
        /\ \A a \in 1 .. Len(q) - 1 : Tail(q)[a] = q[a + 1]
    BY <1>2
  <2> HIDE DEF got
  <2>3. /\ got.batch = q[1] /\ got.made = n /\ got.rest \in Seq(Nat)
        /\ 1 \in 1 .. Len(q)
        /\ \A a \in 1 .. Len(got.rest) :
             a + 1 \in 1 .. Len(q) /\ a + 1 # 1 /\ got.rest[a] = q[a + 1]
    BY <2>1, <2>2
  <2>4. /\ got.made \in Nat /\ got.made >= n
        /\ got.batch \in 1 .. got.made
        /\ \A a \in 1 .. Len(got.rest) : got.rest[a] \in 1 .. got.made
    <3>1. \A a \in 1 .. Len(got.rest) : \E b \in 1 .. Len(q) : got.rest[a] = q[b]
      BY <2>3, Zenon
    <3>2. \A a \in 1 .. Len(got.rest) : got.rest[a] \in 1 .. n
      BY <3>1, Zenon
    <3>3. q[1] \in 1 .. n /\ n >= n
      BY <2>3
    <3> QED
      BY <2>3, <3>2, <3>3, Zenon
  <2>5. \A a, b \in 1 .. Len(got.rest) : a # b => got.rest[a] # got.rest[b]
    <3> SUFFICES ASSUME NEW a \in 1 .. Len(got.rest), NEW b \in 1 .. Len(got.rest), a # b
                 PROVE  got.rest[a] # got.rest[b]
      BY Zenon
    <3>1. a + 1 # b + 1
      OBVIOUS
    <3>2. /\ a + 1 \in 1 .. Len(q) /\ got.rest[a] = q[a + 1]
          /\ b + 1 \in 1 .. Len(q) /\ got.rest[b] = q[b + 1]
      BY <2>3, Zenon
    <3>3. q[a + 1] # q[b + 1]
      BY <3>1, <3>2, Zenon
    <3> QED
      BY <3>2, <3>3, Zenon
  <2>6. \A a \in 1 .. Len(got.rest) : got.rest[a] # got.batch
    BY <2>3
  <2>7. \A a \in 1 .. Len(got.rest), k \in Epochs : Decision[k] = i => got.rest[a] # B[k]
    <3>1. \A a \in 1 .. Len(got.rest) : \E b \in 1 .. Len(q) : got.rest[a] = q[b]
      BY <2>3, Zenon
    <3> QED
      BY <3>1, ZenonT(40)
  <2>8. \A k \in Epochs : B[k] = got.batch => Decision[k] # i
    BY <2>3, Zenon
  <2> QED
    BY <2>3, <2>4, <2>5, <2>6, <2>7, <2>8, Zenon DEF got
<1> QED
  BY <1>1, <1>2, Zenon

\* The pool when a node enters the epoch after e.
LEMMA HaltBatch ==
  ASSUME EInv, NEW i \in Node, NEW e \in Epochs, e >= Epoch[i],
         Epoch' = [Epoch EXCEPT ![i] = e + 1],
         NEW q \in OwnBatchBack(i, e), Propose(i, e + 1, q)
  PROVE  /\ batch' \in [Node -> [Epochs -> Nat]]
         /\ queue' \in [Node -> Seq(Nat)]
         /\ bcnt' \in [Node -> Nat]
         /\ \A p \in Node, k \in Epochs : batch[p][k] # 0 => batch'[p][k] # 0
         /\ BatchInv'
<1> DEFINE got == GetBatch(bcnt[i], q)
           x == got.batch
           r == got.rest
           m == got.made
<1>1. TypeOK /\ BatchInv /\ \A k \in Epochs : k \in Nat
  BY EpochsAssumption DEF EInv, Epochs
<1>2. /\ bcnt[i] \in Nat
      /\ batch[i] \in [Epochs -> Nat]
      /\ \A k \in Epochs : batch[i][k] <= bcnt[i]
  BY <1>1, Zenon DEF TypeOK, BatchInv
<1>3. /\ m \in Nat /\ m >= bcnt[i]
      /\ x \in 1 .. m
      /\ r \in Seq(Nat)
      /\ \A a \in 1 .. Len(r) : r[a] \in 1 .. m
      /\ \A a, b \in 1 .. Len(r) : a # b => r[a] # r[b]
      /\ \A a \in 1 .. Len(r) : r[a] # x
      /\ \A a \in 1 .. Len(r), k \in Epochs : Decision[k] = i => r[a] # batch[i][k]
      /\ \A k \in Epochs : batch[i][k] = x => Decision[k] # i
  <2>1. /\ q \in Seq(Nat)
        /\ \A a \in 1 .. Len(q) : q[a] \in 1 .. bcnt[i]
        /\ \A a, b \in 1 .. Len(q) : a # b => q[a] # q[b]
        /\ \A a \in 1 .. Len(q), k \in Epochs : Decision[k] = i => q[a] # batch[i][k]
    BY BatchBack, Zenon
  <2> QED
    BY <1>2, <2>1, GetBatchFresh, ZenonT(40)
<1>4. /\ batch' = IF e + 1 \in Epochs THEN [batch EXCEPT ![i][e + 1] = x] ELSE batch
      /\ queue' = [queue EXCEPT ![i] = r]
      /\ bcnt' = [bcnt EXCEPT ![i] = m]
  BY Zenon DEF Propose
<1> HIDE DEF x, r, m, got
<1>5. /\ Epoch[i] \in Nat /\ Epoch'[i] = e + 1
      /\ \A p \in Node : p # i => Epoch'[p] = Epoch[p]
  BY <1>1, EpochsAssumption DEF TypeOK
<1>6. /\ queue' \in [Node -> Seq(Nat)] /\ bcnt' \in [Node -> Nat]
      /\ queue'[i] = r /\ bcnt'[i] = m
      /\ \A p \in Node : p # i => queue'[p] = queue[p] /\ bcnt'[p] = bcnt[p]
  BY <1>1, <1>3, <1>4, Zenon DEF TypeOK
<1>7. /\ batch' \in [Node -> [Epochs -> Nat]]
      /\ \A p \in Node, k \in Epochs :
           batch'[p][k] = IF p = i /\ k = e + 1 THEN x ELSE batch[p][k]
  <2>1. batch \in [Node -> [Epochs -> Nat]] /\ x \in Nat
    BY <1>1, <1>3 DEF TypeOK
  <2>2. CASE e + 1 \in Epochs
    <3>1. batch' = [batch EXCEPT ![i][e + 1] = x]
      BY <1>4, <2>2, Zenon
    <3> QED
      BY <2>1, <2>2, <3>1, EntryUpdate
  <2>3. CASE e + 1 \notin Epochs
    BY <1>4, <2>1, <2>3, Zenon
  <2> QED
    BY <2>2, <2>3, Zenon
<1>8. x # 0 /\ \A k \in Epochs : k > e => batch[i][k] = 0
  <2>1. \A k \in Epochs : batch[i][k] # 0 => k <= Epoch[i]
    BY <1>1, Zenon DEF BatchInv
  <2> QED
    BY <1>1, <1>3, <1>5, <2>1
<1>9. BatchInv'
  <2> SUFFICES ASSUME NEW p \in Node
               PROVE  /\ \A k \in Epochs : /\ batch'[p][k] # 0 => k <= Epoch'[p]
                                           /\ batch'[p][k] <= bcnt'[p]
                      /\ \A a \in 1 .. Len(queue'[p]) : queue'[p][a] \in 1 .. bcnt'[p]
                      /\ \A a, b \in 1 .. Len(queue'[p]) : a # b => queue'[p][a] # queue'[p][b]
                      /\ \A a \in 1 .. Len(queue'[p]), k \in Epochs :
                           Decision[k] = p \/ k = Epoch'[p] => queue'[p][a] # batch'[p][k]
                      /\ \A k, f \in Epochs :
                           k < f /\ batch'[p][k] = batch'[p][f] /\ batch'[p][k] # 0
                             => Decision[k] # p
    BY Zenon DEF BatchInv
  <2>1. CASE p # i
    <3>1. /\ queue'[p] = queue[p] /\ bcnt'[p] = bcnt[p] /\ Epoch'[p] = Epoch[p]
          /\ \A k \in Epochs : batch'[p][k] = batch[p][k]
      BY <1>5, <1>6, <1>7, <2>1, Zenon
    <3>2. \A k \in Epochs : /\ batch'[p][k] # 0 => k <= Epoch'[p]
                            /\ batch'[p][k] <= bcnt'[p]
      BY <1>1, <3>1, Zenon DEF BatchInv
    <3>3. /\ \A a \in 1 .. Len(queue'[p]) : queue'[p][a] \in 1 .. bcnt'[p]
          /\ \A a, b \in 1 .. Len(queue'[p]) : a # b => queue'[p][a] # queue'[p][b]
      BY <1>1, <3>1 DEF BatchInv
    <3>4. \A a \in 1 .. Len(queue'[p]), k \in Epochs :
            Decision[k] = p \/ k = Epoch'[p] => queue'[p][a] # batch'[p][k]
      BY <1>1, <3>1 DEF BatchInv
    <3>5. \A k, f \in Epochs : k < f /\ batch'[p][k] = batch'[p][f] /\ batch'[p][k] # 0
                                => Decision[k] # p
      BY <1>1, <3>1 DEF BatchInv
    <3> QED
      BY <3>2, <3>3, <3>4, <3>5, Zenon
  <2>2. CASE p = i
    <3>1. \A k \in Epochs : batch'[i][k] = IF k = e + 1 THEN x ELSE batch[i][k]
      BY <1>7, Zenon
    <3>2. \A k \in Epochs : /\ batch'[i][k] # 0 => k <= Epoch'[i]
                            /\ batch'[i][k] <= bcnt'[i]
      <4> SUFFICES ASSUME NEW k \in Epochs
                   PROVE  /\ batch'[i][k] # 0 => k <= Epoch'[i]
                          /\ batch'[i][k] <= bcnt'[i]
        BY Zenon
      <4>1. k \in Nat /\ e \in Nat /\ batch[i][k] \in Nat
        BY <1>1, <1>2, Zenon
      <4>2. CASE k = e + 1
        BY <1>3, <1>5, <1>6, <3>1, <4>1, <4>2
      <4>3. CASE k # e + 1
        <5>1. batch'[i][k] = batch[i][k]
          BY <3>1, <4>3, Zenon
        <5>2. batch[i][k] <= m
          BY <1>2, <1>3, <4>1
        <5>3. batch[i][k] # 0 => k <= e + 1
          BY <1>8, <4>1
        <5> QED
          BY <1>5, <1>6, <5>1, <5>2, <5>3, Zenon
      <4> QED
        BY <4>2, <4>3, Zenon
    <3>3. /\ \A a \in 1 .. Len(r) : r[a] \in 1 .. m
          /\ \A a, b \in 1 .. Len(r) : a # b => r[a] # r[b]
      BY <1>3, Zenon
    <3>4. \A a \in 1 .. Len(r), k \in Epochs :
            Decision[k] = i \/ k = Epoch'[i] => r[a] # batch'[i][k]
      BY <1>3, <1>5, <3>1
    <3>5. ASSUME NEW k \in Epochs, NEW f \in Epochs, k < f,
                 batch'[i][k] = batch'[i][f], batch'[i][k] # 0
          PROVE  Decision[k] # i
      <4>1. CASE f = e + 1
        <5>1. k # e + 1 /\ batch[i][k] = x
          BY <1>1, <3>1, <3>5, <4>1
        <5> QED
          BY <1>3, <5>1, Zenon
      <4>2. CASE f # e + 1
        <5>1. batch'[i][f] = batch[i][f] /\ batch[i][f] # 0
          BY <3>1, <3>5, <4>2, Zenon
        <5>2. ~ (f > e)
          BY <1>8, <5>1, Zenon
        <5>3. k # e + 1
          BY <1>1, <3>5, <5>2
        <5>4. batch[i][k] = batch[i][f]
          BY <3>1, <3>5, <5>1, <5>3, Zenon
        <5> QED
          BY <1>1, <3>5, <5>1, <5>4, Zenon DEF BatchInv
      <4> QED
        BY <4>1, <4>2, Zenon
    <3> QED
      BY <1>6, <2>2, <3>2, <3>3, <3>4, <3>5
  <2> QED
    BY <2>1, <2>2, Zenon
<1>10. \A p \in Node, k \in Epochs : batch[p][k] # 0 => batch'[p][k] # 0
  BY <1>7, <1>8, Zenon
<1> QED
  BY <1>6, <1>7, <1>9, <1>10, Zenon

-----------------------------------------------------------------------------
\* A Halt keeps the invariant.
LEMMA HandleHaltEInv ==
  ASSUME EInv, NEW i \in Node, NEW k \in Pending(i), HandleHalt(i, k)
  PROVE  EInv'
<1> DEFINE e == halts[k].epoch
<1>1. TypeOK /\ LogIsDecided /\ GapInv /\ StoreInv /\ BatchInv
  BY Zenon DEF EInv
<1>2. e \in Epochs /\ e >= Epoch[i]
  BY <1>1, PendingType, Zenon
<1>3. /\ handled' \in [Node -> SUBSET (DOMAIN halts)]
      /\ leaders' \in [Node -> [Epochs -> Node \cup {NONE}]]
      /\ store' = store /\ halts' = halts
  BY <1>1, PendingType, ZenonT(40) DEF HandleHalt
<1>4. CASE Decision[e] \notin store[i][e]
  <2>1. UNCHANGED <<Epoch, batch, queue, bcnt, HaltFlags, Index, Blocks, log>>
    BY <1>4, Zenon DEF HandleHalt, poolVars, commitVars
  <2>2. TypeOK'
    BY <1>1, <1>3, <2>1, Zenon DEF TypeOK
  <2>3. (LogIsDecided /\ GapInv)'
    BY <1>1, <2>1, Zenon DEF LogIsDecided, GapInv
  <2>4. StoreInv'
    BY <1>1, <1>3, <2>1, Zenon DEF StoreInv
  <2>5. BatchInv'
    BY <1>1, <2>1 DEF BatchInv
  <2> QED
    BY <2>2, <2>3, <2>4, <2>5, Zenon DEF EInv
<1>5. CASE Decision[e] \in store[i][e]
  <2>1. /\ Commit(i, e, Decision[e])
        /\ HaltFlags' = [HaltFlags EXCEPT ![i] = @ \cup {e}]
        /\ Epoch' = [Epoch EXCEPT ![i] = e + 1]
        /\ \E q \in OwnBatchBack(i, e) : Propose(i, e + 1, q)
    BY <1>5, Zenon DEF HandleHalt
  <2> HIDE DEF e
  <2>2. PICK q \in OwnBatchBack(i, e) : Propose(i, e + 1, q)
    BY <2>1, Zenon
  <2>3. /\ Epoch' \in [Node -> 0 .. MaxEpoch + 1]
        /\ HaltFlags' \in [Node -> SUBSET Epochs]
        /\ Index' \in [Node -> 0 .. MaxEpoch + 1]
        /\ Blocks' \in [Node -> [Epochs -> Node \cup {NONE}]]
        /\ log' \in [Node -> Seq(Node)]
        /\ LogIsDecided'
        /\ GapInv'
    BY <1>1, <1>2, <2>1, HaltCommit, Zenon
  <2>4. /\ batch' \in [Node -> [Epochs -> Nat]]
        /\ queue' \in [Node -> Seq(Nat)]
        /\ bcnt' \in [Node -> Nat]
        /\ \A p \in Node, h \in Epochs : batch[p][h] # 0 => batch'[p][h] # 0
        /\ BatchInv'
    BY <1>2, <2>1, <2>2, HaltBatch, Zenon
  <2>5. TypeOK'
    <3>1. store \in [Node -> [Epochs -> SUBSET Node]] /\ halts \in Seq(HaltMsg)
      BY <1>1, Zenon DEF TypeOK
    <3> QED
      BY <1>3, <2>3, <2>4, <3>1, Zenon DEF TypeOK
  <2>6. StoreInv'
    <3>1. \A j, p \in Node, h \in Epochs : p \in store'[j][h] => batch'[p][h] # 0
      BY <1>1, <1>3, <2>4, Zenon DEF StoreInv
    <3>2. \A j \in Node : \A h \in HaltFlags'[j] : Decision[h] \in store'[j][h]
      <4>1. \A j \in Node : \A h \in HaltFlags'[j] : h \in HaltFlags[j] \/ (j = i /\ h = e)
        BY <1>1, <2>1, Zenon DEF TypeOK
      <4> QED
        BY <1>1, <1>3, <1>5, <4>1, Zenon DEF StoreInv
    <3> QED
      BY <3>1, <3>2, Zenon DEF StoreInv
  <2> QED
    BY <2>3, <2>4, <2>5, <2>6, Zenon DEF EInv
<1> QED
  BY <1>4, <1>5, Zenon

\* The inductive step.
LEMMA NextEInv == EInv /\ [Next]_vars => EInv'
<1> SUFFICES ASSUME EInv, [Next]_vars PROVE EInv'
  BY Zenon
<1>1. CASE Next
  BY <1>1, HandleSpbProposalEInv, BroadcastHaltEInv, HandleHaltEInv, Zenon DEF Next
<1>2. CASE UNCHANGED vars
  <2>1. UNCHANGED <<Epoch, batch, queue, bcnt, store, halts, handled, HaltFlags,
                    leaders, Index, Blocks, log>>
    BY <1>2, Zenon DEF vars, poolVars, commitVars
  <2>2. TypeOK'
    BY <2>1, Zenon DEF EInv, TypeOK
  <2>3. (LogIsDecided /\ GapInv /\ StoreInv)'
    BY <2>1 DEF EInv, LogIsDecided, GapInv, StoreInv
  <2>4. BatchInv'
    BY <2>1 DEF EInv, BatchInv
  <2> QED
    BY <2>2, <2>3, <2>4, Zenon DEF EInv
<1> QED
  BY <1>1, <1>2, Zenon

LEMMA Invariance == Spec => []EInv
BY InitEInv, NextEInv, PTL DEF Spec

\* The state keeps its shape, for every committee, number of epochs and
\* sequence of decisions: Commit outputs only blocks, never an empty slot, and
\* a node enters no epoch beyond the one after the last.
THEOREM EpochsTypeOK == Spec => []TypeOK
<1>1. EInv => TypeOK
  BY Zenon DEF EInv
<1> QED
  BY <1>1, Invariance, PTL

\* Any node outputs the decided blocks in epoch order from epoch 0 on, even
\* though the commit of a late proposal may put another leader's block into
\* the Committor: it lies behind a gap, and a gap is never filled.
THEOREM EpochsLogIsDecided == Spec => []LogIsDecided
<1>1. EInv => LogIsDecided
  BY Zenon DEF EInv
<1> QED
  BY <1>1, Invariance, PTL

\* The Committor outputs up to the first epoch the node has not halted, and
\* nothing beyond it.
THEOREM EpochsNothingPastAGap == Spec => []NothingPastAGap
<1>1. EInv => NothingPastAGap
  BY Zenon DEF EInv, GapInv, NothingPastAGap
<1> QED
  BY <1>1, Invariance, PTL

\* No batch is output in two epochs: PutBatch returns a batch to the pool only
\* when its block lost, and one block holds it at a time.
THEOREM EpochsBatchOutputOnce == Spec => []BatchOutputOnce
<1>1. EInv => BatchOutputOnce
  <2> SUFFICES ASSUME EInv, NEW i \in Node, NEW j \in Node,
                      NEW e \in 0 .. Index[i] - 1, NEW f \in 0 .. Index[j] - 1,
                      Decision[e] = Decision[f], e # f,
                      batch[Decision[e]][e] = batch[Decision[f]][f]
               PROVE  FALSE
    BY Zenon DEF BatchOutputOnce
  <2>1. e \in HaltFlags[i] /\ f \in HaltFlags[j]
    BY Zenon DEF EInv, GapInv
  <2>2. e \in Epochs /\ f \in Epochs
    BY <2>1, Zenon DEF EInv, TypeOK
  <2>3. Decision[e] \in store[i][e] /\ Decision[f] \in store[j][f]
    BY <2>1, Zenon DEF EInv, StoreInv
  <2>4. Decision[e] \in Node /\ Decision[f] \in Node
    BY <2>2, EpochsAssumption, Zenon
  <2>5. batch[Decision[e]][e] # 0 /\ batch[Decision[f]][f] # 0
    BY <2>2, <2>3, <2>4, Zenon DEF EInv, StoreInv
  <2>6. e < f \/ f < e
    BY <2>2, EpochsAssumption DEF Epochs
  <2>7. CASE e < f
    BY <2>2, <2>4, <2>5, <2>7, Zenon DEF EInv, BatchInv
  <2>8. CASE f < e
    BY <2>2, <2>4, <2>5, <2>8, Zenon DEF EInv, BatchInv
  <2> QED
    BY <2>6, <2>7, <2>8, Zenon
<1> QED
  BY <1>1, Invariance, PTL

=============================================================================
