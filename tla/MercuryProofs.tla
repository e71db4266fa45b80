---------------------------- MODULE MercuryProofs ----------------------------
(***************************************************************************)
(* For every committee, any number of epochs, any set of crashed nodes and *)
(* whatever the network does: what a Mercury block refers to is available, *)
(* and nodes output the same blocks with the same references, none twice.  *)
(* The first is about bVars only; the rest is an invariant of its own.     *)
(***************************************************************************)
EXTENDS Mercury, CommitteeProofs

\* The variables the argument is about.
bVars == <<Reference, carried, store, voted, locked, finish, FinishFlags>>

Types ==
  /\ Reference \in [Epochs -> [Node -> (SUBSET Node) \cup {NONE}]]
  /\ carried \in [Epochs -> [Node -> Node \cup {NONE}]]
  /\ store \in [Node -> SUBSET (Epochs \X Node)]
  /\ voted \in [Epochs -> [Node -> SUBSET Node]]
  /\ locked \in [Epochs -> [Node -> SUBSET Node]]
  /\ finish \in [Epochs -> SUBSET Node]
  /\ FinishFlags \in [Epochs -> [Node -> SUBSET Node]]

\* A voter has stored the block, a lock needs a quorum of votes, and a Finish
\* needs a lock.
BroadcastInv ==
  \A e \in Epochs, p \in Node :
    /\ \A i \in voted[e][p] : <<e, p>> \in store[i]
    /\ locked[e][p] # {} => voted[e][p] \in Quorums
    /\ p \in finish[e] => locked[e][p] # {}

\* A handled Finish was sent, and so were the Finishes a block refers to.
FlagsInv == \A e \in Epochs, i \in Node : FinishFlags[e][i] \subseteq finish[e]

ReferenceInv ==
  \A e \in Epochs \ {0}, p \in Node :
    Reference[e][p] # NONE => Reference[e][p] \subseteq finish[e - 1]

IInv == Types /\ BroadcastInv /\ FlagsInv /\ ReferenceInv

-----------------------------------------------------------------------------
\* A quorum stays one when nodes are added.
LEMMA QuorumGrows ==
  ASSUME NEW S \in Quorums, NEW T \in SUBSET Node, S \subseteq T
  PROVE  T \in Quorums
<1>1. /\ Cardinality(S) \in Nat
      /\ Cardinality(T) \in Nat
      /\ Cardinality(S) <= Cardinality(T)
  BY NodeSets
<1> QED
  BY <1>1, ThresholdType DEF Quorums

\* The epochs before and after one.
LEMMA EpochArithmetic ==
  /\ 0 \in Epochs
  /\ \A e \in Epochs \ {0} : e - 1 \in Epochs
  /\ \A e \in Epochs : e < MaxEpoch => e + 1 \in Epochs \ {0} /\ (e + 1) - 1 = e
BY MercuryAssumption DEF Epochs

LEMMA InitIInv == Init => IInv
<1> SUFFICES ASSUME Init PROVE IInv
  OBVIOUS
<1>1. Types
  BY EpochArithmetic DEF Init, Types
<1>2. BroadcastInv /\ FlagsInv
  BY DEF Init, BroadcastInv, FlagsInv
<1>3. ReferenceInv
  BY DEF Init, ReferenceInv
<1> QED
  BY <1>1, <1>2, <1>3 DEF IInv

\* A step that leaves these variables alone.
LEMMA Frame ==
  ASSUME IInv, UNCHANGED bVars
  PROVE  IInv'
<1>1. Types'
  BY DEF IInv, Types, bVars
<1>2. BroadcastInv'
  BY DEF IInv, BroadcastInv, bVars
<1>3. FlagsInv' /\ ReferenceInv'
  BY DEF IInv, FlagsInv, ReferenceInv, bVars
<1> QED
  BY <1>1, <1>2, <1>3 DEF IInv

\* A block is stored: its maker's proposal or one carried to round 1.
LEMMA StoreStep ==
  ASSUME IInv, NEW i \in Node, NEW e \in Epochs, NEW b \in Node,
         store' = [store EXCEPT ![i] = @ \cup {<<e, b>>}],
         UNCHANGED <<Reference, carried, voted, locked, finish, FinishFlags>>
  PROVE  IInv'
<1>1. Types'
  BY DEF IInv, Types
<1>2. \A j \in Node : store[j] \subseteq store'[j]
  BY DEF IInv, Types
<1>3. BroadcastInv'
  BY <1>2 DEF IInv, BroadcastInv, Types
<1>4. FlagsInv' /\ ReferenceInv'
  BY DEF IInv, FlagsInv, ReferenceInv
<1> QED
  BY <1>1, <1>3, <1>4 DEF IInv

LEMMA VoteOneStep ==
  ASSUME IInv, NEW i \in Node, NEW e \in Epochs, NEW p \in Node, SpbVote(i, e, p)
  PROVE  IInv'
<1> USE DEF SpbVote, electVars
<1>1. voted[e][p] \cup {i} \in SUBSET Node /\ voted \in [Epochs -> [Node -> SUBSET Node]]
  BY DEF IInv, Types
<1>2. /\ voted' \in [Epochs -> [Node -> SUBSET Node]]
      /\ \A d \in Epochs, k \in Node :
           voted'[d][k] = IF d = e /\ k = p THEN voted[e][p] \cup {i} ELSE voted[d][k]
  <2>1. voted' = [voted EXCEPT ![e][p] = voted[e][p] \cup {i}]
    OBVIOUS
  <2> QED
    BY <1>1, <2>1, EntryUpdate
<1>3. Types'
  BY <1>2 DEF IInv, Types
<1>4. voted[e][p] \in Quorums => voted[e][p] \cup {i} \in Quorums
  BY <1>1, QuorumGrows
<1>5. BroadcastInv'
  <2> SUFFICES ASSUME NEW d \in Epochs, NEW k \in Node
               PROVE  /\ \A j \in voted'[d][k] : <<d, k>> \in store[j]
                      /\ locked[d][k] # {} => voted'[d][k] \in Quorums
                      /\ k \in finish[d] => locked[d][k] # {}
    BY Zenon DEF BroadcastInv
  <2>1. CASE d = e /\ k = p
    BY <1>2, <1>4, <2>1 DEF IInv, BroadcastInv
  <2>2. CASE ~ (d = e /\ k = p)
    BY <1>2, <2>2 DEF IInv, BroadcastInv
  <2> QED
    BY <2>1, <2>2
<1>6. FlagsInv' /\ ReferenceInv'
  BY DEF IInv, FlagsInv, ReferenceInv
<1> QED
  BY <1>3, <1>5, <1>6 DEF IInv

LEMMA LockStep ==
  ASSUME IInv, NEW i \in Node, NEW e \in Epochs, NEW p \in Node, SpbLock(i, e, p)
  PROVE  IInv'
<1> USE DEF SpbLock, electVars
<1>1. locked[e][p] \cup {i} \in SUBSET Node /\ locked \in [Epochs -> [Node -> SUBSET Node]]
  BY DEF IInv, Types
<1>2. /\ locked' \in [Epochs -> [Node -> SUBSET Node]]
      /\ \A d \in Epochs, k \in Node :
           locked'[d][k] = IF d = e /\ k = p THEN locked[e][p] \cup {i} ELSE locked[d][k]
  <2>1. locked' = [locked EXCEPT ![e][p] = locked[e][p] \cup {i}]
    OBVIOUS
  <2> QED
    BY <1>1, <2>1, EntryUpdate
<1>3. Types'
  BY <1>2 DEF IInv, Types
<1>4. voted[e][p] \in Quorums
  BY DEF IInv, Types, Quorums
<1>5. BroadcastInv'
  BY <1>2, <1>4 DEF IInv, BroadcastInv
<1>6. FlagsInv' /\ ReferenceInv'
  BY DEF IInv, FlagsInv, ReferenceInv
<1> QED
  BY <1>3, <1>5, <1>6 DEF IInv

LEMMA FinishStep ==
  ASSUME IInv, NEW p \in Node, NEW e \in Epochs, SpbFinish(p, e)
  PROVE  IInv'
<1> USE DEF SpbFinish, electVars
<1>1. Types'
  BY DEF IInv, Types
<1>2. \A d \in Epochs : finish'[d] = IF d = e THEN finish[d] \cup {p} ELSE finish[d]
  BY Zenon DEF IInv, Types
<1>3. locked[e][p] # {}
  <2>1. Cardinality(locked[e][p]) >= HightThreshold
    BY Zenon
  <2>2. Cardinality({}) = 0
    BY FS_EmptySet, Zenon
  <2>3. ~ (0 >= HightThreshold)
    BY ThresholdType
  <2> QED
    BY <2>1, <2>2, <2>3, Zenon
<1>4. BroadcastInv'
  BY <1>2, <1>3 DEF IInv, BroadcastInv
<1>5. FlagsInv'
  BY <1>2 DEF IInv, FlagsInv
<1>6. ReferenceInv'
  BY <1>2, EpochArithmetic DEF IInv, ReferenceInv
<1> QED
  BY <1>1, <1>4, <1>5, <1>6 DEF IInv

LEMMA HandleFinishStep ==
  ASSUME IInv, NEW i \in Node, NEW e \in Epochs, NEW p \in Node, HandleFinish(i, e, p)
  PROVE  IInv'
<1> USE DEF HandleFinish, spbVars
<1>1. FinishFlags[e][i] \cup {p} \in SUBSET Node /\ FinishFlags \in [Epochs -> [Node -> SUBSET Node]]
  BY DEF IInv, Types
<1>2. /\ FinishFlags' \in [Epochs -> [Node -> SUBSET Node]]
      /\ \A d \in Epochs, k \in Node :
           FinishFlags'[d][k] = IF d = e /\ k = i THEN FinishFlags[e][i] \cup {p}
                                ELSE FinishFlags[d][k]
  <2>1. FinishFlags' = [FinishFlags EXCEPT ![e][i] = FinishFlags[e][i] \cup {p}]
    OBVIOUS
  <2> QED
    BY <1>1, <2>1, EntryUpdate
<1>3. Types'
  BY <1>2 DEF IInv, Types
<1>4. FlagsInv'
  BY <1>2 DEF IInv, FlagsInv
<1>5. BroadcastInv' /\ ReferenceInv'
  BY DEF IInv, BroadcastInv, ReferenceInv
<1> QED
  BY <1>3, <1>4, <1>5 DEF IInv

\* The block taken to round 1 is one of the store.
LEMMA FinvoteStep ==
  ASSUME IInv, NEW i \in Node, NEW e \in Epochs, NEW Q, NEW last, HandleFinvote(i, e, Q, last)
  PROVE  IInv'
<1>1. UNCHANGED <<Reference, store, voted, locked, finish, FinishFlags>>
  BY DEF HandleFinvote
<1>2. \/ carried' = carried
      \/ \E b \in Node : carried' = [carried EXCEPT ![e][i] = b]
  <2>1. \/ carried' = carried
        \/ \E b : AdvanceNextRound(i, e, b)
    BY Zenon DEF HandleFinvote, FinVoteAction
  <2>2. ASSUME NEW b, <<e, b>> \in store[i] PROVE b \in Node
    BY <2>2 DEF IInv, Types
  <2> QED
    BY <2>1, <2>2, Zenon DEF AdvanceNextRound
<1>3. carried' \in [Epochs -> [Node -> Node \cup {NONE}]]
  <2>1. carried \in [Epochs -> [Node -> Node \cup {NONE}]]
    BY DEF IInv, Types
  <2> QED
    BY <1>2, <2>1
<1>4. Types'
  BY <1>1, <1>3 DEF IInv, Types
<1>5. BroadcastInv' /\ FlagsInv' /\ ReferenceInv'
  BY <1>1 DEF IInv, BroadcastInv, FlagsInv, ReferenceInv
<1> QED
  BY <1>4, <1>5 DEF IInv

\* The new block refers to what was handled.
LEMMA HaltedStep ==
  ASSUME IInv, NEW i \in Node, NEW h, h.epoch \in Epochs, HandleHalt(i, h)
  PROVE  IInv'
<1> DEFINE e == h.epoch
<1>1. UNCHANGED <<carried, store, voted, locked, finish, FinishFlags>>
  BY DEF HandleHalt
<1>2. \/ Reference' = Reference
      \/ e < MaxEpoch /\ Reference' = [Reference EXCEPT ![e + 1][i] = FinishFlags[e][i]]
  BY DEF HandleHalt, AdvanceNextEpoch, GetReference
<1>3. CASE Reference' = Reference
  BY <1>1, <1>3, Frame DEF bVars
<1>4. CASE e < MaxEpoch /\ Reference' = [Reference EXCEPT ![e + 1][i] = FinishFlags[e][i]]
  <2>1. e + 1 \in Epochs \ {0} /\ (e + 1) - 1 = e
    BY <1>4, EpochArithmetic
  <2>2. /\ Reference \in [Epochs -> [Node -> (SUBSET Node) \cup {NONE}]]
        /\ FinishFlags[e][i] \in (SUBSET Node) \cup {NONE}
    BY DEF IInv, Types
  <2>3. /\ Reference' \in [Epochs -> [Node -> (SUBSET Node) \cup {NONE}]]
        /\ \A d \in Epochs, k \in Node :
             Reference'[d][k] = IF d = e + 1 /\ k = i THEN FinishFlags[e][i] ELSE Reference[d][k]
    BY <1>4, <2>1, <2>2, EntryUpdate
  <2>4. Types'
    BY <1>1, <2>3 DEF IInv, Types
  <2>5. BroadcastInv' /\ FlagsInv'
    BY <1>1 DEF IInv, BroadcastInv, FlagsInv
  <2>6. ReferenceInv'
    <3> SUFFICES ASSUME NEW d \in Epochs \ {0}, NEW k \in Node, Reference'[d][k] # NONE
                 PROVE  Reference'[d][k] \subseteq finish[d - 1]
      BY <1>1 DEF ReferenceInv
    <3>1. CASE d = e + 1 /\ k = i
      BY <2>1, <2>3, <3>1 DEF IInv, FlagsInv
    <3>2. CASE ~ (d = e + 1 /\ k = i)
      BY <2>3, <3>2 DEF IInv, ReferenceInv
    <3> QED
      BY <3>1, <3>2
  <2> QED
    BY <2>4, <2>5, <2>6 DEF IInv
<1> QED
  BY <1>2, <1>3, <1>4

-----------------------------------------------------------------------------
\* Every Halt is of an epoch.
HaltsInv == \A h \in halts : h.epoch \in Epochs

LEMMA HaltsStep == HaltsInv /\ [Next]_vars => HaltsInv'
<1> SUFFICES ASSUME HaltsInv, [Next]_vars PROVE HaltsInv'
  OBVIOUS
<1>1. CASE halts' = halts
  BY <1>1 DEF HaltsInv
<1>2. ASSUME NEW i \in Node, SpbStep(i) PROVE halts' = halts
  BY <1>2, ZenonT(40) DEF SpbStep, SpbFinish, HandleSpbProposal, HandleLate, HandleCarried, SpbVote, SpbLock
<1>3. ASSUME NEW e \in Epochs, NEW ld, NEW b,
             halts' = halts \cup {[epoch |-> e, leader |-> ld, block |-> b]}
      PROVE  HaltsInv'
  BY <1>3 DEF HaltsInv
<1>4. ASSUME NEW i \in Node, NEW e \in Epochs, HandleElectShare(i, e) PROVE HaltsInv'
  BY <1>1, <1>3, <1>4, Zenon DEF HandleElectShare, ProcessLeader
<1>5. ASSUME NEW i \in Node, NEW e \in Epochs, NEW Q, NEW last, HandleFinvote(i, e, Q, last)
      PROVE  HaltsInv'
  BY <1>1, <1>3, <1>5, Zenon DEF HandleFinvote, FinVoteAction
<1>6. ASSUME NEW i \in Node, ElectStep(i) PROVE HaltsInv'
  BY <1>1, <1>4, <1>6, Zenon DEF ElectStep, HandleFinish, HandleDoneLow, HandleDoneHigh
<1>7. ASSUME NEW i \in Node, VoteStep(i) PROVE HaltsInv'
  BY <1>1, <1>5, <1>7 DEF VoteStep, HandlePrevoteYes, HandlePrevoteNo
<1>8. ASSUME NEW i \in Node, HaltStep(i) PROVE halts' = halts
  BY <1>8 DEF HaltStep, HandleHalt
<1>9. CASE UNCHANGED vars
  BY <1>1, <1>9 DEF vars
<1> QED
  BY <1>1, <1>2, <1>6, <1>7, <1>8, <1>9, MercuryAssumption DEF Next

LEMMA NextIInv == IInv /\ HaltsInv /\ [Next]_vars => IInv'
<1> SUFFICES ASSUME IInv, HaltsInv, [Next]_vars PROVE IInv'
  OBVIOUS
<1>1. ASSUME NEW i \in Node, NEW e \in Epochs, NEW p \in Node,
             HandleSpbProposal(i, e, p) \/ HandleCarried(i, e, p)
      PROVE  IInv'
  <2>1. UNCHANGED <<Reference, carried, voted, locked, finish, FinishFlags>>
    BY <1>1 DEF HandleSpbProposal, HandleCarried, electVars
  <2>2. CASE HandleSpbProposal(i, e, p)
    BY <2>1, <2>2, StoreStep, Zenon DEF HandleSpbProposal
  <2>3. CASE HandleCarried(i, e, p)
    <3>1. carried[e][p] \in Node
      BY <2>3 DEF HandleCarried, IInv, Types
    <3> QED
      BY <2>1, <2>3, <3>1, StoreStep, Zenon DEF HandleCarried
  <2> QED
    BY <1>1, <2>2, <2>3
<1>2. ASSUME NEW i \in Node, NEW e \in Epochs, NEW p \in Node, HandleLate(i, e, p)
      PROVE  IInv'
  BY <1>2, Frame DEF HandleLate, bVars, spbVars, electVars
<1>3. ASSUME NEW i \in Node, SpbStep(i) PROVE IInv'
  BY <1>1, <1>2, <1>3, VoteOneStep, LockStep, FinishStep DEF SpbStep
<1>4. ASSUME NEW i \in Node, NEW e \in Epochs,
             \/ \E t \in Tries : HandleDoneLow(i, e, t) \/ HandleDoneHigh(i, e, t)
             \/ HandleElectShare(i, e)
      PROVE  IInv'
  BY <1>4, Frame DEF HandleDoneLow, HandleDoneHigh, HandleElectShare, bVars, spbVars
<1>5. ASSUME NEW i \in Node, ElectStep(i) PROVE IInv'
  BY <1>4, <1>5, HandleFinishStep DEF ElectStep
<1>6. ASSUME NEW i \in Node, NEW e \in Epochs,
             HandlePrevoteNo(i, e) \/ \E j \in Node : HandlePrevoteYes(i, e, j)
      PROVE  IInv'
  BY <1>6, Frame DEF HandlePrevoteYes, HandlePrevoteNo, bVars, spbVars, electVars
<1>7. ASSUME NEW i \in Node, VoteStep(i) PROVE IInv'
  BY <1>6, <1>7, FinvoteStep DEF VoteStep
<1>8. ASSUME NEW i \in Node, HaltStep(i) PROVE IInv'
  BY <1>8, HaltedStep DEF HaltStep, HaltsInv
<1>9. CASE UNCHANGED vars
  BY <1>9, Frame DEF vars, bVars, spbVars, electVars
<1> QED
  BY <1>3, <1>5, <1>7, <1>8, <1>9, MercuryAssumption DEF Next

\* Whatever a block refers to is in the stores of 2f+1 nodes (getReference takes
\* its references from the Finish messages handled).
THEOREM MercuryReferenceIsAvailable == Spec => []ReferenceIsAvailable
<1>1. IInv => ReferenceIsAvailable
  <2> SUFFICES ASSUME IInv, NEW e \in Epochs \ {0}, NEW p \in Node, Reference[e][p] # NONE,
                      NEW q \in Reference[e][p]
               PROVE  {i \in Node : <<e - 1, q>> \in store[i]} \in Quorums
    BY DEF ReferenceIsAvailable
  <2>1. e - 1 \in Epochs
    BY EpochArithmetic
  <2>2. q \in finish[e - 1] /\ q \in Node
    BY <2>1 DEF IInv, ReferenceInv, Types
  <2>3. voted[e - 1][q] \in Quorums
    BY <2>1, <2>2, Zenon DEF IInv, BroadcastInv
  <2>4. voted[e - 1][q] \subseteq {i \in Node : <<e - 1, q>> \in store[i]}
    BY <2>1, <2>2 DEF IInv, BroadcastInv, Types
  <2> QED
    BY <2>3, <2>4, QuorumGrows
<1>2. Init => HaltsInv
  BY DEF Init, HaltsInv
<1> QED
  BY <1>1, <1>2, InitIInv, NextIInv, HaltsStep, PTL DEF Spec

-----------------------------------------------------------------------------
(***************************************************************************)
(* The Committor: what Commit outputs.                                     *)
(***************************************************************************)
\* The referenced blocks of the k-th entry of s, as node i finds them: the only
\* one of them that may have been output before is the block of the entry before.
Refs(i, s, k) ==
  {p \in Node : /\ p \in Reference[k - 1][s[k].block]
                /\ <<k - 2, p>> \in store[i]
                /\ k > 1 => p # s[k - 1].block}

\* The function out of Commit.
IsOut(f, i, B, n, m) ==
  f = [k \in n .. m |-> IF k = n THEN log[i]
                        ELSE Append(f[k - 1], OutputOf(i, k - 1, B[k - 1], f[k - 1]))]

LEMMA OutExists ==
  ASSUME NEW i, NEW B, NEW n \in Nat, NEW m \in Nat, n <= m
  PROVE  \E f : IsOut(f, i, B, n, m)
<1> DEFINE T == {k \in Nat : n <= k /\ ~ \E f : IsOut(f, i, B, n, k)}
<1>1. ASSUME T # {} PROVE FALSE
  <2>1. PICK x \in T : \A y \in T : x <= y
    <3>1. T \in SUBSET Nat
      OBVIOUS
    <3> HIDE DEF T
    <3> QED
      BY <1>1, <3>1, LeastElement
  <2>2. CASE x = n
    <3> DEFINE f == [k \in n .. n |-> log[i]]
    <3>1. IsOut(f, i, B, n, n)
      BY DEF IsOut
    <3> QED
      BY <2>2, <3>1
  <2>3. CASE x # n
    <3>1. x - 1 \in Nat /\ n <= x - 1 /\ ~ (x <= x - 1)
      BY <2>3
    <3>2. x - 1 \notin T
      BY <2>1, <3>1
    <3>3. PICK f : IsOut(f, i, B, n, x - 1)
      BY <3>1, <3>2
    <3> DEFINE a == Append(f[x - 1], OutputOf(i, x - 1, B[x - 1], f[x - 1]))
               g == [k \in n .. x |-> IF k = x THEN a ELSE f[k]]
    <3>4. \A k \in n .. x - 1 : g[k] = f[k]
      BY <3>1
    <3>5. g[x] = a /\ g[x - 1] = f[x - 1]
      BY <3>1
    <3>6. \A k \in n .. x - 1 :
            f[k] = IF k = n THEN log[i]
                   ELSE Append(f[k - 1], OutputOf(i, k - 1, B[k - 1], f[k - 1]))
      BY <3>3, Zenon DEF IsOut
    <3>7. ASSUME NEW k \in n .. x
          PROVE  g[k] = IF k = n THEN log[i]
                        ELSE Append(g[k - 1], OutputOf(i, k - 1, B[k - 1], g[k - 1]))
      <4>1. CASE k = x
        <5> HIDE DEF g
        <5> QED
          BY <2>3, <3>5, <4>1
      <4>2. CASE k = n
        <5>1. k \in n .. x - 1
          BY <3>1, <4>2
        <5> HIDE DEF g
        <5> QED
          BY <3>4, <3>6, <4>2, <5>1
      <4>3. CASE k # x /\ k # n
        <5>1. k \in n .. x - 1 /\ k - 1 \in n .. x - 1
          BY <3>1, <4>3
        <5> HIDE DEF g
        <5> QED
          BY <3>4, <3>6, <4>3, <5>1, Zenon
      <4> QED
        BY <4>1, <4>2, <4>3
    <3>8. DOMAIN g = n .. x
      OBVIOUS
    <3>9. g = [k \in n .. x |-> g[k]]
      OBVIOUS
    <3> HIDE DEF g
    <3>10. IsOut(g, i, B, n, x)
      BY <3>7, <3>9, Zenon DEF IsOut
    <3> QED
      BY <3>10
  <2> QED
    BY <2>2, <2>3
<1>2. m \notin T
  BY <1>1
<1> QED
  BY <1>2

\* isCommitFlag, of the epoch before the one to be output.
LEMMA FlagOfPrevious ==
  ASSUME NEW s \in Seq(Entry), NEW p
  PROVE  <<Len(s) - 1, p>> \in IsCommitFlag(s) <=> (Len(s) > 0 /\ p = s[Len(s)].block)
<1>1. DOMAIN s = 1 .. Len(s) /\ Len(s) \in Nat
  OBVIOUS
<1>2. ASSUME NEW k \in DOMAIN s PROVE k - 2 # Len(s) - 1
  BY <1>1
<1>3. <<Len(s) - 1, p>> \notin UNION {{k - 2} \X s[k].refs : k \in DOMAIN s}
  BY <1>2
<1>4. <<Len(s) - 1, p>> \in IsCommitFlag(s)
        <=> <<Len(s) - 1, p>> \in {<<k - 1, s[k].block>> : k \in DOMAIN s}
  BY <1>3, Zenon DEF IsCommitFlag
<1>5. <<Len(s) - 1, p>> \in {<<k - 1, s[k].block>> : k \in DOMAIN s}
        <=> \E k \in DOMAIN s : k - 1 = Len(s) - 1 /\ p = s[k].block
  BY Zenon
<1>6. \A k \in DOMAIN s : k - 1 = Len(s) - 1 <=> k = Len(s)
  BY <1>1
<1>7. Len(s) > 0 <=> Len(s) \in DOMAIN s
  BY <1>1
<1> QED
  BY <1>4, <1>5, <1>6, <1>7, Zenon

LEMMA OutputOfEntry ==
  ASSUME store \in [Node -> SUBSET (Epochs \X Node)],
         NEW i \in Node, NEW s \in Seq(Entry), NEW b \in Node
  PROVE  LET o == OutputOf(i, Len(s), b, s) IN
         /\ o \in Entry
         /\ o.block = b
         /\ o.refs = {p \in Node : /\ p \in Reference[Len(s)][b]
                                   /\ <<Len(s) - 1, p>> \in store[i]
                                   /\ Len(s) > 0 => p # s[Len(s)].block}
<1> DEFINE R == {p \in Reference[Len(s)][b] : <<Len(s) - 1, p>> \in store[i] \ IsCommitFlag(s)}
           N == {p \in Node : /\ p \in Reference[Len(s)][b]
                              /\ <<Len(s) - 1, p>> \in store[i]
                              /\ Len(s) > 0 => p # s[Len(s)].block}
<1>1. OutputOf(i, Len(s), b, s) = [block |-> b, refs |-> R]
  BY Zenon DEF OutputOf
<1>2. \A p : <<Len(s) - 1, p>> \in store[i] => p \in Node
  OBVIOUS
<1>3. R = N
  <2>1. \A p \in R : p \in N
    BY <1>2, FlagOfPrevious, Zenon
  <2>2. \A p \in N : p \in R
    BY FlagOfPrevious, Zenon
  <2> QED
    BY <2>1, <2>2, Zenon
<1>4. N \in SUBSET Node
  BY Zenon
<1> HIDE DEF R, N
<1>5. [block |-> b, refs |-> R] \in Entry
  BY <1>3, <1>4, Zenon DEF Entry
<1>6. OutputOf(i, Len(s), b, s).block = b /\ OutputOf(i, Len(s), b, s).refs = N
  BY <1>1, <1>3
<1> QED
  BY <1>1, <1>5, <1>6, Zenon DEF N

\* The entries of s up to k: those of the log, then those of the blocks in B.
Extends(s, i, B, k) ==
  /\ s \in Seq(Entry)
  /\ Len(s) = k
  /\ \A l \in 1 .. Len(log[i]) : s[l] = log[i][l]
  /\ \A l \in Len(log[i]) + 1 .. k : s[l].block = B[l - 1] /\ s[l].refs = Refs(i, s, l)

LEMMA OutExtends ==
  ASSUME store \in [Node -> SUBSET (Epochs \X Node)],
         NEW i \in Node, log[i] \in Seq(Entry), NEW B, NEW m \in Nat, Len(log[i]) <= m,
         \A l \in Len(log[i]) .. m - 1 : B[l] \in Node,
         NEW f, IsOut(f, i, B, Len(log[i]), m)
  PROVE  Extends(f[m], i, B, m)
<1> DEFINE n == Len(log[i])
           T == {k \in n .. m : ~ Extends(f[k], i, B, k)}
<1>1. n \in Nat
  OBVIOUS
<1>2. \A k \in n .. m : f[k] = IF k = n THEN log[i]
                               ELSE Append(f[k - 1], OutputOf(i, k - 1, B[k - 1], f[k - 1]))
  BY Zenon DEF IsOut
<1>3. ASSUME T # {} PROVE FALSE
  <2>1. PICK x \in T : \A y \in T : x <= y
    <3>1. T \in SUBSET Nat
      BY <1>1
    <3> HIDE DEF T
    <3> QED
      BY <1>3, <3>1, LeastElement, Zenon
  <2>2. x \in n .. m /\ ~ Extends(f[x], i, B, x)
    BY Zenon
  <2>3. CASE x = n
    <3>1. f[x] = log[i]
      BY <1>2, <2>2, <2>3, Zenon
    <3> QED
      BY <2>2, <2>3, <3>1 DEF Extends
  <2>4. CASE x # n
    <3>1. x - 1 \in n .. m /\ x - 1 \in n .. m - 1 /\ ~ (x <= x - 1) /\ x - 1 \in Nat
      BY <1>1, <2>2, <2>4
    <3>2. Extends(f[x - 1], i, B, x - 1)
      BY <2>1, <3>1, Zenon
    <3> DEFINE s == f[x - 1]
               o == OutputOf(i, x - 1, B[x - 1], s)
               t == Append(s, o)
    <3>3. f[x] = t
      BY <1>2, <2>2, <2>4, Zenon
    <3>4. s \in Seq(Entry) /\ Len(s) = x - 1
      BY <3>2, Zenon DEF Extends
    <3>5. B[x - 1] \in Node
      BY <3>1, ZenonT(40)
    <3>6. /\ o \in Entry
          /\ o.block = B[x - 1]
          /\ o.refs = {p \in Node : /\ p \in Reference[x - 1][B[x - 1]]
                                    /\ <<x - 2, p>> \in store[i]
                                    /\ x - 1 > 0 => p # s[x - 1].block}
      <4>1. (x - 1) - 1 = x - 2
        BY <3>1
      <4> HIDE DEF s
      <4> QED
        BY <3>4, <3>5, <4>1, OutputOfEntry
    <3> HIDE DEF s, o
    <3>7. /\ t \in Seq(Entry)
          /\ Len(t) = x
          /\ t[x] = o
          /\ \A l \in 1 .. x - 1 : t[l] = s[l]
      BY <3>1, <3>4, <3>6
    <3> HIDE DEF t
    <3>8. \A l \in 1 .. n : t[l] = log[i][l]
      <4>1. \A l \in 1 .. n : l \in 1 .. x - 1 /\ s[l] = log[i][l]
        BY <1>1, <3>1, <3>2 DEF Extends, s
      <4> QED
        BY <3>7, <4>1, ZenonT(40)
    <3>9. ASSUME NEW l \in n + 1 .. x
          PROVE  t[l].block = B[l - 1] /\ t[l].refs = Refs(i, t, l)
      <4>1. CASE l = x
        <5>1. x > 1 <=> x - 1 > 0
          BY <3>1
        <5>2. x > 1 => t[x - 1] = s[x - 1]
          BY <3>1, <3>7
        <5> QED
          BY <3>6, <3>7, <4>1, <5>1, <5>2, Zenon DEF Refs
      <4>2. CASE l # x
        <5>1. l \in n + 1 .. x - 1 /\ l \in 1 .. x - 1 /\ l \in Nat
          BY <1>1, <3>1, <4>2
        <5>2. s[l].block = B[l - 1] /\ s[l].refs = Refs(i, s, l)
          BY <3>2, <5>1, Zenon DEF Extends, s
        <5>3. t[l] = s[l] /\ (l > 1 => t[l - 1] = s[l - 1])
          BY <3>1, <3>7, <5>1
        <5> QED
          BY <5>2, <5>3, Zenon DEF Refs
      <4> QED
        BY <4>1, <4>2, Zenon
    <3>10. Extends(t, i, B, x)
      BY <3>7, <3>8, <3>9, Zenon DEF Extends
    <3> QED
      BY <2>2, <3>3, <3>10, Zenon
  <2> QED
    BY <2>3, <2>4, Zenon
<1>4. m \in n .. m
  BY <1>1
<1> QED
  BY <1>3, <1>4, Zenon

\* Node i outputs the blocks in B up to gap, in order, and keeps those beyond.
OutputsTo(i, B, gap) ==
  /\ \A l \in Len(log[i]) .. gap - 1 : B[l] # NONE
  /\ \E s : Extends(s, i, B, gap) /\ log' = [log EXCEPT ![i] = s]
  /\ Blocks' = [Blocks EXCEPT ![i] = [k \in Epochs |-> IF k < gap THEN NONE ELSE B[k]]]

LEMMA CommitEffect ==
  ASSUME store \in [Node -> SUBSET (Epochs \X Node)],
         log \in [Node -> Seq(Entry)],
         Blocks \in [Node -> [Epochs -> Node \cup {NONE}]],
         NEW i \in Node, Len(log[i]) <= MaxEpoch + 1,
         NEW e \in Epochs, NEW b \in Node, Commit(i, e, b)
  PROVE  \/ UNCHANGED logVars
         \/ \E gap \in Len(log[i]) .. MaxEpoch + 1 :
              OutputsTo(i, [Blocks[i] EXCEPT ![e] = b], gap)
<1> DEFINE B == [Blocks[i] EXCEPT ![e] = b]
           IsGap(k) == /\ k \in Epochs => B[k] = NONE
                       /\ \A l \in Index(i) .. k - 1 : B[l] # NONE
           gap == CHOOSE k \in Index(i) .. MaxEpoch + 1 : IsGap(k)
           out == CHOOSE f : f = [k \in Index(i) .. gap |->
                    IF k = Index(i) THEN log[i]
                    ELSE Append(f[k - 1], OutputOf(i, k - 1, B[k - 1], f[k - 1]))]
<1>1. \/ UNCHANGED logVars
      \/ /\ log' = [log EXCEPT ![i] = out[gap]]
         /\ Blocks' = [Blocks EXCEPT ![i] = [k \in Epochs |-> IF k < gap THEN NONE ELSE B[k]]]
  BY Zenon DEF Commit
<1>2. /\ MaxEpoch \in Nat
      /\ log[i] \in Seq(Entry)
      /\ Index(i) = Len(log[i])
      /\ Index(i) \in Nat
      /\ Index(i) <= MaxEpoch + 1
  BY MercuryAssumption DEF Index
<1>3. B \in [Epochs -> Node \cup {NONE}]
  BY Zenon
<1>4. gap \in Index(i) .. MaxEpoch + 1 /\ IsGap(gap)
  <2>1. \E k \in Index(i) .. MaxEpoch + 1 : IsGap(k)
    <3> DEFINE T == {k \in Index(i) .. MaxEpoch + 1 : k \in Epochs => B[k] = NONE}
    <3>1. MaxEpoch + 1 \in T
      BY <1>2 DEF Epochs
    <3>2. T \in SUBSET Nat /\ T # {}
      <4>1. T \subseteq Index(i) .. MaxEpoch + 1
        BY Zenon
      <4>2. Index(i) .. MaxEpoch + 1 \subseteq Nat
        BY <1>2
      <4> QED
        BY <3>1, <4>1, <4>2, Zenon
    <3>3. PICK x \in T : \A y \in T : x <= y
      <4> HIDE DEF T
      <4> QED
        BY <3>2, LeastElement, Zenon
    <3>4. ASSUME NEW l \in Index(i) .. x - 1 PROVE B[l] # NONE
      <4>1. l \in Index(i) .. MaxEpoch + 1 /\ ~ (x <= l)
        BY <1>2
      <4>2. l \notin T
        BY <3>3, <4>1, Zenon
      <4> QED
        BY <4>1, <4>2, Zenon
    <3> QED
      BY <3>4, Zenon
  <2> HIDE DEF IsGap
  <2> QED
    BY <2>1, Zenon
<1> HIDE DEF gap
<1>5. gap \in Nat /\ Index(i) <= gap
  BY <1>2, <1>4
<1>6. \A l \in Len(log[i]) .. gap - 1 : B[l] # NONE /\ B[l] \in Node
  <2>1. \A l \in Len(log[i]) .. gap - 1 : l \in Epochs
    BY <1>2, <1>4 DEF Epochs
  <2> QED
    BY <1>2, <1>3, <1>4, <2>1, Zenon
<1> HIDE DEF B
<1>7. IsOut(out, i, B, Index(i), gap)
  <2>1. \E f : IsOut(f, i, B, Index(i), gap)
    BY <1>2, <1>5, OutExists, Zenon
  <2> QED
    BY <2>1, Zenon DEF IsOut
<1> HIDE DEF out
<1>8. Extends(out[gap], i, B, gap)
  BY <1>2, <1>5, <1>6, <1>7, OutExtends, Zenon
<1>9. UNCHANGED logVars \/ OutputsTo(i, B, gap)
  BY <1>1, <1>6, <1>8, Zenon DEF OutputsTo
<1> QED
  BY <1>2, <1>4, <1>9, Zenon DEF B

-----------------------------------------------------------------------------
(***************************************************************************)
(* What is output.  A Halt names the elected block; a log holds elected    *)
(* blocks, except of epochs whose Halt named the wrong leader; and once an *)
(* epoch can be output the part of the store it refers to is closed.       *)
(***************************************************************************)
RestTypes ==
  /\ Epoch \in [Node -> 0 .. MaxEpoch + 1]
  /\ done \in [Epochs -> [Tries -> SUBSET Node]]
  /\ ready \in [Epochs -> [Tries -> SUBSET Node]]
  /\ elected \in [Epochs -> SUBSET Node]
  /\ leader \in [Epochs -> [Node -> Node \cup {NONE}]]
  /\ prevote \in [Epochs -> [Node -> Node \cup {NO, NONE}]]
  /\ finvote \in [Epochs -> [Node -> Node \cup {NO, NONE}]]
  /\ action \in [Epochs -> [Node -> {"ACTION_NONE", "ACTION_YES", "ACTION_NO", "ACTION_COMMIT"}]]
  /\ halts \subseteq Halt
  /\ HaltFlags \in [Node -> SUBSET Epochs]
  /\ Blocks \in [Node -> [Epochs -> Node \cup {NONE}]]
  /\ log \in [Node -> Seq(Entry)]

\* Every Halt of epoch e names the elected leader.
LeaderNamed(e) == \A h \in halts : h.epoch = e => h.leader = LeaderOf[e]

\* The ballots are about the elected block, and so are the Halts.
BallotInv ==
  /\ \A e \in Epochs, i \in Node : prevote[e][i] \in {LeaderOf[e], NO, NONE}
  /\ \A e \in Epochs, i \in Node : finvote[e][i] \in {LeaderOf[e], NO, NONE}
  /\ \A h \in halts : h.block = LeaderOf[h.epoch]

\* An epoch that has halted at a node is over there, and the node's leader of it
\* is one that a Halt named.
HaltedInv ==
  \A i \in Node : \A e \in HaltFlags[i] :
    e < Epoch[i] /\ \E h \in halts : h.epoch = e /\ leader[e][i] = h.leader

\* A block is proposed once, before anybody has it.
OnceInv ==
  /\ \A e \in Epochs, p \in Node : Reference[e][p] # NONE => e <= Epoch[p]
  /\ \A i \in Node, e \in Epochs, p \in Node : <<e, p>> \in store[i] => Reference[e][p] # NONE
  /\ \A e \in Epochs, p \in Node : carried[e][p] # NONE => Reference[e][carried[e][p]] # NONE

\* What waits in the Committor of node i.
Waits(i) ==
  \A e \in Epochs :
    Blocks[i][e] # NONE =>
      /\ e < Epoch[i]
      /\ Reference[e][Blocks[i][e]] # NONE
      /\ Blocks[i][e] = LeaderOf[e] \/ ~ LeaderNamed(e)

\* What the Committor of node i has output as its entry k.
EntryOut(i, k) ==
  /\ Reference[k - 1][log[i][k].block] # NONE
  /\ log[i][k].block = LeaderOf[k - 1] \/ ~ LeaderNamed(k - 1)
  /\ log[i][k].refs = Refs(i, log[i], k)

WaitInv == \A i \in Node : Waits(i)
LogInv == \A i \in Node : Len(log[i]) <= Epoch[i] /\ \A k \in 1 .. Len(log[i]) : EntryOut(i, k)

OInv == RestTypes /\ BallotInv /\ HaltedInv /\ OnceInv /\ WaitInv /\ LogInv

LEMMA InitOInv == Init => OInv
<1> SUFFICES ASSUME Init PROVE OInv
  BY Zenon
<1>1. RestTypes
  <2>1. /\ Epoch \in [Node -> 0 .. MaxEpoch + 1]
        /\ done \in [Epochs -> [Tries -> SUBSET Node]]
        /\ ready \in [Epochs -> [Tries -> SUBSET Node]]
        /\ elected \in [Epochs -> SUBSET Node]
    BY MercuryAssumption DEF Init
  <2>2. /\ leader \in [Epochs -> [Node -> Node \cup {NONE}]]
        /\ prevote \in [Epochs -> [Node -> Node \cup {NO, NONE}]]
        /\ finvote \in [Epochs -> [Node -> Node \cup {NO, NONE}]]
    BY Zenon DEF Init
  <2>3. /\ action \in [Epochs -> [Node ->
                        {"ACTION_NONE", "ACTION_YES", "ACTION_NO", "ACTION_COMMIT"}]]
        /\ halts \subseteq Halt
        /\ HaltFlags \in [Node -> SUBSET Epochs]
        /\ Blocks \in [Node -> [Epochs -> Node \cup {NONE}]]
    BY Zenon DEF Init
  <2>4. log \in [Node -> Seq(Entry)]
    <3>1. <<>> \in Seq(Entry)
      OBVIOUS
    <3> QED
      BY <3>1, Zenon DEF Init
  <2> QED
    BY <2>1, <2>2, <2>3, <2>4, Zenon DEF RestTypes
<1>2. BallotInv
  BY Zenon DEF Init, BallotInv
<1>3. HaltedInv
  BY Zenon DEF Init, HaltedInv
<1>4. OnceInv
  BY MercuryAssumption DEF Init, OnceInv, Epochs
<1>5. WaitInv
  BY Zenon DEF Init, WaitInv, Waits
<1>6. LogInv
  <2>1. \A i \in Node : Len(log[i]) = 0 /\ Epoch[i] = 0
    BY Zenon DEF Init
  <2> QED
    BY <2>1 DEF LogInv
<1> QED
  BY <1>1, <1>2, <1>3, <1>4, <1>5, <1>6, Zenon DEF OInv

\* The epochs and entries of a log.
LEMMA LogShape ==
  ASSUME OInv, NEW i \in Node
  PROVE  /\ log[i] \in Seq(Entry)
         /\ Len(log[i]) \in Nat
         /\ Epoch[i] \in Nat
         /\ Len(log[i]) <= Epoch[i]
         /\ Len(log[i]) <= MaxEpoch + 1
         /\ \A k \in DOMAIN log[i] : k \in 1 .. Len(log[i])
         /\ \A k \in 1 .. Len(log[i]) :
              /\ k \in Nat
              /\ k - 1 \in Epochs
              /\ k - 2 \in Int /\ k - 2 < Epoch[i]
              /\ log[i][k].block \in Node
<1>1. log[i] \in Seq(Entry) /\ Epoch[i] \in 0 .. MaxEpoch + 1
  BY Zenon DEF OInv, RestTypes
<1>2. Len(log[i]) <= Epoch[i]
  BY Zenon DEF OInv, LogInv
<1>3. /\ Len(log[i]) \in Nat /\ Epoch[i] \in Nat /\ Len(log[i]) <= MaxEpoch + 1
      /\ \A k \in DOMAIN log[i] : k \in 1 .. Len(log[i])
  BY <1>1, <1>2, MercuryAssumption
<1>4. ASSUME NEW k \in 1 .. Len(log[i])
      PROVE  k \in Nat /\ k - 1 \in Epochs /\ k - 2 \in Int /\ k - 2 < Epoch[i]
  BY <1>2, <1>3, MercuryAssumption DEF Epochs
<1>5. ASSUME NEW k \in 1 .. Len(log[i]) PROVE log[i][k].block \in Node
  <2>1. log[i][k] \in Entry
    BY <1>1
  <2> QED
    BY <2>1, Zenon DEF Entry
<1> QED
  BY <1>1, <1>2, <1>3, <1>4, <1>5, Zenon

\* The epochs go on, blocks keep their references, Halts stay, and blocks are
\* stored only in epochs that are not over.
Grows ==
  /\ Epoch' \in [Node -> 0 .. MaxEpoch + 1]
  /\ \A j \in Node : Epoch[j] <= Epoch'[j]
  /\ \A e \in Epochs, p \in Node : Reference[e][p] # NONE => Reference'[e][p] = Reference[e][p]
  /\ halts \subseteq halts'
  /\ \A j \in Node, p \in Node : \A e \in Int :
       e < Epoch[j] => (<<e, p>> \in store'[j] <=> <<e, p>> \in store[j])

LEMMA EpochsGrow ==
  ASSUME OInv, Grows, NEW j \in Node
  PROVE  /\ Epoch[j] \in Nat /\ Epoch'[j] \in Nat
         /\ \A d \in Epochs : d < Epoch[j] => d < Epoch'[j]
         /\ \A n \in Nat : n <= Epoch[j] => n <= Epoch'[j]
<1>1. Epoch[j] \in Nat
  BY LogShape, Zenon
<1>2. Epoch'[j] \in Nat /\ Epoch[j] <= Epoch'[j]
  BY MercuryAssumption DEF Grows
<1> QED
  BY <1>1, <1>2, MercuryAssumption DEF Epochs

\* A wrong leader stays named.
LEMMA WrongLeaderStays ==
  ASSUME Grows, NEW e, ~ LeaderNamed(e)
  PROVE  ~ LeaderNamed(e)'
BY Zenon DEF LeaderNamed, Grows

\* The Committor of a node at which nothing is output.
LEMMA NodeFrame ==
  ASSUME OInv, Grows, NEW i \in Node, Blocks'[i] = Blocks[i], log'[i] = log[i]
  PROVE  /\ Waits(i)'
         /\ Len(log'[i]) <= Epoch'[i]
         /\ \A k \in 1 .. Len(log'[i]) : EntryOut(i, k)'
<1>1. ASSUME NEW e \in Epochs, Blocks[i][e] # NONE
      PROVE  /\ e < Epoch'[i]
             /\ Reference'[e][Blocks[i][e]] # NONE
             /\ Blocks[i][e] = LeaderOf[e] \/ ~ LeaderNamed(e)'
  <2>1. /\ e < Epoch[i]
        /\ Reference[e][Blocks[i][e]] # NONE
        /\ Blocks[i][e] = LeaderOf[e] \/ ~ LeaderNamed(e)
    BY <1>1, Zenon DEF OInv, WaitInv, Waits
  <2>2. Blocks[i][e] \in Node
    BY <1>1 DEF OInv, RestTypes
  <2>3. Reference'[e][Blocks[i][e]] = Reference[e][Blocks[i][e]]
    BY <2>1, <2>2, Zenon DEF Grows
  <2> QED
    BY <2>1, <2>3, EpochsGrow, WrongLeaderStays, Zenon
<1>2. Waits(i)'
  BY <1>1, Zenon DEF Waits
<1>3. Len(log[i]) <= Epoch'[i]
  BY LogShape, EpochsGrow, Zenon
<1>4. ASSUME NEW k \in 1 .. Len(log[i]) PROVE EntryOut(i, k)'
  <2>1. EntryOut(i, k)
    BY Zenon DEF OInv, LogInv
  <2>2. k - 1 \in Epochs /\ log[i][k].block \in Node /\ k - 2 \in Int /\ k - 2 < Epoch[i]
    BY LogShape, Zenon
  <2>3. Reference'[k - 1][log[i][k].block] = Reference[k - 1][log[i][k].block]
    BY <2>1, <2>2, Zenon DEF Grows, EntryOut
  <2>4. \A p \in Node : <<k - 2, p>> \in store'[i] <=> <<k - 2, p>> \in store[i]
    BY <2>2, ZenonT(40) DEF Grows
  <2>5. Refs(i, log[i], k)' = Refs(i, log[i], k)
    BY <2>3, <2>4, Zenon DEF Refs
  <2> QED
    BY <2>1, <2>3, <2>5, WrongLeaderStays, Zenon DEF EntryOut
<1> QED
  BY <1>2, <1>3, <1>4, Zenon

\* A step that outputs nothing.
LEMMA LogFrame ==
  ASSUME OInv, Grows, UNCHANGED logVars
  PROVE  WaitInv' /\ LogInv'
<1>1. Blocks' = Blocks /\ log' = log
  BY Zenon DEF logVars
<1> QED
  BY <1>1, NodeFrame, Zenon DEF WaitInv, LogInv

\* A block that may wait or be output in epoch d, at a node i.
MayBeOutput(i, d, b) ==
  /\ b \in Node
  /\ d < Epoch'[i]
  /\ Reference[d][b] # NONE
  /\ Reference'[d][b] = Reference[d][b]
  /\ b = LeaderOf[d] \/ ~ LeaderNamed(d)

\* What waits may be output, and so may a block that is committed.
LEMMA WaitingMayBeOutput ==
  ASSUME OInv, Grows, NEW i \in Node, NEW d \in Epochs, Blocks[i][d] # NONE
  PROVE  MayBeOutput(i, d, Blocks[i][d])
<1>1. Blocks[i][d] \in Node
  BY DEF OInv, RestTypes
<1>2. /\ d < Epoch[i]
      /\ Reference[d][Blocks[i][d]] # NONE
      /\ Blocks[i][d] = LeaderOf[d] \/ ~ LeaderNamed(d)
  BY Zenon DEF OInv, WaitInv, Waits
<1>3. d < Epoch'[i]
  BY <1>2, EpochsGrow, Zenon
<1>4. Reference'[d][Blocks[i][d]] = Reference[d][Blocks[i][d]]
  BY <1>1, <1>2, Zenon DEF Grows
<1> QED
  BY <1>1, <1>2, <1>3, <1>4, Zenon DEF MayBeOutput

\* The entries of a log that was extended.
LEMMA ExtendedLog ==
  ASSUME OInv, Grows, store' = store, NEW i \in Node, NEW B,
         \A d \in Epochs : B[d] # NONE => MayBeOutput(i, d, B[d]),
         NEW gap \in Len(log[i]) .. MaxEpoch + 1,
         \A l \in Len(log[i]) .. gap - 1 : B[l] # NONE,
         Extends(log'[i], i, B, gap)
  PROVE  Len(log'[i]) <= Epoch'[i] /\ \A k \in 1 .. Len(log'[i]) : EntryOut(i, k)'
<1> DEFINE n == Len(log[i])
           s == log'[i]
<1>1. n \in Nat /\ n <= Epoch[i] /\ MaxEpoch \in Nat /\ Len(s) = gap
  BY LogShape, MercuryAssumption, Zenon DEF Extends
<1>2. gap <= Epoch'[i]
  <2>1. CASE gap = n
    BY <1>1, <2>1, EpochsGrow, ZenonT(40)
  <2>2. CASE gap # n
    <3>1. gap - 1 \in n .. gap - 1 /\ gap - 1 \in Epochs /\ gap \in Nat
      BY <1>1, <2>2 DEF Epochs
    <3>2. gap - 1 < Epoch'[i]
      BY <3>1, Zenon DEF MayBeOutput
    <3>3. Epoch'[i] \in Nat
      BY EpochsGrow, Zenon
    <3> QED
      BY <3>1, <3>2, <3>3
  <2> QED
    BY <2>1, <2>2, Zenon
<1>3. ASSUME NEW k \in 1 .. gap PROVE EntryOut(i, k)'
  <2>1. /\ k \in Nat /\ k - 1 \in Epochs
        /\ k \in 1 .. n \/ (k \in n + 1 .. gap /\ k - 1 \in n .. gap - 1)
        /\ k \in 1 .. n /\ k > 1 => k - 1 \in 1 .. n
    BY <1>1 DEF Epochs
  <2>2. /\ s[k].block \in Node
        /\ Reference[k - 1][s[k].block] # NONE
        /\ Reference'[k - 1][s[k].block] = Reference[k - 1][s[k].block]
        /\ s[k].block = LeaderOf[k - 1] \/ ~ LeaderNamed(k - 1)
        /\ s[k].refs = Refs(i, s, k)
    <3>1. CASE k \in 1 .. n
      <4>1. s[k] = log[i][k] /\ (k > 1 => s[k - 1] = log[i][k - 1])
        BY <2>1, <3>1, Zenon DEF Extends
      <4>2. EntryOut(i, k)
        BY <3>1, Zenon DEF OInv, LogInv
      <4>3. log[i][k].block \in Node
        BY <3>1, LogShape, Zenon
      <4>4. Refs(i, s, k) = Refs(i, log[i], k)
        BY <4>1, Zenon DEF Refs
      <4>5. Reference'[k - 1][log[i][k].block] = Reference[k - 1][log[i][k].block]
        BY <2>1, <4>2, <4>3, Zenon DEF Grows, EntryOut
      <4> QED
        BY <4>1, <4>2, <4>3, <4>4, <4>5, Zenon DEF EntryOut
    <3>2. CASE k \in n + 1 .. gap /\ k - 1 \in n .. gap - 1
      <4>1. s[k].block = B[k - 1] /\ s[k].refs = Refs(i, s, k)
        BY <3>2, Zenon DEF Extends
      <4>2. MayBeOutput(i, k - 1, B[k - 1])
        BY <2>1, <3>2, Zenon
      <4> QED
        BY <4>1, <4>2, Zenon DEF MayBeOutput
    <3> QED
      BY <2>1, <3>1, <3>2, Zenon
  <2>3. Refs(i, log[i], k)' = Refs(i, s, k)
    BY <2>2, Zenon DEF Refs
  <2> QED
    BY <2>2, <2>3, WrongLeaderStays, Zenon DEF EntryOut
<1> QED
  BY <1>1, <1>2, <1>3, Zenon

\* Commit of a proposed block that is the elected one, or of an epoch whose Halt
\* names the wrong leader.
LEMMA CommitStep ==
  ASSUME IInv, OInv, Grows, store' = store,
         NEW i \in Node, NEW e \in Epochs, NEW b \in Node, Commit(i, e, b),
         e < Epoch'[i], Reference[e][b] # NONE,
         b = LeaderOf[e] \/ ~ LeaderNamed(e)
  PROVE  /\ log' \in [Node -> Seq(Entry)]
         /\ Blocks' \in [Node -> [Epochs -> Node \cup {NONE}]]
         /\ WaitInv' /\ LogInv'
<1> DEFINE B == [Blocks[i] EXCEPT ![e] = b]
<1>1. /\ store \in [Node -> SUBSET (Epochs \X Node)]
      /\ log \in [Node -> Seq(Entry)]
      /\ Blocks \in [Node -> [Epochs -> Node \cup {NONE}]]
  BY Zenon DEF IInv, Types, OInv, RestTypes
<1>2. /\ B \in [Epochs -> Node \cup {NONE}]
      /\ \A d \in Epochs : B[d] = IF d = e THEN b ELSE Blocks[i][d]
  BY <1>1, Zenon
<1>3. UNCHANGED logVars \/ \E gap \in Len(log[i]) .. MaxEpoch + 1 : OutputsTo(i, B, gap)
  BY <1>1, LogShape, CommitEffect, Zenon
<1> HIDE DEF B
<1>4. \A d \in Epochs : B[d] # NONE => MayBeOutput(i, d, B[d])
  <2>1. MayBeOutput(i, e, b)
    BY Zenon DEF MayBeOutput, Grows
  <2> QED
    BY <1>2, <2>1, WaitingMayBeOutput, Zenon
<1>5. CASE UNCHANGED logVars
  BY <1>1, <1>5, LogFrame, Zenon DEF logVars
<1>6. ASSUME NEW gap \in Len(log[i]) .. MaxEpoch + 1, OutputsTo(i, B, gap)
      PROVE  /\ log' \in [Node -> Seq(Entry)]
             /\ Blocks' \in [Node -> [Epochs -> Node \cup {NONE}]]
             /\ WaitInv' /\ LogInv'
  <2>1. PICK s : Extends(s, i, B, gap) /\ log' = [log EXCEPT ![i] = s]
    BY <1>6, Zenon DEF OutputsTo
  <2>2. /\ log' \in [Node -> Seq(Entry)]
        /\ log'[i] = s
        /\ \A j \in Node : j # i => log'[j] = log[j]
    <3>1. s \in Seq(Entry)
      BY <2>1, Zenon DEF Extends
    <3> QED
      BY <1>1, <2>1, <3>1, Zenon
  <2> DEFINE W == [k \in Epochs |-> IF k < gap THEN NONE ELSE B[k]]
  <2>3. W \in [Epochs -> Node \cup {NONE}] /\ \A d \in Epochs : W[d] # NONE => W[d] = B[d]
    BY <1>2, Zenon
  <2>4. Blocks' = [Blocks EXCEPT ![i] = W] /\ \A l \in Len(log[i]) .. gap - 1 : B[l] # NONE
    BY <1>6, Zenon DEF OutputsTo
  <2> HIDE DEF W
  <2>5. /\ Blocks' \in [Node -> [Epochs -> Node \cup {NONE}]]
        /\ Blocks'[i] = W
        /\ \A j \in Node : j # i => Blocks'[j] = Blocks[j]
    BY <1>1, <2>3, <2>4, Zenon
  <2>6. Waits(i)'
    BY <1>4, <2>3, <2>5, WrongLeaderStays, ZenonT(40) DEF Waits, MayBeOutput
  <2>7. Len(log'[i]) <= Epoch'[i] /\ \A k \in 1 .. Len(log'[i]) : EntryOut(i, k)'
    BY <1>4, <2>1, <2>2, <2>4, ExtendedLog, Zenon
  <2> QED
    BY <2>2, <2>5, <2>6, <2>7, NodeFrame, Zenon DEF WaitInv, LogInv
<1> QED
  BY <1>3, <1>5, <1>6, Zenon

\* A step that leaves the epochs alone, and stores nothing in those that are over.
LEMMA SameEpochs ==
  ASSUME OInv, UNCHANGED <<Epoch, Reference>>, halts \subseteq halts',
         \A j \in Node, p \in Node : \A e \in Int :
           e < Epoch[j] => (<<e, p>> \in store'[j] <=> <<e, p>> \in store[j])
  PROVE  Grows
<1>1. \A j \in Node : Epoch[j] \in Nat
  BY LogShape, Zenon
<1>2. \A j \in Node : Epoch[j] <= Epoch'[j]
  BY <1>1
<1>3. Epoch' \in [Node -> 0 .. MaxEpoch + 1]
  BY Zenon DEF OInv, RestTypes
<1> QED
  BY <1>2, <1>3, Zenon DEF Grows

\* A step that outputs nothing and leaves the epochs and the broadcasts alone.
LEMMA BallotFrame ==
  ASSUME OInv, UNCHANGED <<Epoch, Reference, store, Blocks, log>>, halts \subseteq halts'
  PROVE  WaitInv' /\ LogInv'
<1>1. Grows
  BY SameEpochs, Zenon
<1>2. UNCHANGED logVars
  BY Zenon DEF logVars
<1> QED
  BY <1>1, <1>2, LogFrame, Zenon

\* A step that these invariants do not look at.
LEMMA QuietStep ==
  ASSUME IInv, OInv,
         UNCHANGED <<Epoch, Reference, carried, store, elected, leader, prevote, finvote, action,
                     halts, HaltFlags, Blocks, log>>,
         done' \in [Epochs -> [Tries -> SUBSET Node]],
         ready' \in [Epochs -> [Tries -> SUBSET Node]]
  PROVE  OInv'
<1>1. RestTypes'
  BY Zenon DEF OInv, RestTypes
<1>2. BallotInv'
  BY Zenon DEF OInv, BallotInv
<1>3. HaltedInv'
  BY DEF OInv, HaltedInv
<1>4. OnceInv'
  BY Zenon DEF OInv, OnceInv
<1>5. WaitInv' /\ LogInv'
  BY BallotFrame, Zenon
<1> QED
  BY <1>1, <1>2, <1>3, <1>4, <1>5, Zenon DEF OInv

\* A proposed block is stored in an epoch that is not over.
LEMMA StoreOStep ==
  ASSUME IInv, OInv, NEW i \in Node, NEW e \in Epochs, NEW b \in Node,
         Passes(i, e), Reference[e][b] # NONE,
         store' = [store EXCEPT ![i] = @ \cup {<<e, b>>}],
         UNCHANGED <<Epoch, Reference, carried, done, ready, elected, leader, voteVars,
                     halts, HaltFlags, logVars>>
  PROVE  OInv'
<1>1. UNCHANGED <<prevote, finvote, action, Blocks, log>>
  BY Zenon DEF voteVars, logVars
<1>2. RestTypes'
  BY <1>1, Zenon DEF OInv, RestTypes
<1>3. BallotInv' /\ HaltedInv'
  BY <1>1, ZenonT(40) DEF OInv, BallotInv, HaltedInv
<1>4. store \in [Node -> SUBSET (Epochs \X Node)]
  BY Zenon DEF IInv, Types
<1>5. \A j \in Node : \A x : x \in store'[j] <=> x \in store[j] \/ (j = i /\ x = <<e, b>>)
  BY <1>4, Zenon
<1>6. OnceInv'
  <2>1. \A j \in Node, d \in Epochs, p \in Node : <<d, p>> \in store'[j] => Reference[d][p] # NONE
    BY <1>5, Zenon DEF OInv, OnceInv
  <2> QED
    BY <2>1, Zenon DEF OInv, OnceInv
<1>7. Grows
  <2>1. ASSUME NEW j \in Node, NEW p \in Node, NEW d \in Int, d < Epoch[j]
        PROVE  <<d, p>> \in store'[j] <=> <<d, p>> \in store[j]
    <3>1. Epoch[j] \in Nat
      BY LogShape, Zenon
    <3>2. ~ (j = i /\ d = e)
      BY <2>1, <3>1 DEF Passes, Epochs
    <3> QED
      BY <1>5, <3>2
  <2> QED
    BY <2>1, SameEpochs, Zenon
<1>8. WaitInv' /\ LogInv'
  BY <1>7, LogFrame, Zenon
<1> QED
  BY <1>2, <1>3, <1>6, <1>8, Zenon DEF OInv

\* A Halt of an epoch names the elected block.
LEMMA HaltAdded ==
  ASSUME OInv, NEW e \in Epochs, NEW ld \in Node,
         halts' = halts \cup {[epoch |-> e, leader |-> ld, block |-> LeaderOf[e]]}
  PROVE  /\ halts' \subseteq Halt
         /\ halts \subseteq halts'
         /\ \A h \in halts' : h.block = LeaderOf[h.epoch]
<1>1. LeaderOf[e] \in Node
  BY MercuryAssumption, Zenon
<1> DEFINE g == [epoch |-> e, leader |-> ld, block |-> LeaderOf[e]]
<1>2. g \in Halt /\ g.block = LeaderOf[g.epoch]
  BY <1>1, Zenon DEF Halt
<1> HIDE DEF g
<1>3. halts' = halts \cup {g}
  BY Zenon DEF g
<1> QED
  BY <1>2, <1>3, Zenon DEF OInv, BallotInv, RestTypes

LEMMA ElectShareOStep ==
  ASSUME IInv, OInv, NEW i \in Node, NEW e \in Epochs, HandleElectShare(i, e)
  PROVE  OInv'
<1>1. /\ Passes(i, e)
      /\ elected' = [elected EXCEPT ![e] = @ \cup {i}]
      /\ leader' = [leader EXCEPT ![e][i] = LeaderOf[e]]
      /\ UNCHANGED <<Epoch, Reference, carried, store, done, ready, finvote, action,
                     HaltFlags, Blocks, log>>
  BY Zenon DEF HandleElectShare, SetLeader, spbVars, logVars
<1>2. LeaderOf[e] \in Node
  BY MercuryAssumption, Zenon
<1>3. \/ /\ halts' = halts \cup {[epoch |-> e, leader |-> LeaderOf[e], block |-> LeaderOf[e]]}
         /\ prevote' = prevote
      \/ /\ halts' = halts
         /\ \E v \in {LeaderOf[e], NO} : prevote' = [prevote EXCEPT ![e][i] = v]
  BY Zenon DEF HandleElectShare, ProcessLeader
<1>4. /\ halts' \subseteq Halt
      /\ halts \subseteq halts'
      /\ \A h \in halts' : h.block = LeaderOf[h.epoch]
  <2>1. CASE halts' = halts
    BY <2>1, Zenon DEF OInv, RestTypes, BallotInv
  <2>2. CASE halts' = halts \cup {[epoch |-> e, leader |-> LeaderOf[e], block |-> LeaderOf[e]]}
    BY <1>2, <2>2, HaltAdded, Zenon
  <2> QED
    BY <1>3, <2>1, <2>2, Zenon
<1>5. /\ prevote' \in [Epochs -> [Node -> Node \cup {NO, NONE}]]
      /\ \A d \in Epochs, j \in Node : prevote'[d][j] \in {LeaderOf[d], NO, NONE}
  <2>1. /\ prevote \in [Epochs -> [Node -> Node \cup {NO, NONE}]]
        /\ \A d \in Epochs, j \in Node : prevote[d][j] \in {LeaderOf[d], NO, NONE}
    BY Zenon DEF OInv, RestTypes, BallotInv
  <2>2. CASE prevote' = prevote
    BY <2>1, <2>2, Zenon
  <2>3. ASSUME NEW v \in {LeaderOf[e], NO}, prevote' = [prevote EXCEPT ![e][i] = v]
        PROVE  <1>5!1 /\ <1>5!2
    <3>1. v \in Node \cup {NO, NONE}
      BY <1>2, Zenon
    <3>2. /\ prevote' \in [Epochs -> [Node -> Node \cup {NO, NONE}]]
          /\ \A d \in Epochs, j \in Node :
               prevote'[d][j] = IF d = e /\ j = i THEN v ELSE prevote[d][j]
      BY <2>1, <2>3, <3>1, EntryUpdate
    <3> QED
      BY <2>1, <3>2, ZenonT(40)
  <2> QED
    BY <1>3, <2>2, <2>3, Zenon
<1>6. /\ leader' \in [Epochs -> [Node -> Node \cup {NONE}]]
      /\ \A d \in Epochs, j \in Node :
           leader'[d][j] = IF d = e /\ j = i THEN LeaderOf[e] ELSE leader[d][j]
  <2>1. leader \in [Epochs -> [Node -> Node \cup {NONE}]] /\ LeaderOf[e] \in Node \cup {NONE}
    BY <1>2, Zenon DEF OInv, RestTypes
  <2> QED
    BY <1>1, <2>1, EntryUpdate
<1>7. elected' \in [Epochs -> SUBSET Node]
  BY <1>1, Zenon DEF OInv, RestTypes
<1>8. RestTypes'
  BY <1>1, <1>4, <1>5, <1>6, <1>7, ZenonT(40) DEF OInv, RestTypes
<1>9. BallotInv'
  BY <1>1, <1>4, <1>5, Zenon DEF OInv, BallotInv
<1>10. HaltedInv'
  <2> SUFFICES ASSUME NEW j \in Node, NEW d \in HaltFlags[j]
               PROVE  d < Epoch[j] /\ \E h \in halts' : h.epoch = d /\ leader'[d][j] = h.leader
    BY <1>1, Zenon DEF HaltedInv
  <2>1. d \in Epochs /\ d < Epoch[j] /\ \E h \in halts : h.epoch = d /\ leader[d][j] = h.leader
    BY Zenon DEF OInv, HaltedInv, RestTypes
  <2>2. ~ (d = e /\ j = i)
    BY <1>1, <2>1, MercuryAssumption DEF Passes, OInv, RestTypes, Epochs
  <2>3. leader'[d][j] = leader[d][j]
    BY <1>6, <2>1, <2>2, ZenonT(40)
  <2> QED
    BY <1>4, <2>1, <2>3, Zenon
<1>11. OnceInv'
  BY <1>1, Zenon DEF OInv, OnceInv
<1>12. WaitInv' /\ LogInv'
  BY <1>1, <1>4, BallotFrame, Zenon
<1> QED
  BY <1>8, <1>9, <1>10, <1>11, <1>12, Zenon DEF OInv

\* A FinVote repeats a Prevote or is negative.
LEMMA PrevoteOStep ==
  ASSUME IInv, OInv, NEW i \in Node, NEW e \in Epochs,
         HandlePrevoteNo(i, e) \/ \E j \in Node : HandlePrevoteYes(i, e, j)
  PROVE  OInv'
<1>1. /\ \E v \in {LeaderOf[e], NO} : finvote' = [finvote EXCEPT ![e][i] = v]
      /\ UNCHANGED <<Epoch, Reference, carried, store, done, ready, elected, leader, prevote, action,
                     halts, HaltFlags, Blocks, log>>
  <2>1. CASE HandlePrevoteNo(i, e)
    BY <2>1, Zenon DEF HandlePrevoteNo, spbVars, electVars, logVars
  <2>2. ASSUME NEW j \in Node, HandlePrevoteYes(i, e, j) PROVE <1>1!1 /\ <1>1!2
    <3>1. prevote[e][j] \in {LeaderOf[e], NO}
      BY <2>2, CommitteeAssumption, Zenon DEF HandlePrevoteYes, OInv, BallotInv
    <3> QED
      BY <2>2, <3>1, Zenon DEF HandlePrevoteYes, spbVars, electVars, logVars
  <2> QED
    BY <2>1, <2>2, Zenon
<1>2. PICK v \in {LeaderOf[e], NO} : finvote' = [finvote EXCEPT ![e][i] = v]
  BY <1>1, Zenon
<1>3. /\ finvote' \in [Epochs -> [Node -> Node \cup {NO, NONE}]]
      /\ \A d \in Epochs, j \in Node :
           finvote'[d][j] = IF d = e /\ j = i THEN v ELSE finvote[d][j]
  <2>1. /\ finvote \in [Epochs -> [Node -> Node \cup {NO, NONE}]]
        /\ v \in Node \cup {NO, NONE}
    BY MercuryAssumption, Zenon DEF OInv, RestTypes
  <2> QED
    BY <1>2, <2>1, EntryUpdate
<1>4. RestTypes'
  BY <1>1, <1>3, Zenon DEF OInv, RestTypes
<1>5. BallotInv'
  BY <1>1, <1>3, ZenonT(40) DEF OInv, BallotInv
<1>6. HaltedInv' /\ OnceInv'
  BY <1>1 DEF OInv, HaltedInv, OnceInv
<1>7. WaitInv' /\ LogInv'
  BY <1>1, BallotFrame, Zenon
<1> QED
  BY <1>4, <1>5, <1>6, <1>7, Zenon DEF OInv

\* A Halt on FinVotes names the elected block, if not its leader.
LEMMA FinvoteOStep ==
  ASSUME IInv, OInv, NEW i \in Node, NEW e \in Epochs, NEW Q \in FinVoteQuorums(e), NEW last \in Q,
         HandleFinvote(i, e, Q, last)
  PROVE  OInv'
<1>1. /\ action' = [action EXCEPT ![e][i] = FinVoteAction(e, Q)]
      /\ UNCHANGED <<Epoch, Reference, store, ready, elected, leader, prevote, finvote,
                     HaltFlags, Blocks, log>>
  BY Zenon DEF HandleFinvote, logVars
<1>2. FinVoteAction(e, Q) \in {"ACTION_YES", "ACTION_NO", "ACTION_COMMIT"}
  BY Zenon DEF FinVoteAction
<1>3. last \in Node /\ finvote[e][last] # NONE
  BY Zenon DEF FinVoteQuorums
<1>4. \/ FinVoteAction(e, Q) = "ACTION_COMMIT"
         /\ halts' = halts \cup {[epoch |-> e, leader |-> NodeZero, block |-> finvote[e][last]]}
      \/ halts' = halts
  BY <1>2, ZenonT(40) DEF HandleFinvote
<1>5. FinVoteAction(e, Q) = "ACTION_COMMIT" => finvote[e][last] = LeaderOf[e]
  <2>1. FinVoteAction(e, Q) = "ACTION_COMMIT" => finvote[e][last] # NO
    BY Zenon DEF FinVoteAction
  <2> QED
    BY <1>3, <2>1, Zenon DEF OInv, BallotInv
<1>6. /\ halts' \subseteq Halt
      /\ halts \subseteq halts'
      /\ \A h \in halts' : h.block = LeaderOf[h.epoch]
  <2>1. CASE halts' = halts
    BY <2>1, Zenon DEF OInv, RestTypes, BallotInv
  <2>2. CASE halts' = halts \cup {[epoch |-> e, leader |-> NodeZero, block |-> LeaderOf[e]]}
    <3>1. NodeZero \in Node
      BY MercuryAssumption, Zenon
    <3> QED
      BY <2>2, <3>1, HaltAdded, Zenon
  <2> QED
    BY <1>4, <1>5, <2>1, <2>2, Zenon
<1>7. done' \in [Epochs -> [Tries -> SUBSET Node]]
  <2>1. done' = done \/ done' = [done EXCEPT ![e][1] = @ \cup {i}]
    BY <1>2, ZenonT(40) DEF HandleFinvote, InvokeDoneAndShare
  <2>2. done \in [Epochs -> [Tries -> SUBSET Node]] /\ 1 \in Tries
    BY Zenon DEF OInv, RestTypes, Tries
  <2> QED
    BY <2>1, <2>2
<1>8. action' \in [Epochs -> [Node -> {"ACTION_NONE", "ACTION_YES", "ACTION_NO", "ACTION_COMMIT"}]]
  BY <1>1, <1>2, Zenon DEF OInv, RestTypes
<1>9. RestTypes'
  BY <1>1, <1>6, <1>7, <1>8, ZenonT(40) DEF OInv, RestTypes
<1>10. BallotInv' /\ HaltedInv'
  BY <1>1, <1>6, Zenon DEF OInv, BallotInv, HaltedInv
<1>11. OnceInv'
  <2>1. \/ carried' = carried
        \/ \E b \in Node : <<e, b>> \in store[i] /\ carried' = [carried EXCEPT ![e][i] = b]
    <3>1. carried' = carried \/ AdvanceNextRound(i, e, finvote[e][last])
      BY <1>2, Zenon DEF HandleFinvote
    <3>2. <<e, finvote[e][last]>> \in store[i] => finvote[e][last] \in Node
      BY DEF IInv, Types
    <3> QED
      BY <3>1, <3>2, Zenon DEF AdvanceNextRound
  <2>2. carried \in [Epochs -> [Node -> Node \cup {NONE}]]
    BY Zenon DEF IInv, Types
  <2>3. CASE carried' = carried
    BY <1>1, <2>3, Zenon DEF OInv, OnceInv
  <2>4. ASSUME NEW b \in Node, <<e, b>> \in store[i], carried' = [carried EXCEPT ![e][i] = b]
        PROVE  OnceInv'
    <3>1. \A d \in Epochs, p \in Node :
            carried'[d][p] = IF d = e /\ p = i THEN b ELSE carried[d][p]
      BY <2>2, <2>4, Zenon
    <3>2. Reference[e][b] # NONE
      BY <2>4, ZenonT(40) DEF OInv, OnceInv
    <3>3. ASSUME NEW d \in Epochs, NEW p \in Node, carried'[d][p] # NONE
          PROVE  Reference[d][carried'[d][p]] # NONE
      <4>1. CASE d = e /\ p = i
        BY <3>1, <3>2, <4>1, Zenon
      <4>2. CASE ~ (d = e /\ p = i)
        <5>1. carried'[d][p] = carried[d][p]
          BY <3>1, <4>2, Zenon
        <5> QED
          BY <3>3, <5>1, Zenon DEF OInv, OnceInv
      <4> QED
        BY <4>1, <4>2, Zenon
    <3> QED
      BY <1>1, <3>3, Zenon DEF OInv, OnceInv
  <2> QED
    BY <2>1, <2>3, <2>4, Zenon
<1>12. WaitInv' /\ LogInv'
  BY <1>1, <1>6, BallotFrame, Zenon
<1> QED
  BY <1>9, <1>10, <1>11, <1>12, Zenon DEF OInv

\* A late block is the one of a leader that a Halt named.
LEMMA LateOStep ==
  ASSUME IInv, OInv, NEW i \in Node, NEW e \in Epochs, NEW p \in Node, HandleLate(i, e, p)
  PROVE  OInv'
<1>1. /\ e \in HaltFlags[i]
      /\ leader[e][i] = p
      /\ Reference[e][p] # NONE
      /\ Commit(i, e, p)
      /\ UNCHANGED <<Epoch, Reference, carried, store, done, ready, elected, leader, prevote,
                     finvote, action, halts, HaltFlags>>
  BY Zenon DEF HandleLate, spbVars, electVars, voteVars
<1>2. e < Epoch[i] /\ \E h \in halts : h.epoch = e /\ p = h.leader
  BY <1>1, Zenon DEF OInv, HaltedInv
<1>3. p = LeaderOf[e] \/ ~ LeaderNamed(e)
  BY <1>2, Zenon DEF LeaderNamed
<1>4. Grows
  BY <1>1, SameEpochs, ZenonT(40)
<1>5. /\ log' \in [Node -> Seq(Entry)]
      /\ Blocks' \in [Node -> [Epochs -> Node \cup {NONE}]]
      /\ WaitInv' /\ LogInv'
  BY <1>1, <1>2, <1>3, <1>4, CommitStep, ZenonT(40)
<1>6. RestTypes'
  BY <1>1, <1>5, ZenonT(40) DEF OInv, RestTypes
<1>7. BallotInv'
  BY <1>1, ZenonT(40) DEF OInv, BallotInv
<1>8. HaltedInv'
  BY <1>1, ZenonT(40) DEF OInv, HaltedInv
<1>9. OnceInv'
  BY <1>1, Zenon DEF OInv, OnceInv
<1> QED
  BY <1>5, <1>6, <1>7, <1>8, <1>9, Zenon DEF OInv

LEMMA HaltOStep ==
  ASSUME IInv, OInv, NEW i \in Node, NEW h \in halts, HandleHalt(i, h)
  PROVE  OInv'
<1> DEFINE e == h.epoch
<1>1. /\ Passes(i, e)
      /\ leader' = [leader EXCEPT ![e][i] = h.leader]
      /\ HaltFlags' = [HaltFlags EXCEPT ![i] = @ \cup {e}]
      /\ Epoch' = [Epoch EXCEPT ![i] = e + 1]
      /\ \/ Reference' = Reference
         \/ e < MaxEpoch /\ Reference' = [Reference EXCEPT ![e + 1][i] = FinishFlags[e][i]]
      /\ UNCHANGED <<carried, store, done, ready, elected, prevote, finvote, action, halts>>
  BY Zenon DEF HandleHalt, SetLeader, AdvanceNextEpoch, GetReference, voteVars
<1>2. e \in Epochs /\ h.leader \in Node /\ h.block \in Node /\ h.block = LeaderOf[e]
  BY Zenon DEF OInv, RestTypes, BallotInv, Halt
<1> HIDE DEF e
<1>3. /\ MaxEpoch \in Nat
      /\ Epoch \in [Node -> 0 .. MaxEpoch + 1]
      /\ Epoch[i] \in Nat
      /\ e \in Nat /\ e <= MaxEpoch
      /\ Epoch[i] <= e
  BY <1>1, <1>2, MercuryAssumption DEF OInv, RestTypes, Epochs, Passes
<1>4. /\ Epoch' \in [Node -> 0 .. MaxEpoch + 1]
      /\ \A j \in Node : Epoch'[j] = IF j = i THEN e + 1 ELSE Epoch[j]
  BY <1>1, <1>3
<1>5. \A j \in Node : Epoch[j] \in Nat /\ Epoch'[j] \in Nat /\ Epoch[j] <= Epoch'[j]
  BY <1>3, <1>4
<1>6. \A d \in Epochs, p \in Node :
        \/ Reference'[d][p] = Reference[d][p]
        \/ d = e + 1 /\ p = i /\ e < MaxEpoch
  <2>1. Reference \in [Epochs -> [Node -> (SUBSET Node) \cup {NONE}]]
    BY Zenon DEF IInv, Types
  <2> QED
    BY <1>1, <2>1
<1>7. \A d \in Epochs, p \in Node : Reference[d][p] # NONE => Reference'[d][p] = Reference[d][p]
  <2> SUFFICES ASSUME NEW d \in Epochs, NEW p \in Node, Reference[d][p] # NONE
               PROVE  ~ (d = e + 1 /\ p = i)
    BY <1>6, Zenon
  <2>1. d <= Epoch[p]
    BY Zenon DEF OInv, OnceInv
  <2> QED
    BY <1>3, <2>1 DEF Epochs
<1>8. Grows
  BY <1>1, <1>4, <1>5, <1>7, Zenon DEF Grows
<1>9. /\ log' \in [Node -> Seq(Entry)]
      /\ Blocks' \in [Node -> [Epochs -> Node \cup {NONE}]]
      /\ WaitInv' /\ LogInv'
  <2>1. CASE UNCHANGED logVars
    <3>1. log' = log /\ Blocks' = Blocks
      BY <2>1, Zenon DEF logVars
    <3> QED
      BY <1>8, <2>1, <3>1, LogFrame, Zenon DEF OInv, RestTypes
  <2>2. CASE <<e, h.block>> \in store[i] /\ Commit(i, e, h.block)
    <3>1. Reference[e][h.block] # NONE
      BY <1>2, <2>2, Zenon DEF OInv, OnceInv
    <3>2. e < Epoch'[i]
      BY <1>3, <1>4
    <3> QED
      BY <1>1, <1>2, <1>8, <2>2, <3>1, <3>2, CommitStep, ZenonT(40)
  <2> QED
    BY <2>1, <2>2, ZenonT(40) DEF HandleHalt, e
<1>10. /\ leader' \in [Epochs -> [Node -> Node \cup {NONE}]]
       /\ \A d \in Epochs, j \in Node :
            leader'[d][j] = IF d = e /\ j = i THEN h.leader ELSE leader[d][j]
  <2>1. leader \in [Epochs -> [Node -> Node \cup {NONE}]] /\ h.leader \in Node \cup {NONE}
    BY <1>2, Zenon DEF OInv, RestTypes
  <2> QED
    BY <1>1, <1>2, <2>1, EntryUpdate
<1>11. /\ HaltFlags' \in [Node -> SUBSET Epochs]
       /\ \A j \in Node : \A d \in HaltFlags'[j] : d \in HaltFlags[j] \/ (j = i /\ d = e)
  <2>1. HaltFlags \in [Node -> SUBSET Epochs]
    BY Zenon DEF OInv, RestTypes
  <2> QED
    BY <1>1, <1>2, <2>1, Zenon
<1>12. RestTypes'
  BY <1>1, <1>4, <1>9, <1>10, <1>11, Zenon DEF OInv, RestTypes
<1>13. BallotInv'
  BY <1>1, Zenon DEF OInv, BallotInv
<1>14. HaltedInv'
  <2> SUFFICES ASSUME NEW j \in Node, NEW d \in HaltFlags'[j]
               PROVE  d < Epoch'[j] /\ \E g \in halts : g.epoch = d /\ leader'[d][j] = g.leader
    BY <1>1, ZenonT(40) DEF HaltedInv
  <2>1. CASE j = i /\ d = e
    <3>1. leader'[d][j] = h.leader /\ d < Epoch'[j]
      BY <1>2, <1>3, <1>4, <1>10, <2>1
    <3>2. h \in halts /\ h.epoch = d
      BY <2>1, Zenon DEF e
    <3> QED
      BY <3>1, <3>2, Zenon
  <2>2. CASE ~ (j = i /\ d = e)
    <3>1. d \in HaltFlags[j] /\ d \in Epochs
      BY <1>11, <2>2, Zenon
    <3>2. d < Epoch[j] /\ \E g \in halts : g.epoch = d /\ leader[d][j] = g.leader
      BY <3>1, Zenon DEF OInv, HaltedInv
    <3>3. d < Epoch'[j]
      BY <1>5, <3>1, <3>2 DEF Epochs
    <3> QED
      BY <1>10, <2>2, <3>1, <3>2, <3>3, Zenon
  <2> QED
    BY <2>1, <2>2, Zenon
<1>15. OnceInv'
  <2>1. ASSUME NEW d \in Epochs, NEW p \in Node, Reference'[d][p] # NONE
        PROVE  d <= Epoch'[p]
    <3>1. CASE Reference'[d][p] = Reference[d][p]
      <4>1. d <= Epoch[p]
        BY <2>1, <3>1, Zenon DEF OInv, OnceInv
      <4> QED
        BY <1>5, <4>1 DEF Epochs
    <3>2. CASE d = e + 1 /\ p = i
      BY <1>3, <1>4, <3>2
    <3> QED
      BY <1>6, <3>1, <3>2, Zenon
  <2>2. \A j \in Node, d \in Epochs, p \in Node : <<d, p>> \in store[j] => Reference'[d][p] # NONE
    BY <1>7 DEF OInv, OnceInv
  <2>3. ASSUME NEW d \in Epochs, NEW p \in Node, carried[d][p] # NONE
        PROVE  Reference'[d][carried[d][p]] # NONE
    <3>1. carried[d][p] \in Node
      BY <2>3 DEF IInv, Types
    <3> QED
      BY <1>7, <2>3, <3>1 DEF OInv, OnceInv
  <2> QED
    BY <1>1, <2>1, <2>2, <2>3, Zenon DEF OnceInv
<1> QED
  BY <1>9, <1>12, <1>13, <1>14, <1>15, Zenon DEF OInv

LEMMA NextOInv == IInv /\ OInv /\ [Next]_vars => OInv'
<1> SUFFICES ASSUME IInv, OInv, [Next]_vars PROVE OInv'
  BY Zenon
<1>0. /\ done \in [Epochs -> [Tries -> SUBSET Node]]
      /\ ready \in [Epochs -> [Tries -> SUBSET Node]]
  BY Zenon DEF OInv, RestTypes
<1>1. ASSUME NEW i \in Node, SpbStep(i) PROVE OInv'
  <2>1. PICK e \in Epochs :
          \/ SpbFinish(i, e)
          \/ \E p \in Node :
               \/ HandleSpbProposal(i, e, p)
               \/ HandleLate(i, e, p)
               \/ HandleCarried(i, e, p)
               \/ SpbVote(i, e, p)
               \/ SpbLock(i, e, p)
    BY <1>1, Zenon DEF SpbStep
  <2>2. CASE SpbFinish(i, e) \/ \E p \in Node : SpbVote(i, e, p) \/ SpbLock(i, e, p)
    <3>1. UNCHANGED <<Epoch, Reference, carried, store, electVars, voteVars, halts, HaltFlags,
                      logVars>>
      BY <2>2, Zenon DEF SpbFinish, SpbVote, SpbLock
    <3> QED
      BY <1>0, <3>1, QuietStep, Zenon DEF electVars, voteVars, logVars
  <2>3. ASSUME NEW p \in Node, HandleSpbProposal(i, e, p) PROVE OInv'
    BY <2>3, StoreOStep, Zenon DEF HandleSpbProposal, electVars
  <2>4. ASSUME NEW p \in Node, HandleCarried(i, e, p) PROVE OInv'
    <3>1. carried[e][p] \in Node
      BY <2>4 DEF HandleCarried, IInv, Types
    <3>2. Reference[e][carried[e][p]] # NONE
      BY <2>4, Zenon DEF HandleCarried, OInv, OnceInv
    <3> QED
      BY <2>4, <3>1, <3>2, StoreOStep, Zenon DEF HandleCarried, electVars
  <2> QED
    BY <2>1, <2>2, <2>3, <2>4, LateOStep, Zenon
<1>2. ASSUME NEW i \in Node, ElectStep(i) PROVE OInv'
  <2>1. PICK e \in Epochs :
          \/ \E p \in Node : HandleFinish(i, e, p)
          \/ \E t \in Tries : HandleDoneLow(i, e, t) \/ HandleDoneHigh(i, e, t)
          \/ HandleElectShare(i, e)
    BY <1>2, Zenon DEF ElectStep
  <2>2. ASSUME NEW p \in Node, HandleFinish(i, e, p) PROVE OInv'
    <3>1. UNCHANGED <<Epoch, spbVars, ready, elected, leader, voteVars, halts, HaltFlags, logVars>>
      BY <2>2, Zenon DEF HandleFinish
    <3>2. done' = done \/ done' = [done EXCEPT ![e][0] = @ \cup {i}]
      BY <2>2, Zenon DEF HandleFinish, InvokeDoneAndShare
    <3>3. done' \in [Epochs -> [Tries -> SUBSET Node]]
      BY <1>0, <3>2 DEF Tries
    <3> QED
      BY <1>0, <3>1, <3>3, QuietStep, Zenon DEF spbVars, voteVars, logVars
  <2>3. ASSUME NEW t \in Tries, HandleDoneLow(i, e, t) \/ HandleDoneHigh(i, e, t) PROVE OInv'
    <3>1. UNCHANGED <<Epoch, spbVars, elected, leader, voteVars, halts, HaltFlags, logVars>>
      BY <2>3, Zenon DEF HandleDoneLow, HandleDoneHigh
    <3>2. /\ done' = done \/ done' = [done EXCEPT ![e][t] = @ \cup {i}]
          /\ ready' = ready \/ ready' = [ready EXCEPT ![e][t] = @ \cup {i}]
      BY <2>3, Zenon DEF HandleDoneLow, HandleDoneHigh, InvokeDoneAndShare
    <3>3. [done EXCEPT ![e][t] = @ \cup {i}] \in [Epochs -> [Tries -> SUBSET Node]]
      BY <1>0, Zenon
    <3>4. [ready EXCEPT ![e][t] = @ \cup {i}] \in [Epochs -> [Tries -> SUBSET Node]]
      BY <1>0, Zenon
    <3>5. /\ done' \in [Epochs -> [Tries -> SUBSET Node]]
          /\ ready' \in [Epochs -> [Tries -> SUBSET Node]]
      BY <1>0, <3>2, <3>3, <3>4, ZenonT(40)
    <3> QED
      BY <3>1, <3>5, QuietStep, Zenon DEF spbVars, voteVars, logVars
  <2> QED
    BY <2>1, <2>2, <2>3, ElectShareOStep, Zenon
<1>3. ASSUME NEW i \in Node, VoteStep(i) PROVE OInv'
  BY <1>3, PrevoteOStep, FinvoteOStep, Zenon DEF VoteStep
<1>4. ASSUME NEW i \in Node, HaltStep(i) PROVE OInv'
  BY <1>4, HaltOStep, Zenon DEF HaltStep
<1>5. CASE UNCHANGED vars
  BY <1>0, <1>5, QuietStep, Zenon DEF vars, spbVars, electVars, voteVars, logVars
<1> QED
  BY <1>1, <1>2, <1>3, <1>4, <1>5, MercuryAssumption, Zenon DEF Next

LEMMA Invariance == Spec => [](IInv /\ OInv)
<1>1. OInv => HaltsInv
  BY Zenon DEF OInv, RestTypes, Halt, HaltsInv
<1> QED
  BY <1>1, InitIInv, NextIInv, InitOInv, NextOInv, PTL DEF Spec

\* The maps of every core keep their shape, for every committee; a Halt names a
\* block, never the zero digest of a negative FinVote (handleFinvote).
THEOREM MercuryTypeOK == Spec => []TypeOK
<1>1. IInv /\ OInv => TypeOK
  <2> SUFFICES ASSUME IInv, OInv PROVE TypeOK
    BY Zenon
  <2>1. \A i \in Node : \A k \in DOMAIN log[i] : log[i][k] \in Entry
    BY DEF OInv, RestTypes
  <2> QED
    BY <2>1, Zenon DEF IInv, Types, OInv, RestTypes, TypeOK
<1> QED
  BY <1>1, Invariance, PTL

\* The logs of two nodes, at an entry both have.
LEMMA TwoEntries ==
  ASSUME OInv, NEW i \in Node, NEW k \in DOMAIN log[i]
  PROVE  /\ k \in 1 .. Len(log[i])
         /\ k \in Nat
         /\ k - 1 \in Epochs
         /\ log[i][k].block = LeaderOf[k - 1] \/ ~ LeaderNamed(k - 1)
         /\ log[i][k].refs = Refs(i, log[i], k)
<1>1. /\ k \in 1 .. Len(log[i])
      /\ \A l \in 1 .. Len(log[i]) : l \in Nat /\ l - 1 \in Epochs
  BY LogShape, Zenon
<1>2. EntryOut(i, k)
  BY <1>1, Zenon DEF OInv, LogInv
<1> QED
  BY <1>1, <1>2, Zenon DEF EntryOut

\* Two nodes output the same block of an epoch, also if it comes after the Halt,
\* except where a Halt on FinVotes named the wrong leader; for every committee.
THEOREM MercuryAgreement == Spec => []Agreement
<1>1. OInv => Agreement
  <2> SUFFICES ASSUME OInv, NEW i \in Node, NEW j \in Node,
                      NEW k \in DOMAIN log[i] \cap DOMAIN log[j],
                      log[i][k].block # log[j][k].block
               PROVE  \E h \in halts : h.epoch = k - 1 /\ h.leader # LeaderOf[k - 1]
    BY Zenon DEF Agreement
  <2>1. ~ LeaderNamed(k - 1)
    BY TwoEntries, Zenon
  <2> QED
    BY <2>1, Zenon DEF LeaderNamed
<1> QED
  BY <1>1, Invariance, PTL

\* No block is output twice in a row (isCommitFlag), for every committee.
THEOREM MercuryOutputOnce == Spec => []OutputOnce
<1>1. OInv => OutputOnce
  BY TwoEntries, Zenon DEF OutputOnce, Refs
<1> QED
  BY <1>1, Invariance, PTL

\* Nodes that agree on the block of an epoch output the same referenced blocks
\* with it, except those one of them never stored (Commit), for every committee.
THEOREM MercuryLogsAgree == Spec => []LogsAgree
<1>1. IInv /\ OInv => LogsAgree
  <2> SUFFICES ASSUME IInv, OInv, NEW i \in Node, NEW j \in Node,
                      NEW k \in DOMAIN log[i] \cap DOMAIN log[j],
                      log[i][k].block = log[j][k].block,
                      NEW p \in log[i][k].refs \ log[j][k].refs
               PROVE  <<k - 2, p>> \notin store[j] \/ log[j][k - 1].block = p
    BY Zenon DEF LogsAgree
  <2>1. p \in Refs(i, log[i], k) /\ p \notin Refs(j, log[j], k)
    BY TwoEntries, Zenon
  <2> QED
    BY <2>1, Zenon DEF Refs
<1> QED
  BY <1>1, Invariance, PTL
=============================================================================
