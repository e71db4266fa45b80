------------------------------ MODULE ABAProofs ------------------------------
(***************************************************************************)
(* For every committee in which two quorums meet, no node of an in-round   *)
(* sets yesFlag alone while another sets noFlag alone.  For every          *)
(* committee of 3f+1 nodes, all ABAHalts carry one flag, f+1 nodes put it  *)
(* in, and the instances implement one agreement on such a flag.           *)
(***************************************************************************)
EXTENDS ABA, CommitteeProofs

\* A flag that stands alone was in the ABAMux of 2f+1 nodes.
FlagIsBacked ==
  \A r \in InRound, i \in Node, f \in Flag :
    flags[r][i] = {f} => \E Q \in Quorums : \A j \in Q : mux[r][j] = f

\* What a node counts was sent.
SeenWasSent ==
  \A r \in InRound, i \in Node : \A j \in muxSeen[r][i] : mux[r][j] # Void

IInv == TypeOK /\ FlagIsBacked /\ SeenWasSent

LEMMA InitIInv == Init => IInv
<1> SUFFICES ASSUME Init PROVE IInv
  OBVIOUS
<1>1. TypeOK
  BY DEF Init, TypeOK, Flag
<1>2. FlagIsBacked
  BY DEF Init, FlagIsBacked
<1>3. SeenWasSent
  BY DEF Init, SeenWasSent
<1> QED
  BY <1>1, <1>2, <1>3 DEF IInv

\* Handlers that leave the ABAMux messages and the flags alone.
LEMMA FlagsFrame ==
  ASSUME IInv, UNCHANGED <<mux, flags, muxSeen>>
  PROVE  FlagIsBacked' /\ SeenWasSent'
BY DEF IInv, FlagIsBacked, SeenWasSent

LEMMA JoinValStep ==
  ASSUME IInv, NEW i \in Node, NEW r \in InRound, NEW f \in Flag, JoinVal(i, r, f)
  PROVE  IInv'
<1>1. invoked' \in [InRound -> [Flag -> SUBSET Node]]
  BY DEF IInv, TypeOK, JoinVal
<1>2. TypeOK'
  BY <1>1 DEF IInv, TypeOK, JoinVal
<1> QED
  BY <1>2, FlagsFrame DEF IInv, JoinVal

\* An ABAMux is sent once, so the quorums of ABAMux messages only grow.
LEMMA SendMuxStep ==
  ASSUME IInv, NEW i \in Node, NEW r \in InRound, NEW f \in Flag, SendMux(i, r, f)
  PROVE  IInv'
<1>1. valHigh' \in [InRound -> [Node -> SUBSET Flag]]
  BY DEF IInv, TypeOK, SendMux
<1>2. /\ mux' \in [InRound -> [Node -> Flag \cup {Void}]]
      /\ \A q \in InRound, k \in Node : mux[q][k] # Void => mux'[q][k] = mux[q][k]
  <2>1. CASE mux[r][i] = Void
    BY <2>1, EntryUpdate DEF IInv, TypeOK, SendMux
  <2>2. CASE mux[r][i] # Void
    BY <2>2 DEF IInv, TypeOK, SendMux
  <2> QED
    BY <2>1, <2>2
<1>3. TypeOK'
  BY <1>1, <1>2 DEF IInv, TypeOK, SendMux
<1>4. FlagIsBacked'
  <2> SUFFICES ASSUME NEW q \in InRound, NEW k \in Node, NEW g \in Flag, flags'[q][k] = {g}
               PROVE  \E Q \in Quorums : \A j \in Q : mux'[q][j] = g
    BY DEF FlagIsBacked
  <2>1. PICK Q \in Quorums : \A j \in Q : mux[q][j] = g
    BY DEF IInv, FlagIsBacked, SendMux
  <2>2. Q \subseteq Node /\ g # Void
    BY DEF Quorums, Flag, Void
  <2> QED
    BY <1>2, <2>1, <2>2
<1>5. SeenWasSent'
  BY <1>2 DEF IInv, TypeOK, SeenWasSent, SendMux
<1> QED
  BY <1>3, <1>4, <1>5 DEF IInv

\* The flags ProcessABAMux sets are flags of ABAMux messages; one that is set
\* alone is that of 2f+1 of them.
LEMMA MuxFlagsBacked ==
  ASSUME TypeOK, NEW i \in Node, NEW r \in InRound, NEW M \in SUBSET Node,
         \A j \in M : mux[r][j] # Void
  PROVE  /\ MuxFlags(i, r, M) \subseteq Flag
         /\ \A f \in Flag : MuxFlags(i, r, M) = {f} =>
              \E Q \in Quorums : \A j \in Q : mux[r][j] = f
<1> DEFINE seen == {mux[r][j] : j \in M}
           strong == {f \in valHigh[r][i] :
                        Cardinality({j \in M : mux[r][j] = f}) >= HightThreshold}
<1>1. CASE Cardinality(M) < HightThreshold
  <2>1. MuxFlags(i, r, M) = {}
    BY <1>1 DEF MuxFlags
  <2> QED
    BY <2>1
<1>2. CASE ~ (Cardinality(M) < HightThreshold) /\ valHigh[r][i] = Flag
  <2>1. MuxFlags(i, r, M) = seen
    BY <1>2 DEF MuxFlags
  <2>2. seen \subseteq Flag
    BY DEF TypeOK
  <2>3. M \in Quorums
    BY <1>2, ThresholdType, NodeSets DEF Quorums
  <2>4. ASSUME NEW f \in Flag, seen = {f} PROVE \A j \in M : mux[r][j] = f
    BY <2>4
  <2> QED
    BY <2>1, <2>2, <2>3, <2>4
<1>3. CASE ~ (Cardinality(M) < HightThreshold) /\ valHigh[r][i] # Flag
  <2>1. MuxFlags(i, r, M) = strong
    BY <1>3 DEF MuxFlags
  <2>2. strong \subseteq Flag
    BY DEF TypeOK
  <2>3. ASSUME NEW f \in Flag, f \in strong
        PROVE  \E Q \in Quorums : \A j \in Q : mux[r][j] = f
    <3>1. {j \in M : mux[r][j] = f} \in Quorums
      BY <2>3 DEF Quorums
    <3> QED
      BY <3>1
  <2> QED
    BY <2>1, <2>2, <2>3, Zenon
<1> QED
  BY <1>1, <1>2, <1>3

LEMMA ProcessABAMuxStep ==
  ASSUME IInv, NEW i \in Node, NEW r \in InRound, NEW new \in SUBSET Node,
         ProcessABAMux(i, r, new)
  PROVE  IInv'
<1> DEFINE M == muxSeen[r][i] \cup new
           F == MuxFlags(i, r, M)
           seen == IF F = {} THEN M ELSE {}
<1>1. M \in SUBSET Node /\ \A j \in M : mux[r][j] # Void
  BY DEF IInv, TypeOK, SeenWasSent, ProcessABAMux
<1>2. F \subseteq Flag /\ \A f \in Flag : F = {f} => \E Q \in Quorums : \A j \in Q : mux[r][j] = f
  BY <1>1, MuxFlagsBacked DEF IInv
<1>3. /\ flags' = [flags EXCEPT ![r][i] = F]
      /\ muxSeen' = [muxSeen EXCEPT ![r][i] = seen]
      /\ UNCHANGED <<input, invoked, adopted, valHigh, mux, coined, halts, decided>>
  BY Zenon DEF ProcessABAMux
<1> HIDE DEF F, M
<1>4. /\ flags' \in [InRound -> [Node -> SUBSET Flag]]
      /\ \A q \in InRound, k \in Node :
           flags'[q][k] = IF q = r /\ k = i THEN F ELSE flags[q][k]
  BY <1>2, <1>3, EntryUpdate DEF IInv, TypeOK
<1>5. /\ muxSeen' \in [InRound -> [Node -> SUBSET Node]]
      /\ \A q \in InRound, k \in Node :
           muxSeen'[q][k] = IF q = r /\ k = i THEN seen ELSE muxSeen[q][k]
  <2>1. seen \in SUBSET Node
    BY <1>1
  <2> HIDE DEF seen
  <2> QED
    BY <1>3, <2>1, EntryUpdate DEF IInv, TypeOK
<1>6. TypeOK'
  BY <1>3, <1>4, <1>5 DEF IInv, TypeOK
<1>7. FlagIsBacked'
  BY <1>2, <1>3, <1>4 DEF IInv, FlagIsBacked
<1>8. SeenWasSent'
  BY <1>1, <1>3, <1>5 DEF IInv, SeenWasSent
<1> QED
  BY <1>6, <1>7, <1>8 DEF IInv

LEMMA ProcessCoinStep ==
  ASSUME IInv, NEW i \in Node, NEW r \in InRound, ProcessCoin(i, r)
  PROVE  IInv'
<1>1. coined' \in [InRound -> SUBSET Node]
  BY DEF IInv, TypeOK, ProcessCoin
<1>2. halts' \subseteq ABAHalt
  BY ABAAssumption DEF IInv, TypeOK, ProcessCoin, ABAHalt
<1>3. adopted' \in [InRound -> [Node -> Flag \cup {Void}]]
  <2>1. CASE adopted' = adopted
    BY <2>1 DEF IInv, TypeOK
  <2>2. CASE /\ r < MaxIn
             /\ flags[r][i] # {Coin[r]}
             /\ adopted' = [adopted EXCEPT ![r + 1][i] = NextVal(r, flags[r][i])]
    <3>1. r + 1 \in InRound
      BY <2>2, ABAAssumption DEF InRound
    <3>2. flags[r][i] \in SUBSET Flag /\ Coin[r] \in Flag
      BY ABAAssumption DEF IInv, TypeOK
    <3>3. flags[r][i] \in {{}, Flag} \/ \E f \in Flag : flags[r][i] = {f}
      BY <3>2 DEF Flag
    <3>4. NextVal(r, flags[r][i]) \in Flag
      BY <3>2, <3>3 DEF NextVal
    <3> QED
      BY <2>2, <3>1, <3>4, EntryUpdate DEF IInv, TypeOK
  <2> QED
    BY <2>1, <2>2 DEF ProcessCoin
<1>4. TypeOK'
  BY <1>1, <1>2, <1>3 DEF IInv, TypeOK, ProcessCoin
<1> QED
  BY <1>4, FlagsFrame DEF IInv, ProcessCoin

LEMMA ProcessHaltStep ==
  ASSUME IInv, NEW i \in Node, NEW h \in halts, ProcessHalt(i, h)
  PROVE  IInv'
<1>1. h.flag \in Flag
  BY DEF IInv, TypeOK, ABAHalt
<1>2. TypeOK'
  BY <1>1 DEF IInv, TypeOK, ProcessHalt
<1> QED
  BY <1>2, FlagsFrame DEF IInv, ProcessHalt

LEMMA NextIInv == IInv /\ [Next]_vars => IInv'
<1> SUFFICES ASSUME IInv, [Next]_vars PROVE IInv'
  OBVIOUS
<1>1. ASSUME NEW i \in Node, ValStep(i) PROVE IInv'
  BY <1>1, JoinValStep, SendMuxStep DEF ValStep
<1>2. ASSUME NEW i \in Node, MuxStep(i) PROVE IInv'
  BY <1>2, ProcessABAMuxStep DEF MuxStep
<1>3. ASSUME NEW i \in Node, CoinStep(i) PROVE IInv'
  BY <1>3, ProcessCoinStep DEF CoinStep
<1>4. ASSUME NEW i \in Node, HaltStep(i) PROVE IInv'
  BY <1>4, ProcessHaltStep DEF HaltStep
<1>5. CASE UNCHANGED vars
  <2>1. TypeOK'
    BY <1>5 DEF vars, IInv, TypeOK
  <2> QED
    BY <1>5, <2>1, FlagsFrame DEF vars, IInv
<1> QED
  BY <1>1, <1>2, <1>3, <1>4, <1>5, ABAAssumption DEF Next

LEMMA ABAInvariant == Spec => []IInv
<1> QED
  BY InitIInv, NextIInv, PTL DEF Spec

\* Every variable of the agreement keeps its type; NextVal and the flags that
\* ProcessABAMux sets are flags.
THEOREM ABATypeOK == Spec => []TypeOK
<1>1. IInv => TypeOK
  BY DEF IInv
<1> QED
  BY <1>1, ABAInvariant, PTL

\* Where two quorums meet, ProcessABAMux never sets yesFlag alone at one node
\* and noFlag alone at another in the same in-round.
THEOREM ABAFlagsAgree ==
  ASSUME 2 * HightThreshold > Size
  PROVE  Spec => []FlagsAgree
<1>1. IInv => FlagsAgree
  <2> SUFFICES ASSUME IInv, NEW r \in InRound, NEW i \in Node, NEW j \in Node,
                      flags[r][i] = {"YES"}, flags[r][j] = {"NO"}
               PROVE  FALSE
    BY DEF FlagsAgree
  <2>1. PICK P \in Quorums : \A k \in P : mux[r][k] = "YES"
    BY DEF IInv, FlagIsBacked, Flag
  <2>2. PICK Q \in Quorums : \A k \in Q : mux[r][k] = "NO"
    BY DEF IInv, FlagIsBacked, Flag
  <2>3. P \cap Q # {}
    BY QuorumsMeet DEF Quorums
  <2>4. \A k \in P \cap Q : "YES" = "NO"
    BY <2>1, <2>2
  <2> QED
    BY <2>3, <2>4
<1> QED
  BY <1>1, ABAInvariant, PTL

-----------------------------------------------------------------------------
(* Agreement and validity.  A node that gets the coin before its ABAMuxes  *)
(* takes the coin to the next in-round, whatever the others have settled   *)
(* on.  In a committee of 3f+1 at most f nodes do: not enough to make      *)
(* anybody join in.                                                        *)

Inputs(f) == {i \in Node : input[i] = f}

Adopters(r, f) == {i \in Node : adopted[r][i] = f}

\* What is behind a flag that the nodes take up in in-round r: f+1 inputs, and
\* in every in-round before the coin or a flag that stood alone.
Grounded(r, f) ==
  /\ Cardinality(Inputs(f)) >= LowThreshold
  /\ \A t \in InRound : t < r => Coin[t] = f \/ \E k \in Node : flags[t][k] = {f}

\* f+1 nodes that adopt a flag, or one that joins in, have grounds for it.
ValInv ==
  \A r \in InRound, f \in Flag :
    /\ invoked[r][f] # {} => Grounded(r, f) \/ (r = 0 /\ invoked[r][f] \subseteq Inputs(f))
    /\ Cardinality(Adopters(r, f)) >= LowThreshold => Grounded(r, f)
    /\ r = 0 => Adopters(r, f) = {}

\* So have an ABAMux and what is set on it.
MuxInv ==
  \A r \in InRound, i \in Node, f \in Flag :
    /\ f \in valHigh[r][i] => Grounded(r, f)
    /\ mux[r][i] = f => Grounded(r, f)
    /\ f \in flags[r][i] => Grounded(r, f)

\* The 2f+1 nodes whose shares made the first coin had their flags set, and
\* adopt nothing else.
CoinInv ==
  \A r \in InRound : coined[r] # {} =>
    \E C \in Quorums : \A k \in C :
      /\ flags[r][k] # {}
      /\ r < MaxIn => adopted[r + 1][k] \in flags[r][k] \cup {Void}

\* What is adopted is the coin or stood alone.
AdoptInv ==
  \A r \in InRound, k \in Node : r < MaxIn /\ adopted[r + 1][k] # Void =>
    /\ k \in coined[r]
    /\ adopted[r + 1][k] = Coin[r] \/ flags[r][k] = {adopted[r + 1][k]}

\* What is decided is the coin and stood alone.
HaltInv ==
  \A h \in halts : /\ Coin[h.round] = h.flag
                   /\ \E k \in Node : flags[h.round][k] = {h.flag}

AInv == IInv /\ ValInv /\ MuxInv /\ CoinInv /\ AdoptInv /\ HaltInv

\* The thresholds of a committee of 3f+1.
LEMMA ThreeFPlusOne ==
  ASSUME NEW n \in Nat, Size = 3 * n + 1
  PROVE  /\ Size - HightThreshold < LowThreshold
         /\ 2 * HightThreshold > Size
BY DEF HightThreshold, LowThreshold

LEMMA LowIsLower == LowThreshold <= HightThreshold
BY ThresholdType DEF HightThreshold, LowThreshold

LEMMA InitAInv == Init => AInv
<1> SUFFICES ASSUME Init PROVE AInv
  OBVIOUS
<1>1. \A r \in InRound, f \in Flag : Adopters(r, f) = {}
  BY DEF Init, Adopters, Flag, Void
<1>2. \A r \in InRound, f \in Flag : ~ (Cardinality(Adopters(r, f)) >= LowThreshold)
  BY <1>1, FS_EmptySet, ThresholdType
<1>3. \A r \in InRound, f \in Flag :
        invoked[r][f] # {} => r = 0 /\ invoked[r][f] \subseteq Inputs(f)
  BY DEF Init, Inputs
<1>4. ValInv
  BY <1>1, <1>2, <1>3 DEF ValInv
<1>5. MuxInv
  BY DEF Init, MuxInv, Flag, Void
<1>6. CoinInv
  BY DEF Init, CoinInv
<1>7. AdoptInv
  <2>1. \A r \in InRound : r < MaxIn => r + 1 \in InRound
    BY ABAAssumption DEF InRound
  <2> QED
    BY <2>1 DEF Init, AdoptInv
<1>8. HaltInv
  BY DEF Init, HaltInv
<1> QED
  BY <1>4, <1>5, <1>6, <1>7, <1>8, InitIInv DEF AInv

\* Grounds stay: inputs do not change, and set flags are not set again.
LEMMA GroundsStay ==
  ASSUME UNCHANGED input,
         \A q \in InRound, k \in Node : flags[q][k] # {} => flags'[q][k] = flags[q][k],
         NEW r \in InRound, NEW f \in Flag, Grounded(r, f)
  PROVE  Grounded(r, f)'
<1>1. Inputs(f)' = Inputs(f)
  BY DEF Inputs
<1>2. ASSUME NEW t \in InRound, t < r
      PROVE  Coin[t] = f \/ \E k \in Node : flags'[t][k] = {f}
  <2>1. CASE Coin[t] = f
    BY <2>1
  <2>2. CASE \E k \in Node : flags[t][k] = {f}
    <3>1. PICK k \in Node : flags[t][k] = {f}
      BY <2>2
    <3>2. flags'[t][k] = {f}
      BY <3>1
    <3> QED
      BY <3>2
  <2> QED
    BY <1>2, <2>1, <2>2 DEF Grounded
<1> QED
  BY <1>1, <1>2 DEF Grounded

\* f+1 ABAVals, which make a node join in, have grounds.
LEMMA ValsGrounded ==
  ASSUME AInv, NEW r \in InRound, NEW f \in Flag, Vals(r, f) >= LowThreshold
  PROVE  Grounded(r, f)
<1>1. invoked[r][f] \subseteq Node /\ Adopters(r, f) \subseteq Node /\ Inputs(f) \subseteq Node
  BY DEF AInv, IInv, TypeOK, Adopters, Inputs
<1>2. Vals(r, f) = Cardinality(invoked[r][f]) + Cardinality(Adopters(r, f))
  BY DEF Vals, Adopters
<1>3. /\ Cardinality(invoked[r][f]) \in Nat
      /\ Cardinality(Adopters(r, f)) \in Nat
      /\ Cardinality(Inputs(f)) \in Nat
  BY <1>1, NodeSets
<1>4. CASE invoked[r][f] = {}
  <2>1. Cardinality(Adopters(r, f)) >= LowThreshold
    BY <1>2, <1>3, <1>4, FS_EmptySet, ThresholdType
  <2> QED
    BY <2>1 DEF AInv, ValInv
<1>5. CASE r = 0 /\ invoked[r][f] \subseteq Inputs(f)
  <2>1. Adopters(r, f) = {}
    BY <1>5 DEF AInv, ValInv
  <2>2. Cardinality(Adopters(r, f)) = 0
    BY <2>1, FS_EmptySet
  <2>3. Cardinality(invoked[r][f]) <= Cardinality(Inputs(f))
    BY <1>1, <1>5, NodeSets
  <2>4. Cardinality(Inputs(f)) >= LowThreshold
    BY <1>2, <1>3, <2>2, <2>3, ThresholdType
  <2>5. \A t \in InRound : ~ (t < r)
    BY <1>5, ABAAssumption DEF InRound
  <2> QED
    BY <2>4, <2>5 DEF Grounded
<1> QED
  BY <1>4, <1>5 DEF AInv, ValInv

\* Handlers that leave the coin, what was adopted and the flags alone.
LEMMA CoinFrame ==
  ASSUME AInv, UNCHANGED <<input, adopted, flags, coined, halts>>
  PROVE  /\ CoinInv' /\ AdoptInv' /\ HaltInv'
         /\ \A r \in InRound, f \in Flag : Grounded(r, f)' = Grounded(r, f)
         /\ \A r \in InRound, f \in Flag : Adopters(r, f)' = Adopters(r, f)
         /\ \A f \in Flag : Inputs(f)' = Inputs(f)
<1>1. CoinInv'
  BY Zenon DEF AInv, CoinInv
<1>2. AdoptInv'
  BY DEF AInv, AdoptInv
<1>3. HaltInv'
  BY DEF AInv, HaltInv
<1>4. /\ \A f \in Flag : Inputs(f)' = Inputs(f)
      /\ \A r \in InRound, f \in Flag : Adopters(r, f)' = Adopters(r, f)
  BY DEF Inputs, Adopters
<1>5. \A r \in InRound, f \in Flag : Grounded(r, f)' = Grounded(r, f)
  BY <1>4 DEF Grounded
<1> QED
  BY <1>1, <1>2, <1>3, <1>4, <1>5

LEMMA JoinValAgrees ==
  ASSUME AInv, NEW i \in Node, NEW r \in InRound, NEW f \in Flag, JoinVal(i, r, f)
  PROVE  AInv'
<1>1. IInv'
  BY JoinValStep DEF AInv
<1>2. Grounded(r, f)
  BY ValsGrounded DEF JoinVal
<1>3. UNCHANGED <<input, adopted, valHigh, mux, flags, coined, halts>>
  BY DEF JoinVal
<1>4. \A q \in InRound, g \in Flag : <<q, g>> # <<r, f>> => invoked'[q][g] = invoked[q][g]
  BY DEF JoinVal, AInv, IInv, TypeOK
<1>5. ValInv'
  <2> SUFFICES ASSUME NEW q \in InRound, NEW g \in Flag
               PROVE  /\ invoked'[q][g] # {} =>
                           Grounded(q, g)' \/ (q = 0 /\ invoked'[q][g] \subseteq Inputs(g)')
                      /\ Cardinality(Adopters(q, g)') >= LowThreshold => Grounded(q, g)'
                      /\ q = 0 => Adopters(q, g)' = {}
    BY DEF ValInv
  <2>1. /\ Grounded(q, g)' = Grounded(q, g)
        /\ Adopters(q, g)' = Adopters(q, g)
        /\ Inputs(g)' = Inputs(g)
    BY <1>3, CoinFrame
  <2> QED
    BY <1>2, <1>4, <2>1 DEF AInv, ValInv
<1>6. MuxInv'
  BY <1>3, CoinFrame DEF AInv, MuxInv
<1> QED
  BY <1>1, <1>3, <1>5, <1>6, CoinFrame DEF AInv

LEMMA SendMuxAgrees ==
  ASSUME AInv, NEW i \in Node, NEW r \in InRound, NEW f \in Flag, SendMux(i, r, f)
  PROVE  AInv'
<1>1. IInv'
  BY SendMuxStep DEF AInv
<1>2. Grounded(r, f)
  <2>1. Vals(r, f) \in Int
    <3>1. invoked[r][f] \subseteq Node /\ {k \in Node : adopted[r][k] = f} \subseteq Node
      BY DEF AInv, IInv, TypeOK
    <3>2. /\ Cardinality(invoked[r][f]) \in Nat
          /\ Cardinality({k \in Node : adopted[r][k] = f}) \in Nat
      BY <3>1, NodeSets
    <3> QED
      BY <3>2 DEF Vals
  <2>2. Vals(r, f) >= LowThreshold
    BY <2>1, LowIsLower, ThresholdType DEF SendMux
  <2> QED
    BY <2>2, ValsGrounded
<1>3. UNCHANGED <<input, invoked, adopted, flags, coined, halts>>
  BY DEF SendMux
<1>4. \A q \in InRound, k \in Node, g \in Flag :
        /\ g \in valHigh'[q][k] => g \in valHigh[q][k] \/ (q = r /\ g = f)
        /\ mux'[q][k] = g => mux[q][k] = g \/ (q = r /\ g = f)
  <2>1. \A q \in InRound, k \in Node, g \in Flag :
          g \in valHigh'[q][k] => g \in valHigh[q][k] \/ (q = r /\ g = f)
    BY DEF SendMux, AInv, IInv, TypeOK
  <2>2. \A q \in InRound, k \in Node, g \in Flag :
          mux'[q][k] = g => mux[q][k] = g \/ (q = r /\ g = f)
    BY DEF SendMux, AInv, IInv, TypeOK
  <2> QED
    BY <2>1, <2>2
<1>5. ValInv'
  BY <1>3, CoinFrame DEF AInv, ValInv
<1>6. MuxInv'
  <2> SUFFICES ASSUME NEW q \in InRound, NEW k \in Node, NEW g \in Flag
               PROVE  /\ g \in valHigh'[q][k] => Grounded(q, g)'
                      /\ mux'[q][k] = g => Grounded(q, g)'
                      /\ g \in flags'[q][k] => Grounded(q, g)'
    BY DEF MuxInv
  <2>1. Grounded(q, g)' = Grounded(q, g) /\ flags' = flags
    BY <1>3, CoinFrame
  <2> QED
    BY <1>2, <1>4, <2>1 DEF AInv, MuxInv
<1> QED
  BY <1>1, <1>3, <1>5, <1>6, CoinFrame DEF AInv

\* The flags set are flags of ABAMuxes.
LEMMA MuxFlagsSent ==
  ASSUME NEW i \in Node, NEW r \in InRound, NEW M \in SUBSET Node,
         NEW f \in MuxFlags(i, r, M)
  PROVE  \E j \in M : mux[r][j] = f
<1>1. CASE Cardinality(M) < HightThreshold
  BY <1>1 DEF MuxFlags
<1>2. CASE ~ (Cardinality(M) < HightThreshold) /\ valHigh[r][i] = Flag
  BY <1>2 DEF MuxFlags
<1>3. CASE ~ (Cardinality(M) < HightThreshold) /\ valHigh[r][i] # Flag
  <2>1. Cardinality({j \in M : mux[r][j] = f}) >= HightThreshold
    BY <1>3 DEF MuxFlags
  <2>2. {j \in M : mux[r][j] = f} # {}
    BY <2>1, FS_EmptySet, ThresholdType
  <2> QED
    BY <2>2
<1> QED
  BY <1>1, <1>2, <1>3

LEMMA ProcessABAMuxAgrees ==
  ASSUME AInv, NEW i \in Node, NEW r \in InRound, NEW new \in SUBSET Node,
         ProcessABAMux(i, r, new)
  PROVE  AInv'
<1> DEFINE M == muxSeen[r][i] \cup new
           F == MuxFlags(i, r, M)
<1>1. IInv'
  BY ProcessABAMuxStep DEF AInv
<1>2. M \in SUBSET Node
  BY DEF AInv, IInv, TypeOK
<1>3. \A f \in F : \E j \in Node : mux[r][j] = f
  BY <1>2, MuxFlagsSent
<1>4. F \in SUBSET Flag
  <2>1. \A j \in M : mux[r][j] # Void
    BY DEF AInv, IInv, SeenWasSent, ProcessABAMux
  <2> QED
    BY <1>2, <2>1, MuxFlagsBacked DEF AInv, IInv
<1>5. /\ flags' = [flags EXCEPT ![r][i] = F]
      /\ flags[r][i] = {}
      /\ UNCHANGED <<input, invoked, adopted, valHigh, mux, coined, halts>>
  BY DEF ProcessABAMux
<1> HIDE DEF F, M
<1>6. \A q \in InRound, k \in Node :
        flags'[q][k] = IF q = r /\ k = i THEN F ELSE flags[q][k]
  BY <1>4, <1>5, EntryUpdate DEF AInv, IInv, TypeOK
<1>7. \A q \in InRound, k \in Node : flags[q][k] # {} => flags'[q][k] = flags[q][k]
  BY <1>5, <1>6
<1>8. \A q \in InRound, g \in Flag : Grounded(q, g) => Grounded(q, g)'
  BY <1>5, <1>7, GroundsStay
<1>9. ValInv'
  <2>1. \A q \in InRound, g \in Flag : Adopters(q, g)' = Adopters(q, g) /\ Inputs(g)' = Inputs(g)
    BY <1>5 DEF Adopters, Inputs
  <2> QED
    BY <1>5, <1>8, <2>1 DEF AInv, ValInv
<1>10. MuxInv'
  <2> SUFFICES ASSUME NEW q \in InRound, NEW k \in Node, NEW g \in Flag
               PROVE  /\ g \in valHigh'[q][k] => Grounded(q, g)'
                      /\ mux'[q][k] = g => Grounded(q, g)'
                      /\ g \in flags'[q][k] => Grounded(q, g)'
    BY DEF MuxInv
  <2>1. /\ g \in valHigh'[q][k] => Grounded(q, g)'
        /\ mux'[q][k] = g => Grounded(q, g)'
    BY <1>5, <1>8 DEF AInv, MuxInv
  <2>2. ASSUME g \in flags'[q][k] PROVE Grounded(q, g)
    BY <1>3, <1>6, <2>2 DEF AInv, MuxInv
  <2> QED
    BY <1>8, <2>1, <2>2
<1>11. CoinInv'
  <2> SUFFICES ASSUME NEW q \in InRound, coined'[q] # {}
               PROVE  \E C \in Quorums : \A k \in C :
                        /\ flags'[q][k] # {}
                        /\ q < MaxIn => adopted'[q + 1][k] \in flags'[q][k] \cup {Void}
    BY DEF CoinInv
  <2>1. PICK C \in Quorums : \A k \in C :
          /\ flags[q][k] # {}
          /\ q < MaxIn => adopted[q + 1][k] \in flags[q][k] \cup {Void}
    BY <1>5 DEF AInv, CoinInv
  <2>2. \A k \in C : flags'[q][k] = flags[q][k]
    BY <1>7, <2>1 DEF Quorums
  <2> QED
    BY <1>5, <2>1, <2>2
<1>12. AdoptInv'
  <2> SUFFICES ASSUME NEW q \in InRound, NEW k \in Node, q < MaxIn, adopted'[q + 1][k] # Void
               PROVE  /\ k \in coined'[q]
                      /\ \/ adopted'[q + 1][k] = Coin[q]
                         \/ flags'[q][k] = {adopted'[q + 1][k]}
    BY DEF AdoptInv
  <2> QED
    BY <1>5, <1>7 DEF AInv, AdoptInv
<1>13. HaltInv'
  <2> SUFFICES ASSUME NEW h \in halts
               PROVE  /\ Coin[h.round] = h.flag
                      /\ \E k \in Node : flags'[h.round][k] = {h.flag}
    BY <1>5 DEF HaltInv
  <2>1. h.round \in InRound
    BY DEF AInv, IInv, TypeOK, ABAHalt
  <2>2. PICK k \in Node : flags[h.round][k] = {h.flag}
    BY DEF AInv, HaltInv
  <2>3. flags'[h.round][k] = {h.flag}
    BY <1>7, <2>1, <2>2
  <2> QED
    BY <2>3 DEF AInv, HaltInv
<1> QED
  BY <1>1, <1>9, <1>10, <1>11, <1>12, <1>13 DEF AInv

\* What a node takes to the next in-round is one of its flags, if it has any, and
\* the coin or the only one.
LEMMA NextValType ==
  ASSUME NEW r \in InRound, NEW S \in SUBSET Flag
  PROVE  /\ NextVal(r, S) \in Flag
         /\ S # {} => NextVal(r, S) \in S
         /\ NextVal(r, S) = Coin[r] \/ S = {NextVal(r, S)}
<1>1. Coin[r] \in Flag
  BY ABAAssumption, Zenon
<1>2. CASE S \in {{}, Flag}
  BY <1>1, <1>2, Zenon DEF NextVal
<1>3. CASE S \notin {{}, Flag}
  <2>1. PICK f \in Flag : S = {f}
    BY <1>3, Zenon DEF Flag
  <2>2. NextVal(r, S) = CHOOSE g \in Flag : S = {g}
    BY <1>3, Zenon DEF NextVal
  <2>3. NextVal(r, S) \in Flag /\ S = {NextVal(r, S)}
    BY <2>1, <2>2, Zenon
  <2> QED
    BY <2>3, Zenon
<1> QED
  BY <1>2, <1>3, Zenon

\* f+1 nodes that adopt a flag include one of the quorum whose shares made the
\* coin, if at most f nodes are outside it.
LEMMA WeakMeetsQuorum ==
  ASSUME Size - HightThreshold < LowThreshold,
         NEW C \in Quorums, NEW W \in SUBSET Node, Cardinality(W) >= LowThreshold
  PROVE  W \cap C # {}
<1>1. C \in SUBSET Node /\ Cardinality(C) >= HightThreshold
  BY Zenon DEF Quorums
<1>2. Cardinality(C) \in Nat /\ Cardinality(W) \in Nat
  BY <1>1, NodeSets, Zenon
<1>3. Cardinality(C) + Cardinality(W) > Size
  BY <1>1, <1>2, ThresholdType
<1> QED
  BY <1>1, <1>3, CommitteeAssumption, FS_MajoritiesIntersect, Zenon DEF Size

LEMMA ProcessCoinAgrees ==
  ASSUME Size - HightThreshold < LowThreshold,
         AInv, NEW i \in Node, NEW r \in InRound, ProcessCoin(i, r)
  PROVE  AInv'
<1> DEFINE F == flags[r][i]
           v == NextVal(r, F)
<1>1. IInv'
  BY ProcessCoinStep, Zenon DEF AInv
<1>2. /\ i \notin coined[r]
      /\ Cardinality(CoinShares(r)) >= HightThreshold
      /\ coined' = [coined EXCEPT ![r] = @ \cup {i}]
      /\ UNCHANGED <<input, invoked, valHigh, mux, flags>>
  BY Zenon DEF ProcessCoin
<1>3. \A q \in InRound : coined'[q] = IF q = r THEN coined[q] \cup {i} ELSE coined[q]
  BY <1>2, Zenon DEF AInv, IInv, TypeOK
<1>4. F \in SUBSET Flag
  BY DEF AInv, IInv, TypeOK
<1>5. /\ v \in Flag
      /\ F # {} => v \in F
      /\ v = Coin[r] \/ F = {v}
  BY <1>4, NextValType, Zenon
<1>6. \A q \in InRound, k \in Node :
        \/ adopted'[q][k] = adopted[q][k]
        \/ r < MaxIn /\ q = r + 1 /\ k = i /\ adopted'[q][k] = v
  <2>1. CASE adopted' = adopted
    BY <2>1, Zenon
  <2>2. CASE r < MaxIn /\ adopted' = [adopted EXCEPT ![r + 1][i] = v]
    <3>1. r + 1 \in InRound
      BY <2>2, ABAAssumption DEF InRound
    <3> HIDE DEF v
    <3> QED
      BY <1>5, <2>2, <3>1, EntryUpdate DEF AInv, IInv, TypeOK
  <2> QED
    BY <2>1, <2>2, Zenon DEF ProcessCoin
<1>7. /\ \A q \in InRound, g \in Flag : Grounded(q, g)' = Grounded(q, g)
      /\ \A g \in Flag : Inputs(g)' = Inputs(g)
  <2>1. \A g \in Flag : Inputs(g)' = Inputs(g)
    BY <1>2, Zenon DEF Inputs
  <2> QED
    BY <1>2, <2>1, Zenon DEF Grounded
<1>8. \A q \in InRound : q < MaxIn => q + 1 \in InRound /\ (q + 1 = r + 1 => q = r)
  BY ABAAssumption DEF InRound
<1> HIDE DEF F, v
<1>9. CoinInv'
  <2> SUFFICES ASSUME NEW q \in InRound, coined'[q] # {}
               PROVE  \E C \in Quorums : \A k \in C :
                        /\ flags[q][k] # {}
                        /\ q < MaxIn => adopted'[q + 1][k] \in flags[q][k] \cup {Void}
    BY <1>2, Zenon DEF CoinInv
  <2>1. \E C \in Quorums : \A k \in C :
          /\ flags[q][k] # {}
          /\ q < MaxIn => adopted[q + 1][k] \in flags[q][k] \cup {Void}
    <3>1. CASE coined[q] # {}
      BY <3>1, Zenon DEF AInv, CoinInv
    <3>2. CASE coined[q] = {}
      <4>1. q = r
        BY <1>3, <3>2, Zenon
      <4>2. CoinShares(r) \in Quorums
        BY <1>2, Zenon DEF CoinShares, Quorums
      <4>3. \A k \in CoinShares(r) : k \in Node /\ flags[q][k] # {}
        BY <4>1, Zenon DEF CoinShares
      <4>4. \A k \in Node : q < MaxIn => adopted[q + 1][k] = Void
        BY <3>2, Zenon DEF AInv, AdoptInv
      <4> QED
        BY <4>2, <4>3, <4>4, Zenon
    <3> QED
      BY <3>1, <3>2, Zenon
  <2>2. PICK C \in Quorums : \A k \in C :
          /\ flags[q][k] # {}
          /\ q < MaxIn => adopted[q + 1][k] \in flags[q][k] \cup {Void}
    BY <2>1, Zenon
  <2>3. ASSUME NEW k \in C, q < MaxIn
        PROVE  adopted'[q + 1][k] \in flags[q][k] \cup {Void}
    <3>1. k \in Node /\ q + 1 \in InRound
      BY <1>8, <2>3, Zenon DEF Quorums
    <3>2. CASE adopted'[q + 1][k] = adopted[q + 1][k]
      BY <2>2, <2>3, <3>2, Zenon
    <3>3. CASE q + 1 = r + 1 /\ k = i /\ adopted'[q + 1][k] = v
      <4>1. q = r /\ flags[q][k] = F
        BY <1>8, <2>3, <3>3, Zenon DEF F
      <4> QED
        BY <1>5, <2>2, <3>3, <4>1, Zenon
    <3> QED
      BY <1>6, <3>1, <3>2, <3>3, Zenon
  <2> QED
    BY <2>2, <2>3, Zenon
<1>10. AdoptInv'
  <2> SUFFICES ASSUME NEW q \in InRound, NEW k \in Node, q < MaxIn, adopted'[q + 1][k] # Void
               PROVE  /\ k \in coined'[q]
                      /\ \/ adopted'[q + 1][k] = Coin[q]
                         \/ flags[q][k] = {adopted'[q + 1][k]}
    BY <1>2, Zenon DEF AdoptInv
  <2>1. q + 1 \in InRound
    BY <1>8, Zenon
  <2>2. CASE adopted'[q + 1][k] = adopted[q + 1][k]
    BY <1>3, <2>2, ZenonT(40) DEF AInv, AdoptInv
  <2>3. CASE q + 1 = r + 1 /\ k = i /\ adopted'[q + 1][k] = v
    <3>1. q = r /\ flags[q][k] = F
      BY <1>8, <2>3, Zenon DEF F
    <3> QED
      BY <1>3, <1>5, <2>3, <3>1, Zenon
  <2> QED
    BY <1>6, <2>1, <2>2, <2>3, Zenon
<1>11. ValInv'
  <2> SUFFICES ASSUME NEW q \in InRound, NEW g \in Flag
               PROVE  /\ invoked'[q][g] # {} =>
                           Grounded(q, g)' \/ (q = 0 /\ invoked'[q][g] \subseteq Inputs(g)')
                      /\ Cardinality(Adopters(q, g)') >= LowThreshold => Grounded(q, g)'
                      /\ q = 0 => Adopters(q, g)' = {}
    BY Zenon DEF ValInv
  <2>1. invoked'[q][g] # {} =>
          Grounded(q, g)' \/ (q = 0 /\ invoked'[q][g] \subseteq Inputs(g)')
    BY <1>2, <1>7, Zenon DEF AInv, ValInv
  <2>2. CASE ~ (r < MaxIn /\ q = r + 1)
    <3>1. \A k \in Node : adopted'[q][k] = adopted[q][k]
      BY <1>6, <2>2, Zenon
    <3>2. Adopters(q, g)' = Adopters(q, g)
      BY <3>1, Zenon DEF Adopters
    <3> QED
      BY <1>7, <2>1, <3>2, Zenon DEF AInv, ValInv
  <2>3. CASE r < MaxIn /\ q = r + 1
    <3>1. q # 0
      BY <2>3, ABAAssumption DEF InRound
    <3>2. ASSUME Cardinality(Adopters(q, g)') >= LowThreshold
          PROVE  Grounded(q, g)
      <4>1. coined'[r] # {}
        BY <1>3, Zenon
      <4>2. PICK C \in Quorums : \A k \in C :
              /\ flags[r][k] # {}
              /\ adopted'[r + 1][k] \in flags[r][k] \cup {Void}
        BY <1>2, <1>9, <2>3, <4>1, Zenon DEF CoinInv
      <4>3. Adopters(q, g)' \in SUBSET Node
        BY Zenon DEF Adopters
      <4>4. PICK k \in Adopters(q, g)' : k \in C
        BY <3>2, <4>3, WeakMeetsQuorum, Zenon
      <4>5. k \in Node /\ adopted'[r + 1][k] = g /\ g # Void
        BY <2>3, <4>4, Zenon DEF Adopters, Flag, Void
      <4>6. g \in flags[r][k]
        BY <4>2, <4>4, <4>5, Zenon
      <4>7. Grounded(r, g)
        BY <4>5, <4>6, Zenon DEF AInv, MuxInv
      <4>8. Coin[r] = g \/ flags[r][k] = {g}
        BY <1>2, <1>10, <2>3, <4>5, Zenon DEF AdoptInv
      <4>9. \A t \in InRound : t < q => t < r \/ t = r
        BY <2>3, ABAAssumption DEF InRound
      <4> QED
        BY <4>5, <4>7, <4>8, <4>9, Zenon DEF Grounded
    <3> QED
      BY <1>7, <2>1, <3>1, <3>2, Zenon
  <2> QED
    BY <2>2, <2>3, Zenon
<1>12. MuxInv'
  BY <1>2, <1>7, Zenon DEF AInv, MuxInv
<1>13. HaltInv'
  <2>1. CASE halts' = halts
    BY <1>2, <2>1, Zenon DEF AInv, HaltInv
  <2>2. CASE F = {Coin[r]} /\ halts' = halts \cup {[flag |-> Coin[r], round |-> r]}
    BY <1>2, <2>2 DEF AInv, HaltInv, F
  <2> QED
    BY <2>1, <2>2, Zenon DEF ProcessCoin, F
<1> QED
  BY <1>1, <1>9, <1>10, <1>11, <1>12, <1>13, Zenon DEF AInv

LEMMA ProcessHaltAgrees ==
  ASSUME AInv, NEW i \in Node, NEW h \in halts, ProcessHalt(i, h)
  PROVE  AInv'
<1>1. IInv'
  BY ProcessHaltStep, Zenon DEF AInv
<1>2. UNCHANGED <<input, invoked, adopted, valHigh, mux, flags, coined, halts>>
  BY Zenon DEF ProcessHalt
<1>3. ValInv' /\ MuxInv'
  BY <1>2, CoinFrame DEF AInv, ValInv, MuxInv
<1> QED
  BY <1>1, <1>2, <1>3, CoinFrame, Zenon DEF AInv

LEMMA NextAInv ==
  ASSUME Size - HightThreshold < LowThreshold, AInv, [Next]_vars
  PROVE  AInv'
<1>1. ASSUME NEW i \in Node, ValStep(i) PROVE AInv'
  BY <1>1, JoinValAgrees, SendMuxAgrees, Zenon DEF ValStep
<1>2. ASSUME NEW i \in Node, MuxStep(i) PROVE AInv'
  BY <1>2, ProcessABAMuxAgrees, Zenon DEF MuxStep
<1>3. ASSUME NEW i \in Node, CoinStep(i) PROVE AInv'
  BY <1>3, ProcessCoinAgrees, Zenon DEF CoinStep
<1>4. ASSUME NEW i \in Node, HaltStep(i) PROVE AInv'
  BY <1>4, ProcessHaltAgrees, Zenon DEF HaltStep
<1>5. CASE UNCHANGED vars
  <2>1. IInv'
    BY <1>5, NextIInv, Zenon DEF AInv
  <2>2. UNCHANGED <<input, invoked, adopted, valHigh, mux, flags, coined, halts>>
    BY <1>5, ZenonT(40) DEF vars
  <2>3. ValInv' /\ MuxInv'
    BY <2>2, CoinFrame DEF AInv, ValInv, MuxInv
  <2> QED
    BY <2>1, <2>2, <2>3, CoinFrame, Zenon DEF AInv
<1> QED
  BY <1>1, <1>2, <1>3, <1>4, <1>5, ABAAssumption, Zenon DEF Next

\* In a committee of 3f+1 all ABAHalts carry the same flag, whatever the coins,
\* the inputs, the crashes and the order of messages, in any number of
\* in-rounds: ProcessHalt may act on the first one it gets.
THEOREM ABAHaltsAgree ==
  ASSUME NEW n \in Nat, Size = 3 * n + 1
  PROVE  Spec => []HaltsAgree
<1>1. AInv => HaltsAgree
  <2> SUFFICES ASSUME AInv PROVE HaltsAgree
    BY Zenon
  <2>0. \A h \in halts : h.round \in Int
    BY ABAAssumption DEF AInv, IInv, TypeOK, ABAHalt, InRound
  <2> SUFFICES ASSUME NEW g \in halts, NEW h \in halts, g.flag # h.flag, g.round <= h.round
               PROVE  FALSE
    BY <2>0 DEF HaltsAgree
  <2>1. /\ g.round \in InRound /\ h.round \in InRound
        /\ g.flag \in Flag /\ h.flag \in Flag
    BY Zenon DEF AInv, IInv, TypeOK, ABAHalt
  <2>2. Coin[g.round] = g.flag /\ Coin[h.round] = h.flag
    BY Zenon DEF AInv, HaltInv
  <2>3. g.round < h.round
    BY <2>1, <2>2, ABAAssumption DEF InRound
  <2>4. PICK k \in Node : flags[h.round][k] = {h.flag}
    BY Zenon DEF AInv, HaltInv
  <2>5. Grounded(h.round, h.flag)
    BY <2>1, <2>4, Zenon DEF AInv, MuxInv
  <2>6. PICK i \in Node : flags[g.round][i] = {h.flag}
    BY <2>1, <2>2, <2>3, <2>5, Zenon DEF Grounded
  <2>7. PICK j \in Node : flags[g.round][j] = {g.flag}
    BY Zenon DEF AInv, HaltInv
  <2>8. PICK P \in Quorums : \A l \in P : mux[g.round][l] = h.flag
    BY <2>1, <2>6 DEF AInv, IInv, FlagIsBacked
  <2>9. PICK Q \in Quorums : \A l \in Q : mux[g.round][l] = g.flag
    BY <2>1, <2>7 DEF AInv, IInv, FlagIsBacked
  <2>10. P \cap Q # {}
    BY ThreeFPlusOne, QuorumsMeet, Zenon DEF Quorums
  <2> QED
    BY <2>8, <2>9, <2>10
<1>2. AInv /\ [Next]_vars => AInv'
  BY ThreeFPlusOne, NextAInv, Zenon
<1> QED
  BY <1>1, <1>2, InitAInv, PTL DEF Spec

\* In a committee of 3f+1 a flag is decided only if f+1 nodes invoked the
\* agreement with it, although nodes may take the coin before their ABAMuxes.
THEOREM ABAValidity ==
  ASSUME NEW n \in Nat, Size = 3 * n + 1
  PROVE  Spec => []Validity
<1>1. AInv => Validity
  <2> SUFFICES ASSUME AInv, NEW h \in halts
               PROVE  Cardinality(Inputs(h.flag)) >= LowThreshold
    BY Zenon DEF Validity, Inputs
  <2>1. h.round \in InRound /\ h.flag \in Flag
    BY Zenon DEF AInv, IInv, TypeOK, ABAHalt
  <2>2. PICK k \in Node : flags[h.round][k] = {h.flag}
    BY Zenon DEF AInv, HaltInv
  <2> QED
    BY <2>1, <2>2, Zenon DEF AInv, MuxInv, Grounded
<1>2. AInv /\ [Next]_vars => AInv'
  BY ThreeFPlusOne, NextAInv, Zenon
<1> QED
  BY <1>1, <1>2, InitAInv, PTL DEF Spec

-----------------------------------------------------------------------------
(* The agreement as a single choice.                                       *)

\* ABAHalts that agree carry the flag chosen.
LEMMA OneFlag ==
  ASSUME NEW H \in SUBSET ABAHalt, \A g, h \in H : g.flag = h.flag, NEW h \in H
  PROVE  (CHOOSE f \in Flag : \E g \in H : g.flag = f) = h.flag /\ h.flag \in Flag
<1>1. h.flag \in Flag
  BY Zenon DEF ABAHalt
<1> QED
  BY <1>1, Zenon

\* In a committee of 3f+1 every step of the instances is a step of an agreement
\* on a flag that f+1 nodes put in, or changes nothing the agreement shows: the
\* first ABAHalt is the choice, across any number of in-rounds and for every
\* coin, and no node halts with another flag.
THEOREM ABAImplementsConsensus ==
  ASSUME NEW n \in Nat, Size = 3 * n + 1
  PROVE  Spec => ImplementsConsensus
<1> DEFINE Known == TypeOK /\ HaltsAgree /\ Validity
<1>1. Init => Con!Init
  BY Zenon DEF Init, Con!Init, HaltFlag, Supported
<1>2. Known /\ Known' /\ [Next]_vars => [Con!Next]_(Con!conVars)
  <2> SUFFICES ASSUME Known, Known', [Next]_vars PROVE Con!Next \/ UNCHANGED Con!conVars
    BY Zenon
  <2>a. /\ \A h \in halts : HaltFlag = h.flag /\ h.flag \in Flag
        /\ \A h \in halts' : HaltFlag' = h.flag /\ h.flag \in Flag
    BY OneFlag, Zenon DEF TypeOK, HaltsAgree, HaltFlag
  <2>b. Void \notin Flag
    BY Zenon DEF Flag, Void
  <2>1. ASSUME UNCHANGED <<input, halts, decided>> PROVE UNCHANGED Con!conVars
    BY <2>1 DEF Con!conVars, Supported, HaltFlag
  <2>2. ASSUME NEW i \in Node, ValStep(i) \/ MuxStep(i) PROVE UNCHANGED <<input, halts, decided>>
    BY <2>2, Zenon DEF ValStep, JoinVal, SendMux, MuxStep, ProcessABAMux
  <2>3. ASSUME NEW i \in Node, CoinStep(i) PROVE Con!Next \/ UNCHANGED Con!conVars
    <3>1. UNCHANGED <<input, decided>> /\ halts \subseteq halts'
      BY <2>3, Zenon DEF CoinStep, ProcessCoin
    <3>2. Supported' = Supported
      BY <3>1, Zenon DEF Supported
    <3>3. CASE halts' = halts
      BY <2>1, <3>1, <3>3, Zenon
    <3>4. CASE halts # {}
      <4>1. PICK h \in halts : h \in halts'
        BY <3>1, <3>4, Zenon
      <4>2. HaltFlag = h.flag /\ HaltFlag' = h.flag
        BY <2>a, <4>1, Zenon
      <4> QED
        BY <3>1, <3>2, <4>2, Zenon DEF Con!conVars
    <3>5. CASE halts = {} /\ halts' # {}
      <4>1. PICK h \in halts' : TRUE
        BY <3>5, Zenon
      <4>2. HaltFlag' = h.flag /\ h.flag \in Flag
        BY <2>a, <4>1, Zenon
      <4>3. h.flag \in Supported'
        BY <4>1, <4>2, Zenon DEF Validity, Supported
      <4>4. Con!Choose(h.flag)
        BY <3>1, <3>2, <3>5, <4>2, <4>3, Zenon DEF Con!Choose, HaltFlag
      <4> QED
        BY <4>2, <4>4, Zenon DEF Con!Next
    <3> QED
      BY <3>3, <3>4, <3>5, Zenon
  <2>4. ASSUME NEW i \in Node, HaltStep(i) PROVE Con!Next
    <3>1. PICK h \in halts : ProcessHalt(i, h)
      BY <2>4, Zenon DEF HaltStep
    <3>2. Supported' = Supported /\ HaltFlag' = HaltFlag
      BY <3>1 DEF ProcessHalt, Supported, HaltFlag
    <3>3. Con!Output(i)
      BY <2>a, <2>b, <3>1, <3>2, Zenon DEF ProcessHalt, Con!Output
    <3> QED
      BY <3>3, Zenon DEF Con!Next
  <2>5. CASE UNCHANGED vars
    BY <2>1, <2>5, Zenon DEF vars
  <2> QED
    BY <2>1, <2>2, <2>3, <2>4, <2>5, ABAAssumption, Zenon DEF Next
<1> QED
  BY <1>1, <1>2, ABATypeOK, ABAHaltsAgree, ABAValidity, PTL DEF Spec, ImplementsConsensus, Con!Spec

=============================================================================
