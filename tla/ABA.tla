--------------------------------- MODULE ABA ---------------------------------
(***************************************************************************)
(* One asynchronous binary agreement of core/mvba/consensus/aba.go: the    *)
(* instances all nodes keep for one (epoch, exround), with the parts of    *)
(* core.go that drive them (invokeABAVal, addCoinShare, the callbacks).    *)
(*                                                                         *)
(* Messages are handled by goroutines, in any order.  A handler that only  *)
(* increments a counter shows no effect before the counter is compared     *)
(* with a threshold: the step modelled is the one that reaches it, enabled *)
(* when so many messages were sent.  ABAVal messages are counted without   *)
(* looking at their authors, and a node may send one twice: when it takes  *)
(* a value from the coin, and again when f+1 of them make it join in       *)
(* (ProcessCoin does not set abaInvokeFlag).                               *)
(***************************************************************************)
EXTENDS Committee

CONSTANTS
  Coin,      \* Coin[r]: the bit all threshold-signature shares of r give
  MaxIn,     \* bound: in-rounds 0..MaxIn are run
  Correct    \* the nodes that do not crash

InRound == 0 .. MaxIn
Flag == {"YES", "NO"}
Void == "none"       \* no flag

ASSUME ABAAssumption ==
  /\ MaxIn \in Nat
  /\ Coin \in [InRound -> Flag]
  /\ Correct \subseteq Node

VARIABLES
  input,    \* input[i]: what the votes made node i invoke the instance with;
            \* Void for a node that crashed before
  invoked,  \* invoked[r][f]: nodes with abaInvokeFlag, which sent an ABAVal
  adopted,  \* adopted[r][i]: flag of the ABAVal i sent in ProcessCoin
  valHigh,  \* valHigh[r][i]: flags of which i counted 2f+1 ABAVals
  mux,      \* mux[r][i]: flag of i's ABAMux (muxFlag)
  muxSeen,  \* muxSeen[r][i]: authors of the ABAMux i counted in vain
  flags,    \* flags[r][i]: yesFlag and noFlag; i sent its CoinShare
  coined,   \* coined[r]: nodes that have handled the coin
  halts,    \* ABAHalt messages broadcast
  decided   \* decided[i]: the flag i halted with

vars == <<input, invoked, adopted, valHigh, mux, muxSeen, flags, coined, halts, decided>>

ABAHalt == [flag : Flag, round : InRound]

Init ==
  /\ input \in [Node -> Flag \cup {Void}]
  /\ \A i \in Correct : input[i] # Void
  /\ invoked = [r \in InRound |-> [f \in Flag |->
                  IF r = 0 THEN {i \in Node : input[i] = f} ELSE {}]]
  /\ adopted = [r \in InRound |-> [i \in Node |-> Void]]
  /\ valHigh = [r \in InRound |-> [i \in Node |-> {}]]
  /\ mux = [r \in InRound |-> [i \in Node |-> Void]]
  /\ muxSeen = [r \in InRound |-> [i \in Node |-> {}]]
  /\ flags = [r \in InRound |-> [i \in Node |-> {}]]
  /\ coined = [r \in InRound |-> {}]
  /\ halts = {}
  /\ decided = [i \in Node |-> Void]

-----------------------------------------------------------------------------
\* The number of ABAVal messages sent with flag f.
Vals(r, f) == Cardinality(invoked[r][f]) + Cardinality({i \in Node : adopted[r][i] = f})

\* Joins in on any ABAVal.
JoinValAny(i, r, f) ==
  /\ decided[i] = Void
  /\ i \notin invoked[r][f]
  /\ Vals(r, f) > 0
  /\ invoked' = [invoked EXCEPT ![r][f] = @ \cup {i}]
  /\ UNCHANGED <<input, adopted, valHigh, mux, muxSeen, flags, coined, halts, decided>>

\* Joins in where the ABAMux is sent.
JoinValHigh(i, r, f) ==
  /\ decided[i] = Void
  /\ i \notin invoked[r][f]
  /\ Vals(r, f) >= HightThreshold
  /\ invoked' = [invoked EXCEPT ![r][f] = @ \cup {i}]
  /\ UNCHANGED <<input, adopted, valHigh, mux, muxSeen, flags, coined, halts, decided>>

\* ProcessABAVal, the f+1-th: ABA_INVOKE, on which the core joins in unless it
\* has sent this flag from invokeABAVal before.
JoinVal(i, r, f) ==
  /\ decided[i] = Void
  /\ i \notin invoked[r][f]
  /\ Vals(r, f) >= LowThreshold
  /\ invoked' = [invoked EXCEPT ![r][f] = @ \cup {i}]
  /\ UNCHANGED <<input, adopted, valHigh, mux, muxSeen, flags, coined, halts, decided>>

\* ProcessABAVal, the 2f+1-th (unless that is the f+1-th, where the code only
\* joins in): the first flag that gets there is sent in an ABAMux.
SendMux(i, r, f) ==
  /\ decided[i] = Void
  /\ f \notin valHigh[r][i]
  /\ LowThreshold # HightThreshold
  /\ Vals(r, f) >= HightThreshold
  /\ valHigh' = [valHigh EXCEPT ![r][i] = @ \cup {f}]
  /\ mux' = IF mux[r][i] = Void THEN [mux EXCEPT ![r][i] = f] ELSE mux
  /\ UNCHANGED <<input, invoked, adopted, muxSeen, flags, coined, halts, decided>>

\* Reads the ABAMux of every node, also of those that sent none.
MuxFlagsAll(i, r, M) ==
  IF Cardinality(M) < HightThreshold THEN {} ELSE {mux[r][j] : j \in Node}

\* A weak quorum of ABAMux for one flag.
MuxFlagsLow(i, r, M) ==
  {f \in valHigh[r][i] : Cardinality({j \in M : mux[r][j] = f}) >= LowThreshold}

\* The flags set once the ABAMux of M are counted, if any.
MuxFlags(i, r, M) ==
  LET seen == {mux[r][j] : j \in M}
      strong == {f \in valHigh[r][i] :
                   Cardinality({j \in M : mux[r][j] = f}) >= HightThreshold}
  IN IF Cardinality(M) < HightThreshold THEN {}
     ELSE IF valHigh[r][i] = Flag THEN seen
     ELSE strong

\* ProcessABAMux for the messages of new: the 2f+1 ones that make the first
\* comparison, then one at a time.  The flags are only looked at when an
\* ABAMux is handled, not when a counter of ABAVals grows.
ProcessABAMux(i, r, new) ==
  LET M == muxSeen[r][i] \cup new IN
  /\ decided[i] = Void
  /\ flags[r][i] = {}
  /\ new \cap muxSeen[r][i] = {}
  /\ \A j \in new : mux[r][j] # Void
  /\ IF muxSeen[r][i] = {} THEN Cardinality(new) = HightThreshold ELSE Cardinality(new) = 1
  /\ flags' = [flags EXCEPT ![r][i] = MuxFlags(i, r, M)]
  /\ muxSeen' = IF MuxFlags(i, r, M) = {} THEN [muxSeen EXCEPT ![r][i] = M]
                                          ELSE [muxSeen EXCEPT ![r][i] = {}]
  /\ UNCHANGED <<input, invoked, adopted, valHigh, mux, coined, halts, decided>>

CoinShares(r) == {i \in Node : flags[r][i] # {}}

\* The zero value of the flag instead of the coin.
NextValZero(r, seen) == IF seen = {"NO"} THEN "NO" ELSE "YES"

\* The flag a node takes to the next in-round.
NextVal(r, seen) ==
  IF seen \in {{}, Flag} THEN Coin[r] ELSE CHOOSE f \in Flag : seen = {f}

\* handleCoinShare with the 2f+1-th share, and ProcessCoin, which runs in a
\* halted instance as well: halt if the coin is the only flag set, else go on.
ProcessCoin(i, r) ==
  /\ i \notin coined[r]
  /\ Cardinality(CoinShares(r)) >= HightThreshold
  /\ coined' = [coined EXCEPT ![r] = @ \cup {i}]
  /\ IF flags[r][i] = {Coin[r]}
     THEN /\ halts' = halts \cup {[flag |-> Coin[r], round |-> r]}
          /\ UNCHANGED adopted
     ELSE /\ adopted' = IF r < MaxIn
                        THEN [adopted EXCEPT ![r + 1][i] = NextVal(r, flags[r][i])]
                        ELSE adopted
          /\ UNCHANGED halts
  /\ UNCHANGED <<input, invoked, valHigh, mux, muxSeen, flags, decided>>

\* Halts with the flag the node itself put in.
ProcessHaltOwn(i, h) ==
  /\ decided[i] = Void
  /\ decided' = [decided EXCEPT ![i] = input[i]]
  /\ UNCHANGED <<input, invoked, adopted, valHigh, mux, muxSeen, flags, coined, halts>>

\* ProcessHalt: one ABAHalt is enough; it is passed on.
ProcessHalt(i, h) ==
  /\ decided[i] = Void
  /\ decided' = [decided EXCEPT ![i] = h.flag]
  /\ UNCHANGED <<input, invoked, adopted, valHigh, mux, muxSeen, flags, coined, halts>>

-----------------------------------------------------------------------------
ValStep(i) == \E r \in InRound, f \in Flag : JoinVal(i, r, f) \/ SendMux(i, r, f)

MuxStep(i) == \E r \in InRound, new \in SUBSET Node : ProcessABAMux(i, r, new)

CoinStep(i) == \E r \in InRound : ProcessCoin(i, r)

HaltStep(i) == \E h \in halts : ProcessHalt(i, h)

Next == \E i \in Correct : ValStep(i) \/ MuxStep(i) \/ CoinStep(i) \/ HaltStep(i)

Spec == Init /\ [][Next]_vars

\* A goroutine of a node that does not crash is eventually scheduled.
Fairness ==
  \A i \in Correct :
    /\ WF_vars(ValStep(i))
    /\ WF_vars(MuxStep(i))
    /\ WF_vars(CoinStep(i))
    /\ WF_vars(HaltStep(i))

FairSpec == Spec /\ Fairness

-----------------------------------------------------------------------------
\* The shape of the counters and flags: yesFlag and noFlag are set only for
\* flags that some ABAMux carried (ProcessABAMux).
TypeOK ==
  /\ input \in [Node -> Flag \cup {Void}]
  /\ invoked \in [InRound -> [Flag -> SUBSET Node]]
  /\ adopted \in [InRound -> [Node -> Flag \cup {Void}]]
  /\ valHigh \in [InRound -> [Node -> SUBSET Flag]]
  /\ mux \in [InRound -> [Node -> Flag \cup {Void}]]
  /\ muxSeen \in [InRound -> [Node -> SUBSET Node]]
  /\ flags \in [InRound -> [Node -> SUBSET Flag]]
  /\ coined \in [InRound -> SUBSET Node]
  /\ halts \subseteq ABAHalt
  /\ decided \in [Node -> Flag \cup {Void}]

\* No node sets yesFlag alone while another sets noFlag alone: the two would
\* take different values to the next in-round whatever the coin.
FlagsAgree ==
  \A r \in InRound, i, j \in Node :
    ~ (flags[r][i] = {"YES"} /\ flags[r][j] = {"NO"})

\* All ABAHalt messages carry the same flag, across nodes and in-rounds, so a
\* single one is enough for ProcessHalt.
HaltsAgree == \A g, h \in halts : g.flag = h.flag

\* The flag decided was the input of f+1 nodes, so of one that does not crash,
\* although a node that gets the coin before its own ABAMuxes takes the coin for
\* its value.  This needs a committee of 3f+1: with one more node, f+1 nodes may
\* take the coin like that.
Validity ==
  \A h \in halts : Cardinality({i \in Node : input[i] = h.flag}) >= LowThreshold

\* The flags that f+1 nodes put in, and the flag of the ABAHalts.
Supported == {f \in Flag : Cardinality({i \in Node : input[i] = f}) >= LowThreshold}
HaltFlag == IF halts = {} THEN Void ELSE CHOOSE f \in Flag : \E h \in halts : h.flag = f

Con == INSTANCE Consensus
         WITH Value <- Flag, NoValue <- Void,
              supported <- Supported, chosen <- HaltFlag, output <- decided

\* The in-rounds, coins and halts of an agreement implement a single choice among
\* the flags that f+1 nodes put in (ProcessCoin): later ABAHalts repeat it, and a
\* node halts once, with that flag (ProcessHalt).
ImplementsConsensus == Con!Spec

\* All ABAMux are counted and the flags are due, but only another ABAMux would
\* make ProcessABAMux look.
Starved(i, r) ==
  /\ flags[r][i] = {}
  /\ muxSeen[r][i] # {}
  /\ MuxFlags(i, r, muxSeen[r][i]) # {}

\* In-round 0 ends at every correct node, unless two counters met in the wrong
\* order somewhere.
RoundEnds ==
  <>(\/ \E i \in Correct : Starved(i, 0)
     \/ \A i \in Correct : i \in coined[0] \/ decided[i] # Void)

=============================================================================
