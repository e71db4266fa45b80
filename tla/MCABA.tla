-------------------------------- MODULE MCABA --------------------------------
EXTENDS ABA, TLC

CONSTANT First, Second     \* the coin of in-round 0 and of the later ones

CoinSequence == [r \in InRound |-> IF r = 0 THEN First ELSE Second]

Symmetry == Permutations(Node)

\* Bound: no ABAHalt is handled.  An instance that has not halted does all that
\* a halted one does and more.
NobodyHalts == \A i \in Node : decided[i] = Void

\* Bound: an in-round starts once an ABAHalt was sent in the one before, and
\* the first coin handled in the last in-round ends the behaviour.
HaltedBefore ==
  /\ NobodyHalts
  /\ coined[MaxIn] = {}
  /\ \A r \in InRound \ {0} :
       \/ \E h \in halts : h.round < r
       \/ \A f \in Flag, i \in Node : invoked[r][f] = {} /\ valHigh[r][i] = {}

\* In-round 0 when all nodes were invoked with NO, the case where a YES is not
\* valid: all but one in Correct have sent the ABAMux, and the crashed nodes their
\* CoinShare, so that the coin may overtake the ABAMuxes on the way to the others.
UnanimousInit ==
  LET slow == CHOOSE i \in Correct : TRUE
      quick == Node \ {slow}
      Zero(v, w) == [r \in InRound |-> [i \in Node |-> IF r = 0 /\ i \in quick THEN v ELSE w]]
  IN
  /\ input = [i \in Node |-> "NO"]
  /\ invoked = [r \in InRound |-> [f \in Flag |-> IF r = 0 /\ f = "NO" THEN Node ELSE {}]]
  /\ adopted = [r \in InRound |-> [i \in Node |-> Void]]
  /\ valHigh = Zero({"NO"}, {})
  /\ mux = Zero("NO", Void)
  /\ muxSeen = [r \in InRound |-> [i \in Node |-> {}]]
  /\ flags = [r \in InRound |-> [i \in Node |->
                IF r = 0 /\ i \notin Correct THEN {"NO"} ELSE {}]]
  /\ coined = [r \in InRound |-> {}]
  /\ halts = {}
  /\ decided = [i \in Node |-> Void]

LiveInit == Init \/ UnanimousInit

LiveSpec == LiveInit /\ [][Next]_vars /\ Fairness

\* Bound: in-round 1 is run only where all nodes were invoked with NO.
UnanimousGoesOn ==
  \/ \A i \in Node : input[i] = "NO"
  \/ \A r \in InRound \ {0}, f \in Flag, i \in Node : invoked[r][f] = {} /\ valHigh[r][i] = {}

\* In-round 0 after the ABAVals: f+1 inputs were YES, every node has joined in
\* both flags and counted 2f+1 of each, whichever it sent in its ABAMux.  What
\* the inputs were makes no difference any more, so one choice of them is taken
\* for each choice of ABAMux, up to symmetry.
MixedInit ==
  /\ input \in {t \in [Node -> Flag] : Cardinality({i \in Node : t[i] = "YES"}) = LowThreshold}
  /\ invoked = [r \in InRound |-> [f \in Flag |-> IF r = 0 THEN Node ELSE {}]]
  /\ adopted = [r \in InRound |-> [i \in Node |-> Void]]
  /\ valHigh = [r \in InRound |-> [i \in Node |-> IF r = 0 THEN Flag ELSE {}]]
  /\ mux \in {m \in [InRound -> [Node -> Flag \cup {Void}]] :
                /\ \A i \in Node : m[0][i] \in Flag
                /\ \A r \in InRound \ {0}, i \in Node : m[r][i] = Void}
  /\ LET Yes(t) == {i \in Node : t[i] = "YES"}
     IN Yes(input) \subseteq Yes(mux[0]) \/ Yes(mux[0]) \subseteq Yes(input)
  /\ muxSeen = [r \in InRound |-> [i \in Node |-> {}]]
  /\ flags = [r \in InRound |-> [i \in Node |-> {}]]
  /\ coined = [r \in InRound |-> {}]
  /\ halts = {}
  /\ decided = [i \in Node |-> Void]

MixedSpec == MixedInit /\ [][Next]_vars

=============================================================================
