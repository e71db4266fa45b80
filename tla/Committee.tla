------------------------------ MODULE Committee ------------------------------
(***************************************************************************)
(* The committee of core/config.go: the nodes and the two thresholds every *)
(* aggregator of the four protocols compares its count with.               *)
(***************************************************************************)
EXTENDS Integers, FiniteSets

CONSTANTS
  Node,       \* the authorities of the committee (NodeID)
  NONE        \* core.NONE: no node

ASSUME CommitteeAssumption ==
  /\ IsFiniteSet(Node)
  /\ Node # {}
  /\ NONE \notin Node

Size == Cardinality(Node)

\* Integer division as in Go: for Size = 3f+1, 3f+2 and 3f+3 alike, this is f.
LowThreshold == (Size - 1) \div 3 + 1

HightThreshold == 2 * ((Size - 1) \div 3) + 1

\* The sets of nodes whose messages fill an aggregator that waits for 2f+1.
Quorums == {Q \in SUBSET Node : Cardinality(Q) >= HightThreshold}

=============================================================================
