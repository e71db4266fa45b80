------------------------------ MODULE Consensus -------------------------------
(***************************************************************************)
(* What an agreement promises, whatever its messages and rounds: one value *)
(* is chosen, once and for all, out of those that have enough support at   *)
(* that moment, and what a node outputs is the chosen value.  Support only *)
(* grows.  Module ABA implements it (the value is a flag, its support the  *)
(* inputs), module MVBA does in every epoch and module SMVBA in the one it *)
(* runs (the value is a block, its support the nodes that store it).       *)
(***************************************************************************)
CONSTANTS
  Node,
  Value,
  NoValue

VARIABLES
  supported,  \* the values that may be chosen
  chosen,     \* the value chosen, or NoValue
  output      \* output[i]: what node i outputs, or NoValue

conVars == <<supported, chosen, output>>

Init ==
  /\ supported \subseteq Value
  /\ chosen = NoValue
  /\ output = [i \in Node |-> NoValue]

Support ==
  /\ supported \subseteq supported'
  /\ supported' \subseteq Value
  /\ UNCHANGED <<chosen, output>>

Choose(v) ==
  /\ chosen = NoValue
  /\ v \in supported
  /\ chosen' = v
  /\ UNCHANGED <<supported, output>>

Output(i) ==
  /\ chosen # NoValue
  /\ output[i] = NoValue
  /\ output' = [output EXCEPT ![i] = chosen]
  /\ UNCHANGED <<supported, chosen>>

Next ==
  \/ Support
  \/ \E v \in Value : Choose(v)
  \/ \E i \in Node : Output(i)

Spec == Init /\ [][Next]_conVars

=============================================================================
