-------------------------- MODULE ProvableBroadcast --------------------------
(***************************************************************************)
(* What a strong provable broadcast promises, whatever its messages and    *)
(* goroutines: the nodes that hold the block, the nodes locked on it, and  *)
(* whether its Finish was broadcast.  Module SPB implements it, and module *)
(* CBC its first phase; module SMVBA composes one per round and proposer.  *)
(***************************************************************************)
CONSTANTS
  Node,
  Quorums    \* the sets of nodes that are large enough, 2f+1 or more

VARIABLES
  stored,    \* nodes that hold the block's hash
  locked,    \* nodes that know that a quorum holds it
  finished   \* whether a quorum is known to be locked

pbVars == <<stored, locked, finished>>

Init == stored = {} /\ locked = {} /\ finished = FALSE

Store(i) ==
  /\ stored' = stored \cup {i}
  /\ UNCHANGED <<locked, finished>>

Lock(i) ==
  /\ i \in stored
  /\ stored \in Quorums
  /\ locked' = locked \cup {i}
  /\ UNCHANGED <<stored, finished>>

Finish ==
  /\ ~ finished
  /\ locked \in Quorums
  /\ finished' = TRUE
  /\ UNCHANGED <<stored, locked>>

Next == Finish \/ \E i \in Node : Store(i) \/ Lock(i)

Spec == Init /\ [][Next]_pbVars

=============================================================================
