------------------------------ MODULE MCEpochs -------------------------------
EXTENDS SMVBAEpochs, TLC

CONSTANTS n0, n1

\* Node 1 is decided every time, so that a batch could be output twice.
AlwaysOne == [e \in Epochs |-> n1]

=============================================================================
