-------------------------------- MODULE MCSPB --------------------------------
EXTENDS SPB

CONSTANTS n1, n2, n3, n4

\* The smallest committee that tolerates a crash.  The proposer is live.
FourNodes == {n1, n2, n3, n4}
OneCrashed == FourNodes \ {n4}

=============================================================================
