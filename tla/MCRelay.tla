------------------------------- MODULE MCRelay -------------------------------
\* An instance of Relay for TLC.
EXTENDS Relay, TLC

\* Nodes are alike, and so are addresses.
Symmetry == Permutations(Nids) \cup Permutations(Addresses)
=============================================================================
