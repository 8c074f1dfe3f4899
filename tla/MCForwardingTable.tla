------------------------- MODULE MCForwardingTable -------------------------
(* ForwardingTable on a small instance: periods of a few seconds, hop      *)
(* counts that contain LinkInfo's "unknown", -1.                           *)
EXTENDS ForwardingTable, TLC

MCHops == {-1, 1}
MCInfinity == 9
Symmetric == Permutations(Nids) \cup Permutations(Routes)
=============================================================================
