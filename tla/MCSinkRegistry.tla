---------------------------- MODULE MCSinkRegistry ----------------------------
(* SinkRegistry with two nodes, two attempts of each and a restart.        *)
EXTENDS SinkRegistry
=============================================================================
