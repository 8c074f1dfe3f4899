--------------------------- MODULE MCUplinkMonitor ---------------------------
(* UplinkMonitor with an interval of a few ticks.                          *)
EXTENDS UplinkMonitor
=============================================================================
