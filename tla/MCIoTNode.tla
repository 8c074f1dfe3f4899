------------------------------ MODULE MCIoTNode ------------------------------
(* IoTNode with two or three sinks around and two tasks for handlers.      *)
EXTENDS IoTNode, TLC
=============================================================================
