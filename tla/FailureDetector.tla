--------------------------- MODULE FailureDetector ---------------------------
(***************************************************************************)
(* What a node promises about the loss of its uplink: it gives the uplink  *)
(* up only after more than Low seconds of silence, and never lets High     *)
(* seconds of silence pass.                                                *)
(***************************************************************************)
EXTENDS Integers

CONSTANTS Low, High

VARIABLES now, heard, joined

Init == now = 0 /\ heard = 0 /\ joined = TRUE

Hear ==
  /\ joined
  /\ heard' = now
  /\ UNCHANGED <<now, joined>>

GiveUp ==
  /\ joined
  /\ now - heard > Low
  /\ joined' = FALSE
  /\ UNCHANGED <<now, heard>>

Pass ==
  /\ now' = now + 1
  /\ joined => now' - heard <= High
  /\ UNCHANGED <<heard, joined>>

Next == Hear \/ GiveUp \/ Pass

Spec == Init /\ [][Next]_<<now, heard, joined>>
=============================================================================
