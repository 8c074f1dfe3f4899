------------------------------ MODULE Membership ------------------------------
(***************************************************************************)
(* What the rest of the network may rely on about one node: it is out of   *)
(* the network, trying to get in, or joined; it gets in only by trying,    *)
(* counts missed beats only while joined, at most two of them, and starts  *)
(* counting anew each time it joins.                                       *)
(*                                                                         *)
(* IoTNode implements this with tasks, futures and a list of devices, and  *)
(* each node of SinkRegistry with a phase and messages under way: what     *)
(* SinkRegistry assumes of its nodes is what IoTNode gives.                *)
(***************************************************************************)
EXTENDS Naturals

VARIABLES
  phase,    \* "out", "trying" or "joined"
  missed    \* beats missed since the last one

Init == phase = "out" /\ missed = 0

Try    == phase = "out"    /\ phase' = "trying" /\ missed' = missed
GiveUp == phase = "trying" /\ phase' = "out"    /\ missed' = missed
Join   == phase = "trying" /\ phase' = "joined" /\ missed' = 0
Beat   == phase = "joined" /\ missed' = 0 /\ phase' = phase
Miss   == phase = "joined" /\ missed < 2 /\ missed' = missed + 1 /\ phase' = phase
Leave  == phase = "joined" /\ phase' = "out" /\ missed' = 0

Next == Try \/ GiveUp \/ Join \/ Beat \/ Miss \/ Leave

Spec == Init /\ [][Next]_<<phase, missed>>
=============================================================================
