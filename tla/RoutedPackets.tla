---------------------------- MODULE RoutedPackets ----------------------------
(***************************************************************************)
(* The forwarding table seen by what is routed: a history variable keeps   *)
(* when a packet of each source last went through the node, over whichever *)
(* route.  The node enters every packet it routes with add_entry           *)
(* (node.py:369-377); the behaviours of the table are those of             *)
(* ForwardingTable.                                                        *)
(***************************************************************************)
EXTENDS ForwardingTable

VARIABLE heard   \* nid -> when a packet of that source was last routed

RoutedInit == Init /\ heard = [n \in Nids |-> 0]

RoutedNext ==
  /\ Next
  /\ heard' = [n \in Nids |->
                 IF call'.op = "add_entry" /\ call'.nid = n THEN now ELSE heard[n]]

RoutedSpec == RoutedInit /\ [][RoutedNext]_<<vars, heard>>

(***************************************************************************)
(* relatorio.md:110-111, "timeout ... without activity" and "each routed   *)
(* packet updates last_seen": aging takes out no destination from which a  *)
(* packet was routed within the timeout.                                   *)
(***************************************************************************)
AgingSparesHeard ==
  [][\A n \in Nids :
       Present(n) /\ ~Present(n)' /\ call'.op # "remove_entry"
         => now - heard[n] > AgingTimeout]_<<vars, heard>>
=============================================================================
