--------------------------------- MODULE Relay ---------------------------------
(***************************************************************************)
(* Messages between nodes through the sink: connected_nodes,               *)
(* nid_to_address and message_queues of sink/sink.py, while nodes change   *)
(* their bluetooth addresses, take over one another's, register anew, and  *)
(* the sink restarts.                                                      *)
(*                                                                         *)
(* A registration is keyed by address in one dictionary and by nid in the  *)
(* other, and nothing is ever taken out of either.  A node that changes    *)
(* its address loses its connection and what was under way on it, so a     *)
(* handler runs while its sender is where the message says.  Handlers do   *)
(* not suspend.  How a node gets to register is module SinkRegistry's.     *)
(***************************************************************************)
EXTENDS Naturals, Sequences

CONSTANTS
  Nids,          \* identities of the nodes
  Addresses,     \* bluetooth addresses
  None,          \* no entry, or nobody
  MaxMessages,   \* bound on the messages between nodes
  MaxMoves,      \* bound on the changes of address
  MaxRestarts    \* bound on the restarts of the sink

ASSUME RelayAssumption ==
  /\ None \notin Nids \cup Addresses
  /\ MaxMessages \in Nat /\ MaxMoves \in Nat /\ MaxRestarts \in Nat

VARIABLES
  connected_nodes,  \* address -> nid of its ConnectedNode, or None
  nid_to_address,   \* nid -> address, or None
  message_queues,   \* nid -> entries: the sender as the sink takes it, the
                    \* node that did send it, and which message it is
  where,            \* nid -> the address the node has, or None
  settled,          \* nodes that registered since they, or the sink, changed
  pushed,           \* nid -> entries sent on at once, since the sink started
  received,         \* nid -> messages that reached the node: for whom, which
  messages,         \* messages between nodes so far
  moves,            \* changes of address so far
  restarts          \* of the sink so far

sink == <<connected_nodes, nid_to_address, message_queues, pushed>>
nodes == <<where, settled, received>>
vars == <<sink, nodes, messages, moves, restarts>>

Entry == [from : Nids \cup {None}, by : Nids, id : 1 .. MaxMessages]
Mail == [to : Nids, id : 1 .. MaxMessages]

TypeOK ==
  /\ connected_nodes \in [Addresses -> Nids \cup {None}]
  /\ nid_to_address \in [Nids -> Addresses \cup {None}]
  /\ message_queues \in [Nids -> Seq(Entry)]
  /\ where \in [Nids -> Addresses \cup {None}]
  /\ settled \subseteq Nids
  /\ pushed \in [Nids -> Seq(Entry)]
  /\ received \in [Nids -> SUBSET Mail]
  /\ messages \in 0 .. MaxMessages
  /\ moves \in 0 .. MaxMoves
  /\ restarts \in 0 .. MaxRestarts

Init ==
  /\ connected_nodes = [a \in Addresses |-> None]
  /\ nid_to_address = [n \in Nids |-> None]
  /\ message_queues = [n \in Nids |-> <<>>]
  /\ where = [n \in Nids |-> None]
  /\ settled = {}
  /\ pushed = [n \in Nids |-> <<>>]
  /\ received = [n \in Nids |-> {}]
  /\ messages = 0 /\ moves = 0 /\ restarts = 0
-----------------------------------------------------------------------------
(***************************************************************************)
(* The nodes.                                                              *)
(***************************************************************************)

\* A node appears, disappears or comes back under a free address.
Move(n, a) ==
  /\ moves < MaxMoves /\ moves' = moves + 1
  /\ a # where[n] /\ \A m \in Nids : where[m] = a => a = None
  /\ where' = [where EXCEPT ![n] = a]
  /\ settled' = settled \ {n}
  /\ UNCHANGED <<sink, received, messages, restarts>>
-----------------------------------------------------------------------------
(***************************************************************************)
(* The sink.                                                               *)
(***************************************************************************)

(***************************************************************************)
(* _handle_auth: both dictionaries are overwritten; the entry of the       *)
(* address the node had before stays, and so does the nid that had this    *)
(* address before.                                                         *)
(***************************************************************************)
Register_KeepsAddress(n) ==
  /\ where[n] # None
  /\ connected_nodes' = [connected_nodes EXCEPT ![where[n]] = n]
  /\ nid_to_address' = [nid_to_address EXCEPT ![n] = IF @ = None THEN where[n] ELSE @]
  /\ settled' = settled \cup {n}
  /\ UNCHANGED <<message_queues, pushed, where, received, messages, moves, restarts>>

Register(n) ==
  /\ where[n] # None
  /\ connected_nodes' = [connected_nodes EXCEPT ![where[n]] = n]
  /\ nid_to_address' = [nid_to_address EXCEPT ![n] = where[n]]
  /\ settled' = settled \cup {n}
  /\ UNCHANGED <<message_queues, pushed, where, received, messages, moves, restarts>>

\* Whom the sink takes for the sender of a message from address a.
Author(a) == connected_nodes[a]

\* Where it sends a message for n on to.
Target(n) == nid_to_address[n]

\* send_data to an address: whoever has it gets the message, or nobody does.
Reaches(a, mail) ==
  \/ UNCHANGED received
  \/ \E m \in Nids : /\ where[m] = a
                     /\ received' = [received EXCEPT ![m] = @ \cup {mail}]

(***************************************************************************)
(* _handle_node_to_node: m sends a message for n, whether or not the sink  *)
(* knows either.  It is queued, which nothing ever undoes, and sent on if  *)
(* n has an address.                                                       *)
(***************************************************************************)
HandleNodeToNode_QueuesAbsent(m, n) ==
  /\ where[m] # None
  /\ messages < MaxMessages /\ messages' = messages + 1
  /\ LET entry == [from |-> Author(where[m]), by |-> m, id |-> messages + 1]
     IN \/ /\ Target(n) = None
           /\ message_queues' = [message_queues EXCEPT ![n] = Append(@, entry)]
           /\ UNCHANGED <<pushed, received>>
        \/ /\ Target(n) # None
           /\ pushed' = [pushed EXCEPT ![n] = Append(@, entry)]
           /\ Reaches(Target(n), [to |-> n, id |-> messages + 1])
           /\ UNCHANGED message_queues
  /\ UNCHANGED <<connected_nodes, nid_to_address, where, settled, moves, restarts>>

HandleNodeToNode(m, n) ==
  /\ where[m] # None
  /\ messages < MaxMessages /\ messages' = messages + 1
  /\ LET entry == [from |-> Author(where[m]), by |-> m, id |-> messages + 1]
     IN /\ message_queues' = [message_queues EXCEPT ![n] = Append(@, entry)]
        /\ \/ /\ Target(n) # None
              /\ pushed' = [pushed EXCEPT ![n] = Append(@, entry)]
              /\ Reaches(Target(n), [to |-> n, id |-> messages + 1])
           \/ /\ Target(n) = None
              /\ UNCHANGED <<pushed, received>>
  /\ UNCHANGED <<connected_nodes, nid_to_address, where, settled, moves, restarts>>

\* The process of the sink ends and starts again: all of it is in memory.
Restart ==
  /\ restarts < MaxRestarts /\ restarts' = restarts + 1
  /\ connected_nodes' = [a \in Addresses |-> None]
  /\ nid_to_address' = [n \in Nids |-> None]
  /\ message_queues' = [n \in Nids |-> <<>>]
  /\ pushed' = [n \in Nids |-> <<>>]
  /\ settled' = {}
  /\ UNCHANGED <<where, received, messages, moves>>

Next ==
  \/ \E n \in Nids : \E a \in Addresses \cup {None} : Move(n, a)
  \/ \E n \in Nids : Register(n)
  \/ \E m, n \in Nids : HandleNodeToNode(m, n)
  \/ Restart

Spec == Init /\ [][Next]_vars
-----------------------------------------------------------------------------
(***************************************************************************)
(* Correctness.                                                            *)
(***************************************************************************)

\* What settled means in the sink: both dictionaries agree with the node.
Settled ==
  \A n \in settled : /\ where[n] # None
                     /\ Target(n) = where[n]
                     /\ Author(where[n]) = n

\* Entry number i from the end of a queue.
FromEnd(s, i) == s[Len(s) - i]

(***************************************************************************)
(* However the other nodes came and went, changed addresses or took over   *)
(* the one another node had: a message for a node that is settled reaches  *)
(* no other node, and a message of a settled node is queued under its own  *)
(* name.  Entries that are never taken out of connected_nodes and          *)
(* nid_to_address (sink.py:171-172) serve _handle_node_to_node stale       *)
(* answers only about nodes that are yet to register again.                *)
(***************************************************************************)
SettledAreServed ==
  [][/\ \A m, n \in Nids : \A mail \in received'[m] \ received[m] :
          n \in settled /\ mail.to = n => m = n
     /\ \A n \in Nids : Len(message_queues'[n]) > Len(message_queues[n]) =>
          LET entry == FromEnd(message_queues'[n], 0)
          IN entry.by \in settled => entry.from = entry.by]_vars

(***************************************************************************)
(* What the sink sent on to a node at once is the end of what it queued    *)
(* for it, in that order (sink.py:201-207): once a node is registered no   *)
(* message for it is queued only, and what was queued before it registered *)
(* is never sent at all.                                                   *)
(***************************************************************************)
PushedAreQueued ==
  \A n \in Nids :
    /\ Len(pushed[n]) <= Len(message_queues[n])
    /\ \A i \in 0 .. Len(pushed[n]) - 1 :
         FromEnd(pushed[n], i) = FromEnd(message_queues[n], i)
    /\ Target(n) = None => pushed[n] = <<>>
=============================================================================
