----------------------------- MODULE SinkRegistry -----------------------------
(***************************************************************************)
(* Who the sink believes it serves and who believes to be served: the      *)
(* connected_nodes of sink/sink.py and the uplinks of its nodes, with      *)
(* restarts of the sink.                                                   *)
(*                                                                         *)
(* The registry lives in memory only, and the sink never takes a node out  *)
(* of it.  Its handlers do not suspend, so each is one action.  The        *)
(* attempts of a node are numbered; the number stands for the session of   *)
(* the attempt (module E2ESession) and for the AUTH messages that carry    *)
(* it.  A link keeps the order of its messages but may lose any of them:   *)
(* send_data fails without telling.  Of the node, modules IoTNode and      *)
(* UplinkMonitor have the details.                                         *)
(***************************************************************************)
EXTENDS Naturals

CONSTANTS
  Nodes,         \* bluetooth addresses of the nodes
  MaxAttempts,   \* bound on the attempts of a node
  MaxRestarts    \* bound on the restarts of the sink

ASSUME RegistryAssumption == MaxAttempts \in Nat /\ MaxRestarts \in Nat

VARIABLES
  connected_nodes,  \* node -> attempt whose session the sink has, 0 if none
  restarts,         \* of the sink
  phase,            \* node -> out of the network, waiting for an answer, joined
  attempt,          \* node -> number of its last attempt
  missed,           \* node -> uplink.missed_heartbeats
  heard,            \* node -> a beat came, or it joined, since the last round
  hellos,           \* node -> AUTH messages under way to the sink
  answers,          \* node -> AUTH messages under way to the node
  beats             \* nodes to which a heartbeat is under way

vars == <<connected_nodes, restarts, phase, attempt, missed, heard, hellos,
          answers, beats>>

TypeOK ==
  /\ connected_nodes \in [Nodes -> 0 .. MaxAttempts]
  /\ restarts \in 0 .. MaxRestarts
  /\ phase \in [Nodes -> {"out", "waiting", "joined"}]
  /\ attempt \in [Nodes -> 0 .. MaxAttempts]
  /\ missed \in [Nodes -> 0 .. 2]
  /\ heard \in [Nodes -> BOOLEAN]
  /\ hellos \in [Nodes -> SUBSET (1 .. MaxAttempts)]
  /\ answers \in [Nodes -> SUBSET (1 .. MaxAttempts)]
  /\ beats \subseteq Nodes

Init ==
  /\ connected_nodes = [n \in Nodes |-> 0]
  /\ restarts = 0
  /\ phase = [n \in Nodes |-> "out"]
  /\ attempt = [n \in Nodes |-> 0]
  /\ missed = [n \in Nodes |-> 0]
  /\ heard = [n \in Nodes |-> FALSE]
  /\ hellos = [n \in Nodes |-> {}]
  /\ answers = [n \in Nodes |-> {}]
  /\ beats = {}

\* Numbers grow in the order of sending, so the oldest message is the least.
Oldest(k, under_way) == k \in under_way /\ \A x \in under_way : k <= x

\* A message is sent, or lost.
Sent(k, under_way) == {under_way, under_way \cup {k}}
-----------------------------------------------------------------------------
(***************************************************************************)
(* The nodes.                                                              *)
(***************************************************************************)

\* _try_connect up to wait_for.
TryConnect(n) ==
  /\ phase[n] = "out" /\ attempt[n] < MaxAttempts
  /\ phase' = [phase EXCEPT ![n] = "waiting"]
  /\ attempt' = [attempt EXCEPT ![n] = @ + 1]
  /\ \E h \in Sent(attempt[n] + 1, hellos[n]) : hellos' = [hellos EXCEPT ![n] = h]
  /\ UNCHANGED <<connected_nodes, restarts, missed, heard, answers, beats>>

(***************************************************************************)
(* _handle_auth_response and the end of _try_connect.  The answer to an    *)
(* earlier attempt does not pass complete_handshake and ends this one; an  *)
(* answer nobody waits for is dropped.                                     *)
(***************************************************************************)
HandleAuthResponse_AnyAttempt(n, k) ==
  /\ Oldest(k, answers[n])
  /\ answers' = [answers EXCEPT ![n] = @ \ {k}]
  /\ \/ /\ phase[n] = "waiting"
        /\ phase' = [phase EXCEPT ![n] = "joined"]
        /\ missed' = [missed EXCEPT ![n] = 0]
        /\ heard' = [heard EXCEPT ![n] = TRUE]
     \/ phase[n] # "waiting" /\ UNCHANGED <<phase, missed, heard>>
  /\ UNCHANGED <<connected_nodes, restarts, attempt, hellos, beats>>

HandleAuthResponse_AfterTimeout(n, k) ==
  /\ Oldest(k, answers[n])
  /\ answers' = [answers EXCEPT ![n] = @ \ {k}]
  /\ \/ /\ phase[n] # "joined" /\ k = attempt[n]
        /\ phase' = [phase EXCEPT ![n] = "joined"]
        /\ missed' = [missed EXCEPT ![n] = 0]
        /\ heard' = [heard EXCEPT ![n] = TRUE]
     \/ /\ phase[n] = "waiting" /\ k # attempt[n]
        /\ phase' = [phase EXCEPT ![n] = "out"]
        /\ UNCHANGED <<missed, heard>>
     \/ phase[n] = "joined" /\ UNCHANGED <<phase, missed, heard>>
  /\ UNCHANGED <<connected_nodes, restarts, attempt, hellos, beats>>

HandleAuthResponse(n, k) ==
  /\ Oldest(k, answers[n])
  /\ answers' = [answers EXCEPT ![n] = @ \ {k}]
  /\ \/ /\ phase[n] = "waiting" /\ k = attempt[n]
        /\ phase' = [phase EXCEPT ![n] = "joined"]
        /\ missed' = [missed EXCEPT ![n] = 0]
        /\ heard' = [heard EXCEPT ![n] = TRUE]
     \/ /\ phase[n] = "waiting" /\ k # attempt[n]
        /\ phase' = [phase EXCEPT ![n] = "out"]
        /\ UNCHANGED <<missed, heard>>
     \/ phase[n] # "waiting" /\ UNCHANGED <<phase, missed, heard>>
  /\ UNCHANGED <<connected_nodes, restarts, attempt, hellos, beats>>

\* wait_for gives up after 10 s.
Timeout(n) ==
  /\ phase[n] = "waiting"
  /\ phase' = [phase EXCEPT ![n] = "out"]
  /\ UNCHANGED <<connected_nodes, restarts, attempt, missed, heard, hellos,
                 answers, beats>>

\* _handle_heartbeat: a node without uplink drops the beat.
HandleHeartbeat(n) ==
  /\ n \in beats
  /\ beats' = beats \ {n}
  /\ IF phase[n] = "joined"
     THEN missed' = [missed EXCEPT ![n] = 0] /\ heard' = [heard EXCEPT ![n] = TRUE]
     ELSE UNCHANGED <<missed, heard>>
  /\ UNCHANGED <<connected_nodes, restarts, phase, attempt, hellos, answers>>

(***************************************************************************)
(* A round of _heartbeat_monitor of a node that joined.  It sleeps one     *)
(* interval, so a round without a beat since the last one is late; one     *)
(* with a beat may be.  At the third miss the node leaves and, after the   *)
(* recovery, may try again.                                                *)
(***************************************************************************)
MonitorRound(n, late) ==
  /\ phase[n] = "joined"
  /\ ~heard[n] => late
  /\ heard' = [heard EXCEPT ![n] = FALSE]
  /\ \/ /\ late /\ missed[n] = 2
        /\ phase' = [phase EXCEPT ![n] = "out"]
        /\ missed' = [missed EXCEPT ![n] = 0]
     \/ /\ late /\ missed[n] < 2
        /\ missed' = [missed EXCEPT ![n] = @ + 1]
        /\ UNCHANGED phase
     \/ ~late /\ UNCHANGED <<phase, missed>>
  /\ UNCHANGED <<connected_nodes, restarts, attempt, hellos, answers, beats>>

\* A recovery for another reason: a cascade notice of the uplink, or the command.
EnterRecovery(n) ==
  /\ phase[n] = "joined"
  /\ phase' = [phase EXCEPT ![n] = "out"]
  /\ missed' = [missed EXCEPT ![n] = 0]
  /\ UNCHANGED <<connected_nodes, restarts, attempt, heard, hellos, answers, beats>>
-----------------------------------------------------------------------------
(***************************************************************************)
(* The sink.                                                               *)
(***************************************************************************)
HandleAuth_Newest(n, k) ==
  /\ k \in hellos[n] /\ \A x \in hellos[n] : k >= x
  /\ hellos' = [hellos EXCEPT ![n] = @ \ {k}]
  /\ connected_nodes' = [connected_nodes EXCEPT ![n] = k]
  /\ \E a \in Sent(k, answers[n]) : answers' = [answers EXCEPT ![n] = a]
  /\ UNCHANGED <<restarts, phase, attempt, missed, heard, beats>>

\* _handle_auth: a node that is known is registered anew.
HandleAuth(n, k) ==
  /\ Oldest(k, hellos[n])
  /\ hellos' = [hellos EXCEPT ![n] = @ \ {k}]
  /\ connected_nodes' = [connected_nodes EXCEPT ![n] = k]
  /\ \E a \in Sent(k, answers[n]) : answers' = [answers EXCEPT ![n] = a]
  /\ UNCHANGED <<restarts, phase, attempt, missed, heard, beats>>

\* A round of _heartbeat_loop: a beat to everyone in connected_nodes.
HeartbeatRound_Everyone ==
  /\ \E lost \in SUBSET Nodes : beats' = beats \cup (Nodes \ lost)
  /\ UNCHANGED <<connected_nodes, restarts, phase, attempt, missed, heard,
                 hellos, answers>>

HeartbeatRound ==
  /\ \E lost \in SUBSET Nodes :
       beats' = beats \cup {n \in Nodes \ lost : connected_nodes[n] # 0}
  /\ UNCHANGED <<connected_nodes, restarts, phase, attempt, missed, heard,
                 hellos, answers>>

\* The process of the sink ends and starts again; what was under way to it is
\* lost, what it sent may still arrive.
Restart ==
  /\ restarts < MaxRestarts
  /\ restarts' = restarts + 1
  /\ connected_nodes' = [n \in Nodes |-> 0]
  /\ hellos' = [n \in Nodes |-> {}]
  /\ UNCHANGED <<phase, attempt, missed, heard, answers, beats>>

Node(n) ==
  \/ TryConnect(n)
  \/ \E k \in answers[n] : HandleAuthResponse(n, k)
  \/ Timeout(n)
  \/ HandleHeartbeat(n)
  \/ \E late \in BOOLEAN : MonitorRound(n, late)
  \/ EnterRecovery(n)

Sink ==
  \/ \E n \in Nodes : \E k \in hellos[n] : HandleAuth(n, k)
  \/ HeartbeatRound
  \/ Restart

Next == Sink \/ \E n \in Nodes : Node(n)

Spec == Init /\ [][Next]_vars

\* The monitor's sleep ends.  Nothing is assumed of the sink and the radio.
Fairness == \A n \in Nodes : WF_vars(\E late \in BOOLEAN : MonitorRound(n, late))

FairSpec == Spec /\ Fairness
-----------------------------------------------------------------------------
(***************************************************************************)
(* Properties.                                                             *)
(***************************************************************************)

(***************************************************************************)
(* The sink has the session of a node that joined, not that of an attempt  *)
(* the node gave up, also when hellos and answers of several attempts are  *)
(* under way; only a sink that restarted may know nothing of the node      *)
(* (sink.py:171, node.py:205-224).                                         *)
(***************************************************************************)
SessionsMatch ==
  \A n \in Nodes :
    phase[n] = "joined" =>
      \/ connected_nodes[n] = attempt[n]
      \/ connected_nodes[n] = 0 /\ restarts > 0

(***************************************************************************)
(* A registration is never replaced by one of an earlier attempt           *)
(* (sink.py:153-172).                                                      *)
(***************************************************************************)
RegistrationsMoveOn ==
  [][\A n \in Nodes : connected_nodes'[n] \in {0} \cup connected_nodes[n] .. attempt[n]]_vars

(***************************************************************************)
(* A node does not go on for ever believing in a sink that forgot it in a  *)
(* restart: beats may still be under way, but then its monitor hears       *)
(* nothing more and gives the uplink up (sink.py:58, 110; node.py:463).    *)
(***************************************************************************)
ForgottenNodeLeaves ==
  \A n \in Nodes :
    phase[n] = "joined" /\ connected_nodes[n] = 0 ~> phase[n] # "joined"

(***************************************************************************)
(* Each node is a member as IoTNode shows a node to be: what the registry  *)
(* is checked against here is no more than the node's code gives, late     *)
(* answers and restarts of the sink included (node.py:205-224, 463-471).   *)
(***************************************************************************)
Member(n) == INSTANCE Membership
               WITH phase  <- IF phase[n] = "waiting" THEN "trying" ELSE phase[n],
                    missed <- missed[n]

AreMembers ==
  /\ \A n \in Nodes : Member(n)!Init
  /\ [][\A n \in Nodes : [Member(n)!Next]_<<phase[n], missed[n]>>]_vars
=============================================================================
