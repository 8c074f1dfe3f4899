---------------------------- MODULE UplinkMonitor ----------------------------
(***************************************************************************)
(* Heartbeats in time: the sink's _heartbeat_loop, HeartbeatManager on     *)
(* both sides, and the node's _handle_heartbeat and _heartbeat_monitor,    *)
(* from the moment a node joined to the recovery that gives the uplink up. *)
(*                                                                         *)
(* The two loops sleep HEARTBEAT_INTERVAL after their work, so their phase *)
(* is arbitrary and each round may run a little late.  Timestamps are the  *)
(* sink's clock and compared with one another only.  A sink may stop at    *)
(* any time; while it runs at most MaxLoss beats in a row get lost.        *)
(***************************************************************************)
EXTENDS Integers

CONSTANTS
  Interval,    \* HEARTBEAT_INTERVAL
  SinkLag,     \* how late a round of the sink's loop may run
  NodeLag,     \* how late a round of the node's monitor may run
  MaxDelay,    \* longest time from sending a beat to handling it
  MaxLoss,     \* beats in a row that may get lost
  Tolerance,   \* the 60 s of verify_heartbeat
  MaxTime      \* bound on the clock

ASSUME MonitorAssumption ==
  /\ Interval \in Nat \ {0}
  /\ SinkLag \in Nat /\ NodeLag \in Nat /\ MaxDelay \in Nat
  /\ MaxLoss \in Nat /\ Tolerance \in Nat /\ MaxTime \in Nat

VARIABLES
  now,             \* the clock
  alive,           \* the sink's loop runs
  beat_at,         \* when its sleep ends
  last_good,       \* when it last sent a beat that was not lost
  lost,            \* beats lost since
  flying,          \* timestamps of the beats under way
  last_timestamp,  \* hb_manager.last_timestamp of the node
  last_heartbeat,  \* uplink.last_heartbeat
  missed,          \* uplink.missed_heartbeats
  check_at,        \* when the sleep of the monitor ends
  joined           \* uplink is set and state is NETWORK_JOINED

sink == <<alive, beat_at, last_good, lost>>
node == <<last_timestamp, last_heartbeat, missed, check_at, joined>>
vars == <<now, sink, flying, node>>

TypeOK ==
  /\ now \in Nat /\ beat_at \in Nat /\ last_good \in Nat /\ check_at \in Nat
  /\ last_timestamp \in Nat /\ last_heartbeat \in Nat
  /\ alive \in BOOLEAN /\ joined \in BOOLEAN
  /\ lost \in 0 .. MaxLoss
  /\ missed \in 0 .. 2
  /\ flying \subseteq 0 .. now

\* _try_connect has just made the sink the uplink, with a new hb_manager.
Init ==
  /\ now = 0 /\ last_good = 0 /\ last_timestamp = 0 /\ last_heartbeat = 0
  /\ alive = TRUE /\ joined = TRUE
  /\ lost = 0 /\ missed = 0 /\ flying = {}
  /\ beat_at \in 0 .. Interval
  /\ check_at \in 0 .. Interval
-----------------------------------------------------------------------------
(***************************************************************************)
(* The sink.                                                               *)
(***************************************************************************)

\* One round of _heartbeat_loop: create_heartbeat stamps the beat, send_data
\* writes it, or fails without telling.
SendBeat ==
  /\ alive /\ now >= beat_at
  /\ beat_at' = now + Interval
  /\ \/ /\ flying' = flying \cup {now}
        /\ last_good' = now /\ lost' = 0
     \/ /\ lost < MaxLoss
        /\ lost' = lost + 1
        /\ UNCHANGED <<flying, last_good>>
  /\ UNCHANGED <<now, alive, node>>

\* The sink goes out of reach or stops.
Stop ==
  /\ alive
  /\ alive' = FALSE
  /\ UNCHANGED <<now, beat_at, last_good, lost, flying, node>>
-----------------------------------------------------------------------------
(***************************************************************************)
(* The node.                                                               *)
(***************************************************************************)

\* verify_heartbeat: a beat may be out of order by Tolerance.
IsValid_InOrder(ts) == ts >= last_timestamp

IsValid(ts) == ts >= last_timestamp - Tolerance

HandleHeartbeat_KeepsMisses(ts) ==
  /\ ts \in flying /\ joined
  /\ flying' = flying \ {ts}
  /\ IF IsValid(ts)
     THEN /\ last_timestamp' = IF ts > last_timestamp THEN ts ELSE last_timestamp
          /\ last_heartbeat' = now
     ELSE UNCHANGED <<last_timestamp, last_heartbeat>>
  /\ UNCHANGED <<now, sink, missed, check_at, joined>>

\* _handle_heartbeat: last_heartbeat is the time of arrival.
HandleHeartbeat(ts) ==
  /\ ts \in flying /\ joined
  /\ flying' = flying \ {ts}
  /\ IF IsValid(ts)
     THEN /\ last_timestamp' = IF ts > last_timestamp THEN ts ELSE last_timestamp
          /\ last_heartbeat' = now
          /\ missed' = 0
     ELSE UNCHANGED <<last_timestamp, last_heartbeat, missed>>
  /\ UNCHANGED <<now, sink, check_at, joined>>

(***************************************************************************)
(* One round of _heartbeat_monitor; the third miss enters a recovery.      *)
(***************************************************************************)
Misses_NotStrict == missed + (IF now - last_heartbeat >= Interval THEN 1 ELSE 0)

Misses == missed + (IF now - last_heartbeat > Interval THEN 1 ELSE 0)

MonitorRound_FourMisses ==
  /\ joined /\ now >= check_at
  /\ check_at' = now + Interval
  /\ IF Misses > 3
     THEN joined' = FALSE /\ missed' = 0
     ELSE joined' = TRUE /\ missed' = Misses
  /\ UNCHANGED <<now, sink, flying, last_timestamp, last_heartbeat>>

MonitorRound ==
  /\ joined /\ now >= check_at
  /\ check_at' = now + Interval
  /\ IF Misses >= 3
     THEN joined' = FALSE /\ missed' = 0
     ELSE joined' = TRUE /\ missed' = Misses
  /\ UNCHANGED <<now, sink, flying, last_timestamp, last_heartbeat>>

\* Time passes, but not over a round that is due or a beat that is under way.
Tick ==
  /\ joined /\ now < MaxTime
  /\ alive => now < beat_at + SinkLag
  /\ now < check_at + NodeLag
  /\ \A ts \in flying : now < ts + MaxDelay
  /\ now' = now + 1
  /\ UNCHANGED <<sink, flying, node>>

Next ==
  \/ SendBeat
  \/ Stop
  \/ \E ts \in flying : HandleHeartbeat(ts)
  \/ MonitorRound
  \/ Tick

Spec == Init /\ [][Next]_vars
-----------------------------------------------------------------------------
(***************************************************************************)
(* Properties.                                                             *)
(***************************************************************************)

(***************************************************************************)
(* The monitor is a failure detector: it needs more than HEARTBEAT_TIMEOUT *)
(* = 3 * HEARTBEAT_INTERVAL of silence to give the uplink up, and gives it *)
(* up after 4 * HEARTBEAT_INTERVAL and three late rounds at the latest,    *)
(* although it only looks every HEARTBEAT_INTERVAL, at a phase of its own  *)
(* (constants.py:13-14, node.py:458-471).                                  *)
(***************************************************************************)
Detector == INSTANCE FailureDetector
              WITH Low <- 3 * Interval, High <- 4 * Interval + 3 * NodeLag,
                   heard <- last_heartbeat

DetectsFailure == Detector!Spec

(***************************************************************************)
(* A node does not believe for longer in a sink that stopped: counted from *)
(* the last beat that got out, however long that one and others before it  *)
(* were under way and in whichever order they came (node.py:430-471,       *)
(* protocol.py:192-203).                                                   *)
(***************************************************************************)
DeadSinkIsLeft ==
  joined => now - last_good <= 4 * Interval + 3 * NodeLag + MaxDelay

(***************************************************************************)
(* Whatever the clock says, the monitor and the beats move the node as     *)
(* module Membership lets a joined node move: times add nothing to what    *)
(* the rest of the network relies on (node.py:430-471).                    *)
(***************************************************************************)
Member == INSTANCE Membership
            WITH phase <- IF joined THEN "joined" ELSE "out"

StaysMember == [][Member!Next]_<<joined, missed>>

\* How long the node may hear nothing from a sink that is alive.
MaxSilence == (MaxLoss + 1) * (Interval + SinkLag) + MaxDelay

\* The radio is good enough for the timeout.
Calm == MaxSilence <= 3 * Interval /\ MaxDelay <= Tolerance

(***************************************************************************)
(* While the sink is alive and the radio is calm the node does not give it *)
(* up, whatever the phase of the two loops and the order of the beats.     *)
(***************************************************************************)
NoFalseAlarm == Calm /\ alive => joined

(***************************************************************************)
(* A genuine beat is not taken for a replay because a later one overtook   *)
(* it, as long as the network delays beats by the tolerance at most        *)
(* (protocol.py:197-200).                                                  *)
(***************************************************************************)
GenuineAccepted ==
  MaxDelay <= Tolerance => \A ts \in flying : IsValid(ts)
=============================================================================
