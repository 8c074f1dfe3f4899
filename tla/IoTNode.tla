------------------------------- MODULE IoTNode -------------------------------
(***************************************************************************)
(* The life cycle of a node: class IoTNode of node/node.py with the        *)
(* connection bookkeeping of common/bluez_interface.py.                    *)
(*                                                                         *)
(* All coroutines of the node share one event loop.  The BLE coroutines    *)
(* never suspend (they call D-Bus and time.sleep synchronously), so the    *)
(* only places where a task lets others run are wait_for(auth_future, 10)  *)
(* and sleep(3): everything from one such place to the next is one action. *)
(* SCANNING and CONNECTING exist only inside an action.  self.downlinks is *)
(* never given an element, so the loops over it do nothing.                *)
(*                                                                         *)
(* Wired names the entry points that reach the loop.  In the program as    *)
(* committed it is empty: the GUI thread's create_task raises for want of  *)
(* a running loop (node.py:557-564), and the handler of cascade notices    *)
(* adds the magic a second time, so that it never recognises its uplink    *)
(* (node.py:392-404).  KeepsSession says whether _current_e2e, read at     *)
(* node.py:293 and assigned nowhere, is the session of the last attempt.   *)
(***************************************************************************)
EXTENDS FiniteSets, Naturals

CONSTANTS
  Devices,        \* bluetooth addresses of the sinks around
  Callers,        \* tasks that carry a GUI command or a message handler
  Main,           \* the task of main()
  Monitor,        \* the task of _heartbeat_monitor
  None,           \* Python's None
  Wired,          \* subset of {"join", "leave", "cascade"}
  KeepsSession    \* BOOLEAN

Tasks == Callers \cup {Main, Monitor}

ASSUME NodeAssumption ==
  /\ Main # Monitor /\ Main \notin Callers /\ Monitor \notin Callers
  /\ None \notin Devices \cup Tasks
  /\ \A a \in Devices, k \in 0 .. 2 : None # [address |-> a, missed |-> k]
  /\ Wired \subseteq {"join", "leave", "cascade"}
  /\ KeepsSession \in BOOLEAN

VARIABLES
  state,            \* self.state
  uplink,           \* self.uplink: address and missed_heartbeats, or None
  sink_public_key,  \* self.sink_public_key: the device whose key it is, or None
  pending_auth,     \* the task that created self._pending_auth, or None
  linked,           \* keys of BlueZInterface.connected_devices
  pc,               \* task -> where it is suspended
  dev,              \* task -> device of its current attempt
  rest,             \* task -> devices found and not yet tried
  answers           \* AUTH answers not yet handled, each to a task's current
                    \* attempt, or to None when that attempt is over

vars == <<state, uplink, sink_public_key, pending_auth, linked, pc, dev, rest,
          answers>>

States == {"DISCONNECTED", "AUTHENTICATING", "NETWORK_JOINED", "RECOVERING"}

Link == [address : Devices, missed : 0 .. 2]

Answer == [from : Devices, to : Tasks \cup {None}]

(***************************************************************************)
(* A task waits for its future, holds a future that got a result or an     *)
(* exception but has not resumed yet, sleeps in a recovery, or runs        *)
(* nothing of this.  A task that left the waiting place has a future that  *)
(* is done, so pc also says whether _pending_auth is.                      *)
(***************************************************************************)
Trying(t) == pc[t] \in {"waiting", "answered", "failed"}
Busy(t) == Trying(t) \/ pc[t] = "sleeping"
PendingDone == pending_auth = None \/ pc[pending_auth] # "waiting"

TypeOK ==
  /\ state \in States
  /\ uplink \in Link \cup {None}
  /\ sink_public_key \in Devices \cup {None}
  /\ pending_auth \in Tasks \cup {None}
  /\ linked \subseteq Devices
  /\ pc \in [Tasks -> {"starting", "idle", "waiting", "answered", "failed", "sleeping"}]
  /\ dev \in [Tasks -> Devices \cup {None}]
  /\ rest \in [Tasks -> SUBSET Devices]
  /\ answers \subseteq Answer

\* The tasks of initialize() run; main() joins if --auto-join was given.
Init ==
  /\ state = "DISCONNECTED"
  /\ uplink = None
  /\ sink_public_key = None
  /\ pending_auth = None
  /\ linked = {}
  /\ \E first \in {"starting", "idle"} :
       pc = [t \in Tasks |-> IF t = Main THEN first ELSE "idle"]
  /\ dev = [t \in Tasks |-> None]
  /\ rest = [t \in Tasks |-> {}]
  /\ answers = {}
-----------------------------------------------------------------------------
(***************************************************************************)
(* BlueZInterface.                                                         *)
(***************************************************************************)

\* scan_devices returns the devices whose InterfacesAdded it saw.  A scan
\* that raises ends the join as one that finds nothing does.
Scans == SUBSET Devices

\* connect_device on several devices that all fail: one that fails after
\* Connect() (while discovering characteristics) stays in the dictionary.
AfterFailedConnects(failed, links) == {links \cup left : left \in SUBSET failed}

\* disconnect_device: the entry stays when Disconnect() raises.
AfterDisconnect(a, links) == {links, links \ {a}}

(***************************************************************************)
(* join_network and _try_connect.                                          *)
(***************************************************************************)

\* The attempt of t is over: an answer to it is an answer to nobody.
Late(t) == {IF m.to = t THEN [m EXCEPT !.to = None] ELSE m : m \in answers}

\* _try_connect(d) gets as far as wait_for, after the devices in `skipped'
\* could not be connected.
Attempt_KeepsFuture(t, d, skipped, candidates, links) ==
  /\ state' = "AUTHENTICATING"
  /\ pending_auth' = IF pending_auth = None THEN t ELSE pending_auth
  /\ pc' = [pc EXCEPT ![t] = "waiting"]
  /\ dev' = [dev EXCEPT ![t] = d]
  /\ rest' = [rest EXCEPT ![t] = candidates \ (skipped \cup {d})]
  /\ \E l \in AfterFailedConnects(skipped, links) : linked' = l \cup {d}
  /\ answers' = Late(t) \cup {[from |-> d, to |-> t]}

Attempt(t, d, skipped, candidates, links) ==
  /\ state' = "AUTHENTICATING"
  /\ pending_auth' = t
  /\ pc' = [pc EXCEPT ![t] = "waiting"]
  /\ dev' = [dev EXCEPT ![t] = d]
  /\ rest' = [rest EXCEPT ![t] = candidates \ (skipped \cup {d})]
  /\ \E l \in AfterFailedConnects(skipped, links) : linked' = l \cup {d}
  /\ answers' = Late(t) \cup {[from |-> d, to |-> t]}

\* No device of the list can be connected: the join returns False.
NoDevice_KeepsState(t, candidates, links) ==
  /\ state' = IF state = "AUTHENTICATING" THEN state ELSE "DISCONNECTED"
  /\ pc' = [pc EXCEPT ![t] = "idle"]
  /\ dev' = [dev EXCEPT ![t] = None]
  /\ rest' = [rest EXCEPT ![t] = {}]
  /\ linked' \in AfterFailedConnects(candidates, links)
  /\ answers' = Late(t)
  /\ UNCHANGED pending_auth

NoDevice(t, candidates, links) ==
  /\ state' = "DISCONNECTED"
  /\ pc' = [pc EXCEPT ![t] = "idle"]
  /\ dev' = [dev EXCEPT ![t] = None]
  /\ rest' = [rest EXCEPT ![t] = {}]
  /\ linked' \in AfterFailedConnects(candidates, links)
  /\ answers' = Late(t)
  /\ UNCHANGED pending_auth

\* The loop over the devices, up to the next suspension or the end.
TryDevices(t, candidates, links) ==
  /\ \/ \E d \in candidates : \E skipped \in SUBSET (candidates \ {d}) :
          Attempt(t, d, skipped, candidates, links)
     \/ NoDevice(t, candidates, links)
  /\ UNCHANGED <<uplink, sink_public_key>>

\* join_network, called by a task that runs nothing else.
JoinNetwork(t) ==
  \/ /\ state \in {"DISCONNECTED", "RECOVERING"}
     /\ \E found \in Scans : TryDevices(t, found, linked)
  \/ /\ state \notin {"DISCONNECTED", "RECOVERING"}
     /\ pc' = [pc EXCEPT ![t] = "idle"]
     /\ UNCHANGED <<state, uplink, sink_public_key, pending_auth, linked, dev,
                    rest, answers>>

AutoJoin ==
  /\ pc[Main] = "starting"
  /\ JoinNetwork(Main)

(***************************************************************************)
(* wait_for returned: the attempt made its device the uplink.              *)
(***************************************************************************)
Joined_FallsThrough(t) ==
  /\ pc[t] = "answered"
  /\ uplink' = [address |-> dev[t], missed |-> 0]
  /\ state' = "NETWORK_JOINED"
  /\ pc' = [pc EXCEPT ![t] = "idle"]
  /\ dev' = [dev EXCEPT ![t] = None]
  /\ rest' = [rest EXCEPT ![t] = {}]
  /\ linked' = linked \ {dev[t]}
  /\ UNCHANGED <<sink_public_key, pending_auth, answers>>

Joined(t) ==
  /\ pc[t] = "answered"
  /\ uplink' = [address |-> dev[t], missed |-> 0]
  /\ state' = "NETWORK_JOINED"
  /\ pc' = [pc EXCEPT ![t] = "idle"]
  /\ dev' = [dev EXCEPT ![t] = None]
  /\ rest' = [rest EXCEPT ![t] = {}]
  /\ UNCHANGED <<sink_public_key, pending_auth, linked, answers>>

(***************************************************************************)
(* The future raised, or 10 s went by and wait_for cancelled it (a future  *)
(* that is done when the task resumes counts as done, not as timed out):   *)
(* the device is disconnected and the loop goes on with the next one.      *)
(***************************************************************************)
AttemptFailed_NoTimeout(t) ==
  /\ pc[t] = "failed"
  /\ \E links \in AfterDisconnect(dev[t], linked) : TryDevices(t, rest[t], links)

AttemptFailed(t) ==
  /\ pc[t] \in {"failed", "waiting"}
  /\ \E links \in AfterDisconnect(dev[t], linked) : TryDevices(t, rest[t], links)

(***************************************************************************)
(* _handle_auth_response.  Whatever device the message comes from, it is   *)
(* taken for the answer to the pending attempt.  It may be ignored (the    *)
(* certificate is not a sink's), raise before the key is stored, or raise  *)
(* after it: complete_handshake checks a signature over the ClientHello of *)
(* the last attempt, which only an answer to that attempt carries.         *)
(***************************************************************************)
HandleAuthResponse_AnyTime(m) ==
  /\ answers' = answers \ {m}
  /\ sink_public_key' = m.from
  /\ pc' = IF PendingDone THEN pc ELSE
             [pc EXCEPT ![pending_auth] =
                IF m.to = pending_auth THEN "answered" ELSE "failed"]
  /\ UNCHANGED <<state, uplink, pending_auth, linked, dev, rest>>

HandleAuthResponse(m) ==
  /\ answers' = answers \ {m}
  /\ \/ UNCHANGED <<sink_public_key, pc>>
     \/ /\ ~PendingDone
        /\ pc' = [pc EXCEPT ![pending_auth] = "failed"]
        /\ UNCHANGED sink_public_key
     \/ /\ ~PendingDone
        /\ sink_public_key' = m.from
        /\ \/ ~KeepsSession /\ UNCHANGED pc
           \/ /\ KeepsSession /\ m.to = pending_auth
              /\ pc' = [pc EXCEPT ![pending_auth] = "answered"]
           \/ /\ KeepsSession
              /\ pc' = [pc EXCEPT ![pending_auth] = "failed"]
  /\ UNCHANGED <<state, uplink, pending_auth, linked, dev, rest>>
-----------------------------------------------------------------------------
(***************************************************************************)
(* _enter_recovery_state, up to its sleep.  The key of the lost sink stays.*)
(***************************************************************************)
EnterRecovery_UplinkLater(t) ==
  /\ state # "RECOVERING"
  /\ state' = "RECOVERING"
  /\ pc' = [pc EXCEPT ![t] = "sleeping"]
  /\ UNCHANGED <<uplink, linked, sink_public_key, pending_auth, dev, rest, answers>>

EnterRecovery_StateLater(t) ==
  /\ state # "RECOVERING"
  /\ uplink' = None
  /\ linked' \in IF uplink = None THEN {linked}
                 ELSE AfterDisconnect(uplink.address, linked)
  /\ pc' = [pc EXCEPT ![t] = "sleeping"]
  /\ UNCHANGED <<state, sink_public_key, pending_auth, dev, rest, answers>>

EnterRecovery(t) ==
  /\ state # "RECOVERING"
  /\ state' = "RECOVERING"
  /\ uplink' = None
  /\ linked' \in IF uplink = None THEN {linked}
                 ELSE AfterDisconnect(uplink.address, linked)
  /\ pc' = [pc EXCEPT ![t] = "sleeping"]
  /\ UNCHANGED <<sink_public_key, pending_auth, dev, rest, answers>>

\* After sleep(3): state is set to DISCONNECTED, so that join_network goes on.
\* running is never cleared.
Rejoin(t) ==
  /\ pc[t] = "sleeping"
  /\ \E found \in Scans : TryDevices(t, found, linked)

(***************************************************************************)
(* _heartbeat_monitor: one round.  `late' is elapsed > HEARTBEAT_INTERVAL. *)
(***************************************************************************)
MonitorRound_NeverLost(late) ==
  /\ pc[Monitor] = "idle"
  /\ uplink # None /\ state = "NETWORK_JOINED"
  /\ uplink' = [uplink EXCEPT !.missed = @ + (IF late THEN 1 ELSE 0)]
  /\ UNCHANGED <<state, sink_public_key, pending_auth, linked, pc, dev, rest, answers>>

MonitorRound(late) ==
  /\ pc[Monitor] = "idle"
  /\ uplink # None /\ state = "NETWORK_JOINED"
  /\ LET missed == uplink.missed + (IF late THEN 1 ELSE 0)
     IN \/ /\ missed < 3
           /\ uplink' = [uplink EXCEPT !.missed = missed]
           /\ UNCHANGED <<state, sink_public_key, pending_auth, linked, pc, dev,
                          rest, answers>>
        \/ missed >= 3 /\ EnterRecovery(Monitor)

\* _handle_heartbeat: a beat of device a verifies under the key of a only.
HandleHeartbeat(a) ==
  /\ uplink # None /\ uplink.address = a
  /\ sink_public_key = a
  /\ uplink' = [uplink EXCEPT !.missed = 0]
  /\ UNCHANGED <<state, sink_public_key, pending_auth, linked, pc, dev, rest, answers>>

\* _handle_cascade_disconnect with the nid of the uplink.
HandleCascade_Unchecked(t) ==
  /\ "cascade" \in Wired /\ pc[t] = "idle"
  /\ EnterRecovery(t)

HandleCascade(t) ==
  /\ "cascade" \in Wired /\ pc[t] = "idle"
  /\ uplink # None
  /\ EnterRecovery(t)

\* _gui_command "join"; "leave" and "force_recover".
JoinCommand(t) ==
  /\ "join" \in Wired /\ pc[t] = "idle"
  /\ JoinNetwork(t)

LeaveCommand(t) ==
  /\ "leave" \in Wired /\ pc[t] = "idle"
  /\ EnterRecovery(t)

\* What a task does when the loop resumes it.
Resume(t) == Joined(t) \/ AttemptFailed(t) \/ Rejoin(t)

Next ==
  \/ AutoJoin
  \/ \E t \in Tasks : Resume(t)
  \/ \E t \in Callers : HandleCascade(t) \/ JoinCommand(t) \/ LeaveCommand(t)
  \/ \E m \in answers : HandleAuthResponse(m)
  \/ \E late \in BOOLEAN : MonitorRound(late)
  \/ \E a \in Devices : HandleHeartbeat(a)

Spec == Init /\ [][Next]_vars

\* A task whose timer expired or whose future is done is resumed.
Fairness == WF_vars(AutoJoin) /\ \A t \in Tasks : WF_vars(Resume(t))

FairSpec == Spec /\ Fairness
-----------------------------------------------------------------------------
(***************************************************************************)
(* Properties.  The ones from UplinkIffJoined to IsMember are about the    *)
(* program without the user's join and leave commands; those before them   *)
(* hold with the commands too.                                             *)
(***************************************************************************)

(***************************************************************************)
(* Whoever sees NETWORK_JOINED finds an uplink, also when a command cuts   *)
(* into an attempt or a recovery (node.py:212-223, 423-446).               *)
(***************************************************************************)
JoinedHasUplink == state = "NETWORK_JOINED" => uplink # None

(***************************************************************************)
(* No attempt and no recovery holds its task for ever, whatever devices    *)
(* and users do, even when another task took the _pending_auth slot: in    *)
(* particular the monitor gets back to its loop (node.py:209, 452-471).    *)
(***************************************************************************)
EveryTaskReturns == \A t \in Tasks : Busy(t) ~> ~Busy(t)

(***************************************************************************)
(* Nor does the node stay half joined: it gets to DISCONNECTED or          *)
(* NETWORK_JOINED, although joins and recoveries write state without       *)
(* looking at what another task made of it (node.py:174, 423, 454).        *)
(***************************************************************************)
Settles ==
  state \in {"AUTHENTICATING", "RECOVERING"} ~>
    state \in {"DISCONNECTED", "NETWORK_JOINED"}

(***************************************************************************)
(* A half joined node has a task that will finish what it is in, even when *)
(* commands, recoveries and attempts write state over one another: never   *)
(* does the last one go away and leave AUTHENTICATING or RECOVERING behind *)
(* (node.py:174, 205-235, 423, 452-456).                                   *)
(***************************************************************************)
NeverStranded ==
  state \in {"AUTHENTICATING", "RECOVERING"} => \E t \in Tasks : Busy(t)

(***************************************************************************)
(* A join goes through what its scan found once: however attempts, answers *)
(* to others and recoveries overlap, each next device is one not tried     *)
(* yet, and a task in a join starts no recovery (node.py:162-171,          *)
(* 205-235, 463).                                                          *)
(***************************************************************************)
JoinMovesOn ==
  [][\A t \in Tasks :
       /\ Trying(t) /\ Trying(t)' =>
            \/ UNCHANGED <<dev[t], rest[t]>>
            \/ dev'[t] \in rest[t] /\ rest'[t] \subseteq rest[t] \ {dev'[t], dev[t]}
       /\ Trying(t) => pc'[t] # "sleeping"]_vars

(***************************************************************************)
(* A wait succeeds only by the answer to that attempt, given by the device *)
(* of that attempt, although there is one slot for all tasks and answers   *)
(* come late, from any device, and after the slot changed hands            *)
(* (node.py:205-209, 272-309).                                             *)
(***************************************************************************)
AnsweredByOwnDevice ==
  [][\A t \in Tasks :
       pc[t] # "answered" /\ pc'[t] = "answered" =>
         [from |-> dev[t], to |-> t] \in answers \ answers']_vars

NoCommands == Wired \cap {"join", "leave"} = {}

(***************************************************************************)
(* The two records of being in the network agree: state and uplink are     *)
(* written at different places by main, monitor and handlers, and the      *)
(* handlers test one or the other (node.py:311, 404, 463).                 *)
(***************************************************************************)
UplinkIffJoined == uplink # None <=> state = "NETWORK_JOINED"

(***************************************************************************)
(* At most one task is inside a join or a recovery, although main, the     *)
(* monitor and every cascade handler may start one and hold it across      *)
(* suspensions (node.py:155, 209, 420, 452).                               *)
(***************************************************************************)
OneJoinAtATime == \A t, u \in Tasks : Busy(t) /\ Busy(u) => t = u

(***************************************************************************)
(* Nobody waits for a future that answers can no longer reach: the one     *)
(* _pending_auth slot belongs to the task that waits (node.py:205-209).    *)
(***************************************************************************)
WaiterIsReachable == \A t \in Tasks : pc[t] = "waiting" => pending_auth = t

(***************************************************************************)
(* The uplink is a device the BLE layer still holds, so that a recovery    *)
(* disconnects it (node.py:448, bluez_interface.py:260).                   *)
(***************************************************************************)
UplinkLinked == uplink # None => uplink.address \in linked

(***************************************************************************)
(* Heartbeats of the uplink are checked with the uplink's key, although    *)
(* the key is stored by whatever answer comes while an attempt is pending  *)
(* and outlives the uplink (node.py:290, 321).                             *)
(***************************************************************************)
KeyMatchesUplink == uplink # None => sink_public_key = uplink.address

(***************************************************************************)
(* relatorio.md:102: a recovery starts from NETWORK_JOINED, never in the   *)
(* middle of an attempt whose outcome would then overwrite it.             *)
(***************************************************************************)
RecoveryFromJoined ==
  [][state # "RECOVERING" /\ state' = "RECOVERING" => state = "NETWORK_JOINED"]_vars

(***************************************************************************)
(* To the rest of the network the node is a proper member: it joins only   *)
(* by an attempt of its own, however many devices and tasks that takes,    *)
(* every recovery takes it out with the count of missed beats gone, and a  *)
(* third miss never stays (node.py:155, 212-223, 418-446, 463-471).        *)
(***************************************************************************)
Member == INSTANCE Membership
            WITH phase  <- CASE state = "NETWORK_JOINED" -> "joined"
                             [] state = "AUTHENTICATING" -> "trying"
                             [] OTHER -> "out",
                 missed <- IF uplink = None THEN 0 ELSE uplink.missed

IsMember == Member!Spec

(***************************************************************************)
(* node.py:272, "checks that it is the answer to our pending request": an  *)
(* answer to an attempt that is over decides nothing.                      *)
(***************************************************************************)
AnswerIsForPendingRequest ==
  [][\A m \in answers :
       answers' = answers \ {m} /\ m.to = None => pc' = pc]_vars
=============================================================================
