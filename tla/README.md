# A TLA+ model of the Projeto-SIC BLE network

The repository is a Python program for a small ad-hoc network over Bluetooth LE:
*nodes* join a *sink*, prove who they are with certificates of a private CA,
exchange signed heartbeats, and talk to the sink over an end-to-end encrypted
session. This directory models its core in TLA+: TLC checks small instances, and
TLAPS proves the main results for every value of the constants. Paths below are
relative to `src/`; "relatório" is `relatório.md`.

## 1. Inventory

| Part | State | Operations | Talks to |
|---|---|---|---|
| `ForwardingTableAging` (common/protocol.py:30-145) | `table`, `_last_cleanup` | add, refresh, look up, remove, invalidate, clean | the node's handlers; the aging task |
| `HeartbeatManager` (protocol.py:147-216) | `sequence`, `last_timestamp` | sign a beat, verify a beat | the sink's loop; the node's handler |
| `CascadeProtocol` (protocol.py:218-258) | none | format and parse a disconnect notice | node |
| `IoTNode` (node/node.py) | `state`, `uplink`, `downlinks`, `sink_public_key`, `_pending_auth`, tasks | join, authenticate, monitor, recover, cascade, GUI commands | BLE layer, table, sessions |
| `BlueZInterface` (common/bluez_interface.py) | `connected_devices`, `device_paths`, `characteristics` | scan, connect, disconnect, send, callbacks | D-Bus, node, sink |
| `E2ESession` (common/e2e_security.py) | keys, nonces, `tx_counter`, `rx_counter` | three handshake steps, encrypt, decrypt | node and sink |
| `SinkNode` (sink/sink.py) | `connected_nodes`, `nid_to_address`, `message_queues` | register, send beats, relay, topology, stop | BLE layer, sessions |
| `CryptoManager`, `SimpleDTLS` (common/crypto_utils.py) | key, certificates | sign, verify, derive | everyone |
| CA (support/ca_manager.py) | key, root and one PEM file per device | create, load, issue, revoke | the file system |
| Diagnostics (common/network_control.py) | `results_history`, `is_running` | run commands, monitor, history | BLE layer, GUI |
| GUI (common/gui.py) | `update_queue`, Tk timers, `auto_refresh` | show, log, dialogs, buttons | its own thread; node or sink |

Five things make the behaviour hard to test.

* **Tasks.** A process has one asyncio loop, on which main, the heartbeat monitor,
  the aging task and message handlers share fields without locks. The BLE
  coroutines call D-Bus and `time.sleep` synchronously and never suspend, so a
  task lets others run only in `asyncio.sleep` and `wait_for`. A join is
  suspended for up to 10 s and a recovery for 3 s, with the fields half written.
* **The radio.** `send_data` fails without telling (bluez_interface.py:270-292);
  answers come after the attempt they answer has timed out; beats are lost,
  late or out of order; a peer disappears and comes back.
* **Clocks.** The sink's heartbeat loop, the monitor, the aging task and the
  cleanup throttle are periodic with phases of their own, and each round can be
  late (`time.sleep(5)` in a coroutine stops the whole loop).

* **Two threads.** The window runs in a thread of its own; updates reach it through a
  deque, run in a chain of Tk timers, and may raise or open a modal dialog.
* **Addresses and files.** The sink knows a node by address and by nid, and removes
  neither entry; the CA writes key and root in two files and may end in between.

What makes each part correct:

* table: stale routes are never handed out, nothing is dropped early, everything
  silent is dropped in bounded time, an invalidated route needs a new packet;
* node: `state` and `uplink` agree, one join or recovery at a time, a waiting
  attempt can be reached, key and link of the uplink are its own, no task hangs;
* heartbeats: a dead uplink is noticed in bounded time, a live one is kept;
* sessions: both ends have the same key, a nonce is used once, each message is
  delivered at most once and in order;
* sink: registry and nodes agree on the session, also over restarts; a message between
  nodes reaches the node it is for and carries its author's name;
* CA: no crash costs a certificate already issued its root;
* panel: updates run in the order of posting, the history is the last successes, a
  click is answered, what is turned off ends.

`PROJECT.json` lists every component and, under `hazards`, each thing that can
go wrong with the line where it would.

### The program as committed, and the program modelled

As committed the two programs do not get far enough to show any of this:

* `common/protocol.py` has no `NetworkMessage`, which node.py:39 and sink.py:34
  import; `IoTNode._on_route_expired` (node.py:82) and several handlers named at
  node.py:252-260 are not defined; `downlinks` is never filled;
* `_current_e2e` (node.py:293) is assigned nowhere;
* D-Bus signals call the coroutine function `data_callback` from the GLib thread
  without scheduling it (bluez_interface.py:253-256);
* the sink never connects to a device, so its `send_data` returns at once
  (bluez_interface.py:272); its `_handle_auth` moves on by 4 instead of
  the length of the certificate (sink.py:143);
* GUI commands call `asyncio.create_task` in a thread without loop
  (node.py:541, 557-564); cascade notices get their magic twice
  (protocol.py:229, node.py:392-394); the Tk root is made in the main thread and
  its `mainloop` runs in another (node.py:139-141, gui.py:17, 412);
* the sink's diagnostics button calls `run_diagnostics`, which does not exist (sink.py:276);
  the window's `Tuple` (gui.py:259) comes from no import, and neither does the CA's
  (ca_manager.py:96);
* `issue_certificate` passes 16 raw bytes to `x509.IPAddress` (ca_manager.py:153), which takes
  address objects; `verify_certificate` checks a certificate with its own public
  key (crypto_utils.py:75), although its docstring says against the CA (line 69), so that
  a certificate the CA issued is rejected.

The project therefore models class by class: each class as written, in an
environment that calls it the way the rest of the code means to. Members and
links that are missing are the environment's, and a message that a broken link
never delivers is just one more message the radio may lose. Where a missing link
decides what a class does it is a constant: `Wired` (which entry points of
IoTNode reach the loop) and `KeepsSession` (whether `_current_e2e` is the session
of the last attempt), and `ScanWired` (whether a click on the scan button reaches the
loop). `Wired = {}`, `KeepsSession = FALSE` and `ScanWired = FALSE` is the program as
committed.

## 2. Modules

Each component has a module `M`, a module `MCM` with configurations for TLC,
and a module `MProofs` with theorems. `PROJECT.json` maps each definition to its
lines. Definitions `X_Something` are deliberate faults of `X`; the model does not
use them: with one in place of `X`, TLC must find a property violated.

**ForwardingTable**: the table of protocol.py and the aging task that cleans it.
`table`, `last_cleanup` are the fields; `now` is the clock and `wake` the end of
the task's sleep; `call` remembers the last call and what it returned, so that
properties can speak of results. One action per method; `GetRoute`,
`GetAllEntries` and `AgingRound` include `_cleanup_expired` with its throttle.
`Tick` lets time pass unless the task is `MaxLag` late. **RoutedPackets** adds a history
variable to it, when a packet of each source was last routed, and changes nothing else.

**IoTNode**: the life cycle of a node with the bookkeeping of its BLE layer. `state`,
`uplink`, `sink_public_key`, `pending_auth`, `linked` are fields; `pc`, `dev` and
`rest` are where each task is suspended and the locals it will use. An action is
the code from one suspension to the next: `TryDevices` is the loop of
`join_network` up to the next `wait_for`, with every way to fail on the way;
`AttemptFailed` resumes it after an exception or timeout; `Joined`, `Rejoin`,
`MonitorRound`, `EnterRecovery` are the rest of it. `answers` are AUTH messages
not yet handled, those of attempts that are over included.

**UplinkMonitor**: heartbeats in time, from joining to giving the uplink up: the
sink's loop, `create_heartbeat`, `verify_heartbeat`, the node's handler and
monitor, with clocks, phases, lags, delays and losses as constants. It implements
**FailureDetector**, which says no more than: give up only after more than `Low`
seconds of silence, never let `High` pass. `last_good` is when a beat was last sent
and not lost: `DeadSinkIsLeft` counts from it, `DetectsFailure` from the last one heard.

**E2ESession**: the sessions between a node and the sink. Every attempt makes a new
session at the node, every AUTH message one at the sink. Keys are named by the
hello and answer they are derived from, and a signature holds for the numbers it was
made over. Whatever was sent may arrive at any time and any number of times, or
never, and data frames may arrive damaged. Each direction implements **MessageStream**:
delivered only if sent, at most once, in the order of sending in a session. What is
delivered is a sequence, so that a second delivery shows. This is a faulty radio: frames reach
only the other side. With one key and one way of counting, a side would accept its own
frames, and that they come back to it is left out.

**SinkRegistry**: `connected_nodes` of the sink against the uplinks of several
nodes, with hellos and answers of several attempts and beats under way, and
restarts of the sink, which lose the registry. Attempts are numbered and the
number stands for the session. It is coarser than IoTNode and UplinkMonitor about the
node: a phase, the miss counter, and whether a beat came since the last round.
A handler of the sink does not suspend, so each is one action.

**Membership** says what the rest of the network may rely on about one node: out, trying,
joined, and a miss counter that starts anew with every join. IoTNode implements it
(`IsMember`; the mapping takes `RECOVERING` and the join that follows it for out and
trying), and so does each node of SinkRegistry (`AreMembers`): the coarse node that
SinkRegistry assumes stays within what IoTNode gives. The timed monitor of UplinkMonitor
does too, as long as it has its uplink (`StaysMember`).

**Relay**: messages between nodes. `connected_nodes` and `nid_to_address` are the two
dictionaries, `message_queues` the queues; `where` is the address a node really has and
`settled` the nodes that registered since they moved or the sink restarted. `Move` takes
a node to a free address, also one that another node left; `Register` is what
`_handle_auth` does to the dictionaries, `HandleNodeToNode` the whole handler. Each entry
remembers both the author as the sink takes it and the node that sent it. The replies on
topology and node list, and the broadcast of the window, only read this state. A broadcast
to one node uses the first entry of its nid in `connected_nodes`, its oldest address
(sink.py:261-266), and not `nid_to_address`.

**CertificateAuthority**: one process of the CA and its files. A key pair is a number, which
also names the certificates made with it. `Create`, `KeyWritten`, `OpenCert`, `CertWritten`
are `_create_ca` between two points at which the process can end, `Issue` and `Issued`
likewise; `Exit` is the end of the process, planned or not, and a file that was open
stays `Torn`. To the devices the files are a **TrustAnchor** (`IsAnchor`): a root that is
chosen once, before any certificate, and signs all that are handed out.

**UpdateQueue**: the window. `frames` are the activations of `_process_updates` and what each
runs, `timers` the calls Tk owes it; a dialog is an update in which Tk goes on with timers.
Only because the timer is set again at the end of an activation is there never more than
one. `refreshers` are the timers of `_auto_refresh_loop`.

**Diagnostics**: `RunInstant` is a command that never suspends (a scan blocks the loop
with `time.sleep`), `StartLasting` and `EndLasting` one that sleeps between sends;
`recorded` are all successes since the history was cleared. Monitors are tasks with one
flag for all: `StartMonitor` is the first step of one, `WakeMonitor` a further round.

**Panel** composes both with the scan button of a node: `ClickScan` in the Tk thread, `DoScan` on
the loop, which records the scan and posts the log line, and the line's way to the
window. `Post` stands for everything else that posts,
any update at any time; what `_gui_update_loop` posts is among that.

## 3. What is checked

Passing runs (`tlc -config X.cfg MCM.tla`):

| Run | Shows | Bounds |
|---|---|---|
| `table` (MCForwardingTable.cfg) | `StalenessBound`, `AgingRemovesOnlyExpired`, `NoStaleRouteReturned`, `InactiveNeedsLearning` | two destinations, two routes, all periods 2 s, lag 1, clock to 10: an entry can expire, be kept by the throttle, be soft-deleted, refreshed and collected, and the two periods get out of step |
| `node` (MCIoTNode.cfg) | `UplinkIffJoined`, `OneJoinAtATime`, `WaiterIsReachable`, `UplinkLinked`, `KeyMatchesUplink`, `RecoveryFromJoined`, `IsMember` (refinement of Membership) | three sinks, two cascade handlers beside main and monitor: a join can fail on two devices and go on, late answers of one reach an attempt on another |
| `node_commands` (MCIoTNode_commands.cfg) | `JoinedHasUplink`, `NeverStranded`, and the liveness properties `EveryTaskReturns`, `Settles` | the same with join, leave and cascade in two callers, one sink: joins and recoveries of callers, main and monitor overlap |
| `uplink` (MCUplinkMonitor.cfg) | `DetectsFailure` (refinement of FailureDetector), `DeadSinkIsLeft`, `NoFalseAlarm`, `GenuineAccepted` | interval 3, delay and tolerance 3, one loss, node lag 1, clock to 24: exactly the calm radio of `Calm`, with beats overtaking one another; eight intervals are enough to lose an uplink from any phase |
| `e2e` (MCE2ESession.cfg) | `KeyIsAgreed`, `KeyIsStable`, `NonceUsedOnce`, `SessionsInOrder`, `StreamToSink`, `StreamToNode` | two hellos, two answers, two frames a session, two texts: one hello answered twice, an answer to a hello given up, frames of both sessions mixed |
| `sink` (MCSinkRegistry.cfg) | `SessionsMatch`, `RegistrationsMoveOn`, liveness `ForgottenNodeLeaves`, `AreMembers` (refinement of Membership) | two nodes, two attempts of each, one restart |
| `relay` (MCRelay.cfg) | `SettledAreServed`, `PushedAreQueued` | three nodes, two addresses, four moves, two messages, one restart: a node takes over the address of another before or after either registers, and both are written to |
| `ca` (MCCertificateAuthority.cfg) | `IssuedVerifies`, `StartsUnlessCertTorn`, `IsAnchor` (refinement of TrustAnchor) | two devices, three key pairs: two creations that crash, one that succeeds |
| `panel` (MCPanel.cfg) | `UpdatesInOrder`, `HistoryIsRecent`, `ClicksAccounted`, and liveness `ScanReported`, `RefreshEnds`, `MonitorsStop` | one update of each kind before or after the line of a scan, history of two and three successes, two monitors, two refresh loops: a dialog is open while a line waits, the history overflows, old and new loops overlap. More updates and longer histories are left to the proofs |

The runs check no type invariants: `TypeOK` of each module with proofs is a theorem. Nor do they
repeat `RootIsStable`, `JoinMovesOn`, `AnsweredByOwnDevice` and `StaysMember`, which are
theorems; TLC finds no violation of them under the configurations of `ca`, `node` and
`uplink`, with the property added.

Destinations, routes, texts, devices of the CA, nodes and addresses of Relay are symmetric.
Deadlock is not
checked: every module has states in which nothing is left to do (the clock or a
counter is at its bound, or no device and no command comes).

Runs that find a disagreement between the code and what a document or a comment
of the repository says:

| Run | Statement | What the code does |
|---|---|---|
| `node_late` | node.py:272, the answer is the one to the pending request | an answer to an attempt that timed out makes the next one fail |
| `table_packets` | relatório:110-111, routes expire after 5 minutes without activity, and each routed packet updates `last_seen` | a packet over a longer route updates nothing, so that its destination ages out while it is heard |
| `e2e_replay` | e2e_security.py:213, a frame newer than the last received is no replay | `rx_counter` moves before the frame is authenticated, so a damaged one makes genuine ones replays |

Things the models made precise:

* Nothing calls `update_activity`, so what relatório:111 promises rests on `add_entry` alone,
  and the run `table_packets` shows how it fails. The recovery is different: relatório:71
  promises an attempt and relatório:106 describes the one that node.py:455 makes. Two beats lost in a row are enough to give up a sink
  that is alive, for one that is merely late for a round counts as missed too
  (node.py:465; constants.py:14 and relatório:52 say three). With `KeepsSession = FALSE`
  an accepted answer wakes nobody (node.py:293) and every attempt times out.
* `SettledAreServed` is about nodes that registered since they moved. A message for one that
  moved and has not yet goes to its old address, and whoever has that reads
  it. `PushedAreQueued` says that of the queue only what comes after the
  registration is ever sent: what waited for a node stays where it is.
* The CA can end in a state that no start gets out of, a complete key and a torn root; then
  nothing was issued. Two CA processes on an empty directory are outside the model.
* A scan that fails is reported as "0 dispositivos" (node.py:570). `get_history(0)` is the whole
  history, and relatório:137 calls it the last 100 results: it is the last 100 successes, for
  a command that raises is not stored (network_control.py:80-89), which `HistoryIsRecent`
  states as it is. A ping counts as received whatever was sent (network_control.py:122-129).
* `MonitorsStop` and `RefreshEnds` except a loop that is started again, as they must: a stop
  before a new monitor's first step is undone by it, and a loop that is stopped and
  started within its interval goes on beside the new one.
* With commands that reach the loop (`Wired` with join or leave), `UplinkIffJoined`,
  `UplinkLinked`, `KeyMatchesUplink` and `WaiterIsReachable` are not claimed: a leave in
  the middle of an attempt lets the attempt finish under the recovery. What still
  holds is `JoinedHasUplink`, `NeverStranded`, `JoinMovesOn`, `AnsweredByOwnDevice` and
  the two liveness properties.
* A sink that died can be believed in for `MaxDelay` longer than the silence allowed: a
  beat counts from its arrival (node.py:328), whenever it was sent. On the instance of
  `uplink` no smaller bound than that of `DeadSinkIsLeft` holds.
* `NonceUsedOnce` is about one side. Node and sink share one key and each counts
  from 1 (e2e_security.py:194-200), so a nonce does come twice under one key, once in each
  direction, and nothing is claimed about the two sides together.
* A sink that restarts is not noticed by its nodes except by silence: that is the
  exception in `SessionsMatch`, `connected_nodes[n] = 0 /\ restarts > 0`; `ForgottenNodeLeaves` says that it ends.

### Fairness

Safety needs none. In IoTNode, `Resume(t)` and `AutoJoin` are weakly fair: a task
whose timer expired or whose future is done is resumed by asyncio; `wait_for` has
a timeout, so a waiting task can always be resumed. Nothing is assumed of devices,
messages, users or the monitor's rounds. In SinkRegistry only the monitor's round
is weakly fair: its sleep ends. Nothing is assumed of the sink or the radio.
In Panel the loop runs tasks and timers, and Tk its own: weak fairness of each step of
`_process_updates`, which nothing else disables; strong fairness of `CallAutoRefresh`, which has
to wait for a round of updates and whose turn comes because Tk runs due timers in the
order in which they are due. Users owe nothing; `ScanReported` has as premises that no
dialog stays for ever and that the window is not closed.

## 4. What is proved

`tlapm MProofs.tla`, for each module. The theorems hold for every set of devices, nodes,
routes and texts and every value of the bounds; assumptions on constants are the
named `ASSUME` of each module (types, and values such as `None` not being data).

* **ForwardingTableProofs**: `TypeCorrect`, `EntriesAgeOut`, `AgingIsSafe`,
  `RoutesAreFresh`, `RevivalNeedsPacket`. `StalenessBound` is not inductive. The invariant adds `Aged` (no entry is older than
  the last effective cleanup allows) and `Clocks` (`wake < last_cleanup +
  LoopPeriod + CleanupPeriod`: a round that is skipped by the throttle was preceded by a
  cleanup less than a throttle ago, whoever called it).
* **IoTNodeProofs**, for every `Wired`: `TypeCorrect`, `JoinedNodesHaveUplink`, `NobodyStrands`,
  `OwnAnswerOnly`, `JoinsMoveOn`, and the liveness theorem `AttemptsEnd`. Here several tasks may be inside joins
  and recoveries at once, so nothing of the next item holds. `TasksInv` says of each task
  for itself which devices it has left (`AttemptsKnown`: the one it is on is not among
  them) and that an answer addressed to it is its device's. `StepOfTasks` is the lemma
  behind all four: a step is the business of one task, which goes on with fewer
  devices, joins, ends or starts a recovery, and every other task keeps its `pc`, `dev` and `rest`, except
  that an answer may decide one that waits.
* **IoTNodeProofs**, under
  `NoCommands`: `UplinkAndStateAgree`, `JoinsExclude`, `WaitersAreReached`,
  `UplinkIsHeld`, `UplinkIsVerified`, `RecoveriesStartJoined`, `NodeIsMember`. The key is `StateTellsTask`: `state` says
  which kind of task is in progress and `OneJoinAtATime` that there is one. With
  `AnswersAddressed`, an answer to the current attempt comes from its device, so
  that the key stored with it is the key of the future uplink.
* **UplinkMonitorProofs**: `TypeCorrect`, `MonitorDetects` (the refinement),
  `DeadSinksAreLeft`, `MonitorIsMember`, `CalmRadioNoAlarm`, `BeatsAreAccepted`. `Misses3` says what the counter means: the distance of
  the next check from the last beat for each of 0, 1, 2 misses. `HeardWasSent` says that
  what is in the air was sent by `last_good`, and that the last arrival is at most `MaxDelay` after it. `Silence`
  says that what was sent and not lost was heard, or is in the air.
* **E2ESessionProofs**: `TypeCorrect`, `KeysAgree`, `KeysStay`, `NoncesAreFresh`, `OldSessionsStayOld`,
  `SinkGetsStream`, `NodeGetsStream`. `PendingIsFresh` says that nothing was sent under a key
  that may still come out of the pending hello, and `CountersBound` that `tx` and `rx`
  bound what was sent and delivered under the current key. For the order across sessions
  `HandedIsPast` relates every frame handed over to the session of now.
* **SinkRegistryProofs**: `TypeCorrect`, `SessionsAgree`, `RegistryAdvances`, `NodesAreMembers`, and the liveness
  theorem `ForgottenNodesLeave`.
  `HellosAreAhead` and `AnswersAreBehind` order registry, hellos and answers of a node, so
  that an answer to the last attempt means no hello is left to change the registry.
* **RelayProofs**: `TypeCorrect`, `SettledServed`, `QueuesAreNotOvertaken`. The invariant is `Settled`:
  for a settled node both dictionaries name its real address; it is inductive because
  no two nodes have one address (`Apart`), so that a registration overwrites the entry of
  another only after that one moved.
* **CertificateAuthorityProofs**: `TypeCorrect`, `IssuedStaysValid`, `RootStays`, `StartsAreSafe`, and
  `FilesAreAnchor` (the refinement of TrustAnchor). The
  invariant says for each point of the creation what the two files hold, and that nothing was
  issued before both were complete.
* **PanelProofs**: `TypeCorrect`, `UpdatesStayInOrder`, `HistoryStaysRecent`, `ClicksAreAccounted`, and the
  liveness theorem `MonitorsEnd`. `OneChain`: the
  chain of `_process_updates` waits for one timer or runs in one frame, never both, so no
  update can start inside another. For the history, `TrimAppend` says that cutting after each
  append keeps exactly the last `Limit`, and `LastOfLast` that slices of the history are slices
  of all successes. For the clicks, `ScanLinesAppend` says what posting one update does to
  the number of lines.

### Liveness

The prover cannot reason about ENABLED, so a theorem on liveness takes weak fairness in the
form that names the condition under which the step is enabled: `RoundsGoOn(n)`,
`IsResumed(t)` and `WakesUp(m)` say that the step is taken again and again, or that the
condition (the node is joined, the task is busy, the monitor is asleep and the flag is
down) fails again and again. These follow from the fairness of the
specifications, because the step is enabled whenever the condition holds; TLC confirms that they
do on the instances of `sink`, `node_commands` and `panel`. The theorems themselves are
about `Spec` with that hypothesis, for any number of nodes, tasks and monitors.

* `ForgottenNodesLeave`: a node forgotten by its sink counts misses only upwards once the
  beats that were under way are gone, and leaves at the third: three steps of leads-to, one for each miss.
* `AttemptsEnd`: an attempt on a device, or the sleep of a recovery, ends for every task.
  `JoinsMoveOn` says that the devices left become fewer with each attempt. Together they
  are why `EveryTaskReturns` holds; the induction on the number of devices left,
  whose steps are temporal, is out of the prover's reach.
* `MonitorsEnd`: one leads-to step for each monitor.

Only model-checked: `EveryTaskReturns` (see above); `Settles`, of which `NobodyStrands` is the
safety part; `ScanReported`, of which `ClicksAreAccounted` and `UpdatesStayInOrder` are the
safety part, and whose progress needs an induction on the length of the queue; and
`RefreshEnds`, which needs one on the number of loops that are left.

## 5. What is not modelled

* Timestamps, counts and log texts that nothing reads; certificates beyond
  "a sink's or not"; the byte formats of messages.
* GATT objects, characteristics and D-Bus signals: pure I/O.
* The node's data path (`_handle_data_message`, `_forward_message`): it calls a class and
  methods that do not exist.
* `downlinks` and propagation of cascades: nothing adds a downlink.
* `CryptoManager`: library calls without state of their own. `SimpleDTLS` is used by nobody;
  its `respond_handshake` reads `local_nonce` before it is set and its two sides
  derive different keys.
* Who may be trusted: no code consults the revoked files, and issuing again overwrites the
  record of the first certificate; the CA's model is about files and crashes only.
* Widgets, drawing, texts and what diagnostics measure. `update_topology` colours all nodes
  by the last one of the list, for its inner loop reads the variable of an outer one
  (gui.py:299-303): a slip to read, not to explore.
* The other buttons of the window: they call the commands that IoTNode has.

## 6. Plan

Done: ForwardingTable, IoTNode, UplinkMonitor against FailureDetector, E2ESession against
MessageStream, SinkRegistry with restarts, Membership as the contract between IoTNode,
SinkRegistry and UplinkMonitor, Relay, CertificateAuthority against TrustAnchor, UpdateQueue, Diagnostics and
their composition in Panel. All safety properties of the passing runs are proved, and of
the liveness properties those that need no induction.

Next:

1. Abstract specifications for the table (what a route cache promises per destination) and
   for the relay, and the proofs that they are implemented.
2. Progress of one update of the window (`UpdatesStayInOrder` says in which order, not
   that the next one comes), the step of `ScanReported` that needs no induction.
3. Liveness of joining: with a sink that stays up and a radio that delivers, a node that
   tries joins.
