---------------------------- MODULE IoTNodeProofs ----------------------------
(***************************************************************************)
(* Proofs about IoTNode: type correctness whatever entry points are wired, *)
(* and, for any number of devices and handler tasks, the invariants of the *)
(* program without join and leave commands.                                *)
(***************************************************************************)
EXTENDS IoTNode, TLAPS

\* A task in an attempt knows the device it tries.
TypeInv == TypeOK /\ \A t \in Tasks : Trying(t) => dev[t] \in Devices

(***************************************************************************)
(* Answers that were due to t's attempt are nobody's once it is over; the  *)
(* others stay what they are.                                              *)
(***************************************************************************)
LEMMA LateAnswers ==
  ASSUME TypeOK, NEW t \in Tasks
  PROVE  /\ Late(t) \subseteq Answer
         /\ \A m \in Late(t) : m.to # t
         /\ \A m \in Late(t) : m.to # None => m \in answers
<1>1. SUFFICES ASSUME NEW l \in Late(t)
               PROVE  l \in Answer /\ l.to # t /\ (l.to # None => l \in answers)
  OBVIOUS
<1>2. PICK m \in answers : l = IF m.to = t THEN [m EXCEPT !.to = None] ELSE m
  BY DEF Late
<1>3. m \in Answer /\ t # None
  BY NodeAssumption DEF TypeOK
<1>4. CASE m.to = t
  BY <1>2, <1>3, <1>4 DEF Answer
<1>5. CASE m.to # t
  BY <1>2, <1>3, <1>5
<1> QED BY <1>4, <1>5

(***************************************************************************)
(* The device loop keeps types, whoever runs it.                           *)
(***************************************************************************)
LEMMA TryDevicesTyped ==
  ASSUME TypeInv, NEW t \in Tasks, NEW candidates \in SUBSET Devices,
         NEW links \in SUBSET Devices, TryDevices(t, candidates, links)
  PROVE  TypeInv'
<1>1. Late(t) \subseteq Answer
  BY LateAnswers DEF TypeInv
<1>2. ASSUME NEW d \in candidates, NEW skipped \in SUBSET (candidates \ {d}),
             Attempt(t, d, skipped, candidates, links)
      PROVE  TypeInv'
  <2>1. answers' \subseteq Answer
    BY <1>1, <1>2 DEF Attempt, Answer
  <2>2. linked' \subseteq Devices
    BY <1>2 DEF Attempt, AfterFailedConnects
  <2>3. TypeOK'
    BY <1>2, <2>1, <2>2 DEF Attempt, TryDevices, TypeInv, TypeOK, States
  <2> QED BY <1>2, <2>3 DEF Attempt, TypeInv, TypeOK, Trying
<1>3. CASE NoDevice(t, candidates, links)
  <2>1. linked' \subseteq Devices
    BY <1>3 DEF NoDevice, AfterFailedConnects
  <2>2. TypeOK'
    BY <1>1, <1>3, <2>1 DEF NoDevice, TryDevices, TypeInv, TypeOK, States
  <2> QED BY <1>3, <2>2 DEF NoDevice, TypeInv, TypeOK, Trying
<1> QED BY <1>2, <1>3 DEF TryDevices

(***************************************************************************)
(* Entering a recovery keeps types.                                        *)
(***************************************************************************)
LEMMA EnterRecoveryTyped ==
  ASSUME TypeInv, NEW t \in Tasks, EnterRecovery(t)
  PROVE  TypeInv'
<1>1. linked' \subseteq Devices
  BY DEF EnterRecovery, AfterDisconnect, TypeInv, TypeOK
<1>2. TypeOK'
  BY <1>1 DEF EnterRecovery, TypeInv, TypeOK, States
<1> QED BY <1>2 DEF EnterRecovery, TypeInv, TypeOK, Trying

(***************************************************************************)
(* A join, from whatever state it is called in, keeps types.               *)
(***************************************************************************)
LEMMA JoinNetworkTyped ==
  ASSUME TypeInv, NEW t \in Tasks, JoinNetwork(t)
  PROVE  TypeInv'
<1>1. ASSUME NEW found \in Scans, TryDevices(t, found, linked) PROVE TypeInv'
  BY <1>1, TryDevicesTyped DEF Scans, TypeInv, TypeOK
<1>2. CASE /\ pc' = [pc EXCEPT ![t] = "idle"]
           /\ UNCHANGED <<state, uplink, sink_public_key, pending_auth, linked,
                          dev, rest, answers>>
  BY <1>2 DEF TypeInv, TypeOK, Trying
<1> QED BY <1>1, <1>2 DEF JoinNetwork

(***************************************************************************)
(* A message of the handshake keeps types: only a waiting task is told.    *)
(***************************************************************************)
LEMMA HandleAuthResponseTyped ==
  ASSUME TypeInv, NEW m \in answers, HandleAuthResponse(m)
  PROVE  TypeInv'
<1>1. \/ pc' = pc
      \/ /\ ~PendingDone
         /\ \/ pc' = [pc EXCEPT ![pending_auth] = "failed"]
            \/ pc' = [pc EXCEPT ![pending_auth] = "answered"]
  BY DEF HandleAuthResponse
<1>2. sink_public_key' \in Devices \cup {None} /\ answers' \subseteq Answer
  BY DEF HandleAuthResponse, TypeInv, TypeOK, Answer
<1>3. ~PendingDone => pending_auth \in Tasks /\ Trying(pending_auth)
  BY DEF PendingDone, TypeInv, TypeOK, Trying
<1>4. UNCHANGED <<state, uplink, pending_auth, linked, dev, rest>>
  BY DEF HandleAuthResponse
<1>5. TypeOK'
  BY <1>1, <1>2, <1>4 DEF TypeInv, TypeOK
<1> QED BY <1>1, <1>3, <1>4, <1>5 DEF TypeInv, TypeOK, Trying

LEMMA TypeInductive == TypeInv /\ [Next]_vars => TypeInv'
<1> SUFFICES ASSUME TypeInv, [Next]_vars PROVE TypeInv' OBVIOUS
<1>1. CASE AutoJoin
  BY <1>1, JoinNetworkTyped DEF AutoJoin, Tasks
<1>2. ASSUME NEW t \in Tasks, Joined(t) PROVE TypeInv'
  <2>1. dev[t] \in Devices
    BY <1>2 DEF Joined, TypeInv, Trying
  <2>2. [address |-> dev[t], missed |-> 0] \in Link
    BY <2>1 DEF Link
  <2>3. TypeOK'
    BY <1>2, <2>2 DEF Joined, TypeInv, TypeOK, States
  <2> QED BY <1>2, <2>3 DEF Joined, TypeInv, TypeOK, Trying
<1>3. ASSUME NEW t \in Tasks, AttemptFailed(t) PROVE TypeInv'
  <2>1. PICK links \in AfterDisconnect(dev[t], linked) : TryDevices(t, rest[t], links)
    BY <1>3 DEF AttemptFailed
  <2>2. links \subseteq Devices /\ rest[t] \subseteq Devices
    BY <2>1 DEF AfterDisconnect, TypeInv, TypeOK
  <2> QED BY <2>1, <2>2, TryDevicesTyped
<1>4. ASSUME NEW t \in Tasks, Rejoin(t) PROVE TypeInv'
  <2>1. PICK found \in Scans : TryDevices(t, found, linked)
    BY <1>4 DEF Rejoin
  <2> QED BY <2>1, TryDevicesTyped DEF Scans, TypeInv, TypeOK
<1>5. ASSUME NEW t \in Callers, HandleCascade(t) \/ JoinCommand(t) \/ LeaveCommand(t)
      PROVE  TypeInv'
  BY <1>5, JoinNetworkTyped, EnterRecoveryTyped
     DEF HandleCascade, JoinCommand, LeaveCommand, Tasks
<1>6. ASSUME NEW m \in answers, HandleAuthResponse(m) PROVE TypeInv'
  BY <1>6, HandleAuthResponseTyped
<1>7. ASSUME NEW late \in BOOLEAN, MonitorRound(late) PROVE TypeInv'
  <2>1. CASE EnterRecovery(Monitor)
    BY <2>1, EnterRecoveryTyped DEF Tasks
  <2>2. ASSUME NEW k, k = uplink.missed + (IF late THEN 1 ELSE 0), k < 3,
               uplink' = [uplink EXCEPT !.missed = k],
               UNCHANGED <<state, sink_public_key, pending_auth, linked, pc, dev,
                           rest, answers>>
        PROVE  TypeInv'
    <3>1. uplink \in Link
      BY <1>7 DEF MonitorRound, TypeInv, TypeOK
    <3>2. k \in 0 .. 2
      BY <2>2, <3>1 DEF Link
    <3>3. uplink' \in Link
      BY <2>2, <3>1, <3>2 DEF Link
    <3> QED BY <2>2, <3>3 DEF TypeInv, TypeOK, Trying
  <2> QED BY <1>7, <2>1, <2>2 DEF MonitorRound
<1>8. ASSUME NEW a \in Devices, HandleHeartbeat(a) PROVE TypeInv'
  <2>1. uplink' \in Link
    BY <1>8 DEF HandleHeartbeat, TypeInv, TypeOK, Link
  <2> QED BY <1>8, <2>1 DEF HandleHeartbeat, TypeInv, TypeOK, Trying
<1>9. CASE UNCHANGED vars
  BY <1>9 DEF vars, TypeInv, TypeOK, Trying
<1> QED BY <1>1, <1>2, <1>3, <1>4, <1>5, <1>6, <1>7, <1>8, <1>9 DEF Next, Resume

LEMMA TypeInitially == Init => TypeInv
BY DEF Init, TypeInv, TypeOK, States, Trying

(***************************************************************************)
(* Every variable keeps its type, with the user's commands too: no uplink  *)
(* survives a third miss, and a task that resumes from a successful wait   *)
(* always has a device to make its uplink.                                 *)
(***************************************************************************)
THEOREM TypeCorrect == Spec => []TypeOK
<1>1. TypeInv => TypeOK BY DEF TypeInv
<1> QED BY <1>1, TypeInitially, TypeInductive, PTL DEF Spec
-----------------------------------------------------------------------------
(***************************************************************************)
(* The invariant of the program without join and leave commands.  Its core *)
(* is that state tells which task, if any, is inside a join or a recovery; *)
(* the rest is what that task relies on when it resumes.                   *)
(***************************************************************************)
StateTellsTask ==
  /\ \A t \in Tasks : Trying(t) => state = "AUTHENTICATING"
  /\ \A t \in Tasks : pc[t] = "sleeping" => state = "RECOVERING"
  /\ \A t \in Tasks : pc[t] = "starting" => t = Main /\ state = "DISCONNECTED"
  /\ state = "AUTHENTICATING" => \E t \in Tasks : Trying(t)
  /\ state = "RECOVERING" => \E t \in Tasks : pc[t] = "sleeping"

TryingLinked == \A t \in Tasks : Trying(t) => dev[t] \in linked

AnswersAddressed ==
  \A m \in answers : m.to # None /\ pc[m.to] = "waiting" => m.from = dev[m.to]

AnsweredKey == \A t \in Tasks : pc[t] = "answered" => sink_public_key = dev[t]

IInv ==
  /\ TypeInv
  /\ StateTellsTask
  /\ OneJoinAtATime
  /\ UplinkIffJoined
  /\ WaiterIsReachable
  /\ TryingLinked
  /\ AnswersAddressed
  /\ AnsweredKey
  /\ UplinkLinked
  /\ KeyMatchesUplink

OthersIdle(t) == \A u \in Tasks \ {t} : pc[u] = "idle"

LEMMA LinkIsNotNone == ASSUME NEW l \in Link PROVE l # None
<1>1. PICK a \in Devices, k \in 0 .. 2 : l = [address |-> a, missed |-> k]
  BY DEF Link
<1> QED BY <1>1, NodeAssumption

LEMMA Initially == Init => IInv
BY TypeInitially
   DEF Init, IInv, StateTellsTask, OneJoinAtATime, UplinkIffJoined, WaiterIsReachable,
       TryingLinked, AnswersAddressed, AnsweredKey, UplinkLinked, KeyMatchesUplink,
       Trying, Busy

(***************************************************************************)
(* A task inside a join or a recovery, or about to start the first join,   *)
(* is the only one that is not idle, and there is no uplink.               *)
(***************************************************************************)
LEMMA AloneWhenBusy ==
  ASSUME IInv, NEW t \in Tasks, Busy(t) \/ pc[t] = "starting"
  PROVE  OthersIdle(t) /\ uplink = None
<1>1. state # "NETWORK_JOINED"
  BY DEF IInv, StateTellsTask, Busy
<1>2. uplink = None
  BY <1>1 DEF IInv, UplinkIffJoined
<1>3. ASSUME NEW u \in Tasks \ {t} PROVE pc[u] = "idle"
  <2>1. pc[u] \in {"starting", "idle", "waiting", "answered", "failed", "sleeping"}
    BY DEF IInv, TypeInv, TypeOK
  <2>2. CASE Busy(t)
    <3>1. ~Busy(u)
      BY <2>2 DEF IInv, OneJoinAtATime
    <3>2. pc[u] # "starting"
      BY <2>2 DEF IInv, StateTellsTask, Busy
    <3> QED BY <2>1, <3>1, <3>2 DEF Busy, Trying
  <2>3. CASE pc[t] = "starting"
    <3>1. ~Busy(u)
      BY <2>3 DEF IInv, StateTellsTask, Busy
    <3>2. pc[u] # "starting"
      BY <2>3 DEF IInv, StateTellsTask
    <3> QED BY <2>1, <3>1, <3>2 DEF Busy, Trying
  <2> QED BY <2>2, <2>3
<1> QED BY <1>2, <1>3 DEF OthersIdle

(***************************************************************************)
(* The device loop, run by the only task that is not idle, ends in an      *)
(* attempt of that task or in DISCONNECTED with everybody idle.            *)
(***************************************************************************)
LEMMA TryDevicesKeeps ==
  ASSUME IInv, NEW t \in Tasks, OthersIdle(t), uplink = None,
         NEW candidates \in SUBSET Devices, NEW links \in SUBSET Devices,
         TryDevices(t, candidates, links)
  PROVE  IInv'
<1>1. TypeInv'
  BY TryDevicesTyped DEF IInv
<1>2. uplink' = None /\ UNCHANGED sink_public_key
  BY DEF TryDevices
<1>3. /\ \A m \in Late(t) : m.to # t
      /\ \A m \in Late(t) : m.to \in Tasks \cup {None}
  BY LateAnswers DEF IInv, TypeInv, Answer
<1>4. pc \in [Tasks -> {"starting", "idle", "waiting", "answered", "failed", "sleeping"}]
      /\ dev \in [Tasks -> Devices \cup {None}]
  BY DEF IInv, TypeInv, TypeOK
<1>5. ASSUME NEW d \in candidates, NEW skipped \in SUBSET (candidates \ {d}),
             Attempt(t, d, skipped, candidates, links)
      PROVE  IInv'
  <2>1. /\ state' = "AUTHENTICATING" /\ pending_auth' = t
        /\ pc'[t] = "waiting" /\ dev'[t] = d
        /\ \A u \in Tasks \ {t} : pc'[u] = "idle"
        /\ d \in linked'
    BY <1>4, <1>5 DEF Attempt, OthersIdle
  <2>2. StateTellsTask' /\ OneJoinAtATime' /\ WaiterIsReachable' /\ TryingLinked'
        /\ AnsweredKey'
    BY <2>1 DEF StateTellsTask, OneJoinAtATime, WaiterIsReachable, TryingLinked,
                AnsweredKey, Trying, Busy
  <2>3. AnswersAddressed'
    <3>1. SUFFICES ASSUME NEW m \in answers', m.to # None, pc'[m.to] = "waiting"
                   PROVE  m.from = dev'[m.to]
      BY DEF AnswersAddressed
    <3>2. CASE m = [from |-> d, to |-> t]
      BY <2>1, <3>2
    <3>3. CASE m \in Late(t)
      BY <1>3, <2>1, <3>1, <3>3
    <3> QED BY <1>5, <3>2, <3>3 DEF Attempt
  <2>4. UplinkIffJoined' /\ UplinkLinked' /\ KeyMatchesUplink'
    BY <1>2, <2>1 DEF UplinkIffJoined, UplinkLinked, KeyMatchesUplink
  <2> QED BY <1>1, <2>2, <2>3, <2>4 DEF IInv
<1>6. CASE NoDevice(t, candidates, links)
  <2>1. /\ state' = "DISCONNECTED"
        /\ \A u \in Tasks : pc'[u] = "idle"
        /\ answers' = Late(t)
    BY <1>4, <1>6 DEF NoDevice, OthersIdle
  <2>2. StateTellsTask' /\ OneJoinAtATime' /\ WaiterIsReachable' /\ TryingLinked'
        /\ AnsweredKey'
    BY <2>1 DEF StateTellsTask, OneJoinAtATime, WaiterIsReachable, TryingLinked,
                AnsweredKey, Trying, Busy
  <2>3. AnswersAddressed'
    BY <1>3, <2>1 DEF AnswersAddressed
  <2>4. UplinkIffJoined' /\ UplinkLinked' /\ KeyMatchesUplink'
    BY <1>2, <2>1 DEF UplinkIffJoined, UplinkLinked, KeyMatchesUplink
  <2> QED BY <1>1, <2>2, <2>3, <2>4 DEF IInv
<1> QED BY <1>5, <1>6 DEF TryDevices

(***************************************************************************)
(* A recovery that finds an uplink starts from NETWORK_JOINED, where every *)
(* task is idle, and leaves its own task as the only busy one.             *)
(***************************************************************************)
LEMMA EnterRecoveryKeeps ==
  ASSUME IInv, NEW t \in Tasks, uplink # None, EnterRecovery(t)
  PROVE  IInv'
<1>1. TypeInv'
  BY EnterRecoveryTyped DEF IInv
<1>2. pc \in [Tasks -> {"starting", "idle", "waiting", "answered", "failed", "sleeping"}]
  BY DEF IInv, TypeInv, TypeOK
<1>3. \A u \in Tasks : pc[u] = "idle"
  <2>1. state = "NETWORK_JOINED"
    BY DEF IInv, UplinkIffJoined
  <2> QED BY <1>2, <2>1 DEF IInv, StateTellsTask, Trying
<1>4. /\ state' = "RECOVERING" /\ uplink' = None
      /\ pc'[t] = "sleeping"
      /\ \A u \in Tasks \ {t} : pc'[u] = "idle"
      /\ UNCHANGED <<dev, answers, sink_public_key>>
  BY <1>2, <1>3 DEF EnterRecovery
<1>5. StateTellsTask' /\ OneJoinAtATime' /\ WaiterIsReachable' /\ TryingLinked'
      /\ AnsweredKey'
  BY <1>4 DEF StateTellsTask, OneJoinAtATime, WaiterIsReachable, TryingLinked,
              AnsweredKey, Trying, Busy
<1>6. AnswersAddressed'
  <2>1. SUFFICES ASSUME NEW m \in answers, m.to # None, pc'[m.to] = "waiting"
                 PROVE  FALSE
    BY <1>4 DEF AnswersAddressed
  <2>2. m.to \in Tasks
    BY <2>1 DEF IInv, TypeInv, TypeOK, Answer
  <2> QED BY <1>4, <2>1, <2>2
<1>7. UplinkIffJoined' /\ UplinkLinked' /\ KeyMatchesUplink'
  BY <1>4 DEF UplinkIffJoined, UplinkLinked, KeyMatchesUplink
<1> QED BY <1>1, <1>5, <1>6, <1>7 DEF IInv

(***************************************************************************)
(* A step that touches only the uplink's counter keeps everything else.    *)
(***************************************************************************)
LEMMA CounterKeeps ==
  ASSUME IInv, TypeInv', uplink # None, uplink' # None,
         uplink'.address = uplink.address,
         UNCHANGED <<state, sink_public_key, pending_auth, linked, pc, dev, rest, answers>>
  PROVE  IInv'
BY DEF IInv, StateTellsTask, OneJoinAtATime, UplinkIffJoined, WaiterIsReachable,
       TryingLinked, AnswersAddressed, AnsweredKey, UplinkLinked, KeyMatchesUplink,
       Trying, Busy

(***************************************************************************)
(* An answer only ever reaches the one waiting task, and gives it the key  *)
(* of its own device; while an uplink exists no task waits, so the key of  *)
(* the uplink is not touched.                                              *)
(***************************************************************************)
LEMMA HandleAuthResponseKeeps ==
  ASSUME IInv, NEW m \in answers, HandleAuthResponse(m)
  PROVE  IInv'
<1>1. TypeInv'
  BY HandleAuthResponseTyped DEF IInv
<1>2. UNCHANGED <<state, uplink, pending_auth, linked, dev, rest>>
      /\ answers' \subseteq answers
  BY DEF HandleAuthResponse
<1>3. pc \in [Tasks -> {"starting", "idle", "waiting", "answered", "failed", "sleeping"}]
      /\ answers \subseteq Answer
  BY DEF IInv, TypeInv, TypeOK
<1>4. CASE UNCHANGED <<sink_public_key, pc>>
  BY <1>1, <1>2, <1>4
     DEF IInv, StateTellsTask, OneJoinAtATime, UplinkIffJoined, WaiterIsReachable,
         TryingLinked, AnswersAddressed, AnsweredKey, UplinkLinked, KeyMatchesUplink,
         Trying, Busy
<1>5. CASE ~PendingDone
  <2>1. pending_auth \in Tasks /\ pc[pending_auth] = "waiting"
    BY <1>5 DEF PendingDone, IInv, TypeInv, TypeOK
  <2>2. OthersIdle(pending_auth) /\ uplink = None
    BY <2>1, AloneWhenBusy DEF Busy, Trying
  <2>3. \/ pc' = pc
        \/ pc' = [pc EXCEPT ![pending_auth] = "failed"]
        \/ /\ pc' = [pc EXCEPT ![pending_auth] = "answered"]
           /\ m.to = pending_auth /\ sink_public_key' = m.from
    BY DEF HandleAuthResponse
  <2>4. /\ pc'[pending_auth] \in {"waiting", "failed", "answered"}
        /\ \A u \in Tasks \ {pending_auth} : pc'[u] = "idle"
    BY <1>3, <2>1, <2>2, <2>3 DEF OthersIdle
  <2>5. state = "AUTHENTICATING" /\ dev[pending_auth] \in linked
    BY <2>1 DEF IInv, StateTellsTask, TryingLinked, Trying
  <2>6. StateTellsTask' /\ OneJoinAtATime' /\ WaiterIsReachable' /\ TryingLinked'
    BY <1>2, <2>1, <2>4, <2>5
       DEF StateTellsTask, OneJoinAtATime, WaiterIsReachable, TryingLinked, Trying, Busy
  <2>7. AnsweredKey'
    <3>1. SUFFICES ASSUME pc'[pending_auth] = "answered"
                   PROVE  sink_public_key' = dev[pending_auth]
      BY <1>2, <2>4 DEF AnsweredKey
    <3>2. m.to = pending_auth /\ sink_public_key' = m.from
      BY <1>3, <2>1, <2>3, <3>1
    <3>3. m.to # None
      BY <2>1, <3>2, NodeAssumption
    <3> QED BY <2>1, <3>2, <3>3 DEF IInv, AnswersAddressed
  <2>8. AnswersAddressed'
    <3>1. SUFFICES ASSUME NEW x \in answers, x.to # None, pc'[x.to] = "waiting"
                   PROVE  x.from = dev[x.to]
      BY <1>2 DEF AnswersAddressed
    <3>2. x.to \in Tasks
      BY <1>3, <3>1 DEF Answer
    <3>3. x.to = pending_auth
      BY <2>4, <3>1, <3>2
    <3> QED BY <2>1, <3>1, <3>3 DEF IInv, AnswersAddressed
  <2>9. UplinkIffJoined' /\ UplinkLinked' /\ KeyMatchesUplink'
    BY <1>2, <2>2, <2>5 DEF UplinkIffJoined, UplinkLinked, KeyMatchesUplink
  <2> QED BY <1>1, <2>6, <2>7, <2>8, <2>9 DEF IInv
<1> QED BY <1>4, <1>5 DEF HandleAuthResponse

(***************************************************************************)
(* A successful wait makes the device, whose key was stored, the uplink.   *)
(***************************************************************************)
LEMMA JoinedKeeps ==
  ASSUME IInv, TypeInv', NEW t \in Tasks, Joined(t)
  PROVE  IInv'
<1>1. pc[t] = "answered" /\ Trying(t)
  BY DEF Joined, Trying
<1>2. OthersIdle(t)
  BY <1>1, AloneWhenBusy DEF Busy
<1>3. pc \in [Tasks -> {"starting", "idle", "waiting", "answered", "failed", "sleeping"}]
      /\ answers \subseteq Answer
  BY DEF IInv, TypeInv, TypeOK
<1>4. /\ uplink' = [address |-> dev[t], missed |-> 0]
      /\ state' = "NETWORK_JOINED"
      /\ \A u \in Tasks : pc'[u] = "idle"
      /\ UNCHANGED <<sink_public_key, linked, answers>>
  BY <1>2, <1>3 DEF Joined, OthersIdle
<1>5. dev[t] \in Devices /\ dev[t] \in linked /\ sink_public_key = dev[t]
  BY <1>1 DEF IInv, TypeInv, TryingLinked, AnsweredKey
<1>6. uplink' # None
  BY <1>4, <1>5, LinkIsNotNone DEF Link
<1>7. StateTellsTask' /\ OneJoinAtATime' /\ WaiterIsReachable' /\ TryingLinked'
      /\ AnsweredKey'
  BY <1>4 DEF StateTellsTask, OneJoinAtATime, WaiterIsReachable, TryingLinked,
              AnsweredKey, Trying, Busy
<1>8. AnswersAddressed'
  <2>1. SUFFICES ASSUME NEW m \in answers, m.to # None, pc'[m.to] = "waiting"
                 PROVE  FALSE
    BY <1>4 DEF AnswersAddressed
  <2>2. m.to \in Tasks
    BY <1>3, <2>1 DEF Answer
  <2> QED BY <1>4, <2>1, <2>2
<1>9. UplinkIffJoined' /\ UplinkLinked' /\ KeyMatchesUplink'
  BY <1>4, <1>5, <1>6 DEF UplinkIffJoined, UplinkLinked, KeyMatchesUplink
<1> QED BY <1>7, <1>8, <1>9 DEF IInv

(***************************************************************************)
(* The inductive step: one step per action.                                *)
(***************************************************************************)
LEMMA Inductive == NoCommands /\ IInv /\ [Next]_vars => IInv'
<1> SUFFICES ASSUME NoCommands, IInv, [Next]_vars PROVE IInv' OBVIOUS
<1>0. TypeInv'
  BY TypeInductive DEF IInv
<1>1. CASE AutoJoin
  <2>1. Main \in Tasks /\ pc[Main] = "starting"
    BY <1>1 DEF AutoJoin, Tasks
  <2>2. OthersIdle(Main) /\ uplink = None /\ state = "DISCONNECTED"
    BY <2>1, AloneWhenBusy DEF IInv, StateTellsTask
  <2>3. PICK found \in Scans : TryDevices(Main, found, linked)
    BY <1>1, <2>2 DEF AutoJoin, JoinNetwork
  <2> QED BY <2>1, <2>2, <2>3, TryDevicesKeeps DEF Scans, IInv, TypeInv, TypeOK
<1>2. ASSUME NEW t \in Tasks, Joined(t) PROVE IInv'
  BY <1>0, <1>2, JoinedKeeps
<1>3. ASSUME NEW t \in Tasks, AttemptFailed(t) PROVE IInv'
  <2>1. PICK links \in AfterDisconnect(dev[t], linked) : TryDevices(t, rest[t], links)
    BY <1>3 DEF AttemptFailed
  <2>2. links \subseteq Devices /\ rest[t] \subseteq Devices
    BY <2>1 DEF AfterDisconnect, IInv, TypeInv, TypeOK
  <2>3. OthersIdle(t) /\ uplink = None
    BY <1>3, AloneWhenBusy DEF AttemptFailed, Busy, Trying
  <2> QED BY <2>1, <2>2, <2>3, TryDevicesKeeps
<1>4. ASSUME NEW t \in Tasks, Rejoin(t) PROVE IInv'
  <2>1. PICK found \in Scans : TryDevices(t, found, linked)
    BY <1>4 DEF Rejoin
  <2>2. OthersIdle(t) /\ uplink = None
    BY <1>4, AloneWhenBusy DEF Rejoin, Busy
  <2> QED BY <2>1, <2>2, TryDevicesKeeps DEF Scans, IInv, TypeInv, TypeOK
<1>5. ASSUME NEW t \in Callers, HandleCascade(t) PROVE IInv'
  BY <1>5, EnterRecoveryKeeps DEF HandleCascade, Tasks
<1>6. ASSUME NEW t \in Callers, JoinCommand(t) \/ LeaveCommand(t) PROVE IInv'
  BY <1>6 DEF JoinCommand, LeaveCommand, NoCommands
<1>7. ASSUME NEW m \in answers, HandleAuthResponse(m) PROVE IInv'
  BY <1>7, HandleAuthResponseKeeps
<1>8. ASSUME NEW late \in BOOLEAN, MonitorRound(late) PROVE IInv'
  <2>1. CASE EnterRecovery(Monitor)
    BY <1>8, <2>1, EnterRecoveryKeeps DEF MonitorRound, Tasks
  <2>2. ASSUME NEW k, k = uplink.missed + (IF late THEN 1 ELSE 0), k < 3,
               uplink' = [uplink EXCEPT !.missed = k],
               UNCHANGED <<state, sink_public_key, pending_auth, linked, pc, dev,
                           rest, answers>>
        PROVE  IInv'
    <3>1. uplink # None /\ uplink \in Link /\ state = "NETWORK_JOINED"
      BY <1>8 DEF MonitorRound, IInv, TypeInv, TypeOK
    <3>2. k \in 0 .. 2
      BY <2>2, <3>1 DEF Link
    <3>3. uplink' \in Link /\ uplink'.address = uplink.address
      BY <2>2, <3>1, <3>2 DEF Link
    <3>4. uplink' # None
      BY <3>3, LinkIsNotNone
    <3> QED BY <1>0, <2>2, <3>1, <3>3, <3>4, CounterKeeps
  <2> QED BY <1>8, <2>1, <2>2 DEF MonitorRound
<1>9. ASSUME NEW a \in Devices, HandleHeartbeat(a) PROVE IInv'
  <2>1. uplink # None /\ uplink \in Link
    BY <1>9 DEF HandleHeartbeat, IInv, TypeInv, TypeOK
  <2>2. uplink' \in Link /\ uplink'.address = uplink.address
    BY <1>9, <2>1 DEF HandleHeartbeat, Link
  <2>3. uplink' # None
    BY <2>2, LinkIsNotNone
  <2> QED BY <1>0, <1>9, <2>1, <2>2, <2>3, CounterKeeps DEF HandleHeartbeat
<1>10. CASE UNCHANGED vars
  BY <1>0, <1>10
     DEF vars, IInv, StateTellsTask, OneJoinAtATime, UplinkIffJoined, WaiterIsReachable,
         TryingLinked, AnswersAddressed, AnsweredKey, UplinkLinked, KeyMatchesUplink,
         Trying, Busy
<1> QED BY <1>1, <1>2, <1>3, <1>4, <1>5, <1>6, <1>7, <1>8, <1>9, <1>10 DEF Next, Resume

LEMMA Invariant ==
  ASSUME NoCommands
  PROVE  Spec => []IInv
<1>1. IInv /\ [Next]_vars => IInv'
  BY Inductive
<1> QED BY <1>1, Initially, PTL DEF Spec
-----------------------------------------------------------------------------
(***************************************************************************)
(* state and uplink always agree on whether the node is in the network.    *)
(***************************************************************************)
THEOREM UplinkAndStateAgree ==
  ASSUME NoCommands
  PROVE  Spec => []UplinkIffJoined
<1>1. IInv => UplinkIffJoined BY DEF IInv
<1> QED BY <1>1, Invariant, PTL

(***************************************************************************)
(* Main, the monitor and any number of handlers never run two joins or     *)
(* recoveries at the same time.                                            *)
(***************************************************************************)
THEOREM JoinsExclude ==
  ASSUME NoCommands
  PROVE  Spec => []OneJoinAtATime
<1>1. IInv => OneJoinAtATime BY DEF IInv
<1> QED BY <1>1, Invariant, PTL

(***************************************************************************)
(* The task that waits for an answer is the one answers are given to.      *)
(***************************************************************************)
THEOREM WaitersAreReached ==
  ASSUME NoCommands
  PROVE  Spec => []WaiterIsReachable
<1>1. IInv => WaiterIsReachable BY DEF IInv
<1> QED BY <1>1, Invariant, PTL

(***************************************************************************)
(* The BLE layer still holds the uplink.                                   *)
(***************************************************************************)
THEOREM UplinkIsHeld ==
  ASSUME NoCommands
  PROVE  Spec => []UplinkLinked
<1>1. IInv => UplinkLinked BY DEF IInv
<1> QED BY <1>1, Invariant, PTL

(***************************************************************************)
(* Beats of the uplink are verified with its own key.                      *)
(***************************************************************************)
THEOREM UplinkIsVerified ==
  ASSUME NoCommands
  PROVE  Spec => []KeyMatchesUplink
<1>1. IInv => KeyMatchesUplink BY DEF IInv
<1> QED BY <1>1, Invariant, PTL

(***************************************************************************)
(* A recovery only ever starts from NETWORK_JOINED.                        *)
(***************************************************************************)
THEOREM RecoveriesStartJoined ==
  ASSUME NoCommands
  PROVE  Spec => RecoveryFromJoined
<1>1. IInv /\ [Next]_vars =>
        [state # "RECOVERING" /\ state' = "RECOVERING" => state = "NETWORK_JOINED"]_vars
  <2>1. SUFFICES ASSUME IInv, Next, state # "RECOVERING", state' = "RECOVERING"
                 PROVE  state = "NETWORK_JOINED"
    BY DEF vars
  <2>2. ASSUME NEW t, NEW candidates, NEW links, TryDevices(t, candidates, links)
        PROVE  FALSE
    BY <2>1, <2>2 DEF TryDevices, Attempt, NoDevice
  <2>3. ASSUME NEW t, AttemptFailed(t) \/ Rejoin(t) \/ JoinNetwork(t) PROVE FALSE
    BY <2>1, <2>2, <2>3 DEF AttemptFailed, Rejoin, JoinNetwork
  <2>4. ASSUME NEW t, Joined(t) PROVE FALSE
    BY <2>1, <2>4 DEF Joined
  <2>5. ASSUME NEW t \in Callers, HandleCascade(t) PROVE state = "NETWORK_JOINED"
    BY <2>1, <2>5 DEF HandleCascade, IInv, UplinkIffJoined
  <2>6. ASSUME NEW t \in Callers, JoinCommand(t) \/ LeaveCommand(t) PROVE FALSE
    BY <2>6 DEF JoinCommand, LeaveCommand, NoCommands
  <2>7. ASSUME NEW late \in BOOLEAN, MonitorRound(late) PROVE state = "NETWORK_JOINED"
    BY <2>7 DEF MonitorRound
  <2>8. ASSUME \/ \E m \in answers : HandleAuthResponse(m)
               \/ \E a \in Devices : HandleHeartbeat(a)
        PROVE  FALSE
    BY <2>1, <2>8 DEF HandleAuthResponse, HandleHeartbeat
  <2> QED BY <2>1, <2>3, <2>4, <2>5, <2>6, <2>7, <2>8 DEF Next, AutoJoin, Resume
<1> QED BY <1>1, Invariant, PTL DEF Spec, RecoveryFromJoined

(***************************************************************************)
(* The node is a member: tasks, futures and devices implement the three    *)
(* phases and the count of Membership.  Without UplinkIffJoined a beat or  *)
(* a recovery could touch the count of a node that is not joined.          *)
(***************************************************************************)
THEOREM NodeIsMember ==
  ASSUME NoCommands
  PROVE  Spec => IsMember
<1> DEFINE phase == CASE state = "NETWORK_JOINED" -> "joined"
                      [] state = "AUTHENTICATING" -> "trying"
                      [] OTHER -> "out"
           missed == IF uplink = None THEN 0 ELSE uplink.missed
<1>1. Init => Member!Init
  BY DEF Init, Member!Init
<1>2. IInv /\ IInv' /\ [Next]_vars => [Member!Next]_<<phase, missed>>
  <2> SUFFICES ASSUME IInv, IInv', Next
               PROVE  Member!Next \/ UNCHANGED <<phase, missed>>
    BY DEF vars
  <2> USE DEF Member!Next, Member!Try, Member!GiveUp, Member!Join, Member!Beat,
              Member!Miss, Member!Leave
  <2>0. /\ state \in States /\ uplink \in Link \cup {None}
        /\ uplink # None <=> state = "NETWORK_JOINED"
        /\ state' \in States /\ uplink' \in Link \cup {None}
        /\ uplink' # None <=> state' = "NETWORK_JOINED"
    BY DEF IInv, TypeInv, TypeOK, UplinkIffJoined
  <2>1. ASSUME NEW t, NEW candidates, NEW links, TryDevices(t, candidates, links),
               uplink = None
        PROVE  Member!Next \/ UNCHANGED <<phase, missed>>
    <3>1. uplink' = None /\ state' \in {"AUTHENTICATING", "DISCONNECTED"}
      BY <2>1 DEF TryDevices, Attempt, NoDevice
    <3> QED BY <2>0, <2>1, <3>1
  <2>2. ASSUME NEW t \in Tasks, Busy(t) \/ pc[t] = "starting" PROVE uplink = None
    BY <2>2, AloneWhenBusy
  <2>3. CASE AutoJoin
    <3>1. uplink = None
      BY <2>2, <2>3 DEF AutoJoin, Tasks
    <3> QED BY <2>1, <2>3, <3>1 DEF AutoJoin, JoinNetwork
  <2>4. ASSUME NEW t \in Tasks, AttemptFailed(t) \/ Rejoin(t)
        PROVE  Member!Next \/ UNCHANGED <<phase, missed>>
    <3>1. uplink = None
      BY <2>2, <2>4 DEF AttemptFailed, Rejoin, Busy, Trying
    <3> QED BY <2>1, <2>4, <3>1 DEF AttemptFailed, Rejoin
  <2>5. ASSUME NEW t \in Tasks, Joined(t) PROVE Member!Next
    <3>1. state = "AUTHENTICATING"
      BY <2>5 DEF Joined, IInv, StateTellsTask, Trying
    <3>2. state' = "NETWORK_JOINED" /\ uplink' # None /\ uplink'.missed = 0
      BY <2>0, <2>5 DEF Joined
    <3> QED BY <3>1, <3>2
  <2>6. ASSUME NEW t, EnterRecovery(t), uplink # None PROVE Member!Next
    BY <2>0, <2>6 DEF EnterRecovery
  <2>7. ASSUME NEW t \in Callers, HandleCascade(t) PROVE Member!Next
    BY <2>6, <2>7 DEF HandleCascade
  <2>8. ASSUME NEW m \in answers, HandleAuthResponse(m) PROVE UNCHANGED <<phase, missed>>
    BY <2>8 DEF HandleAuthResponse
  <2>9. ASSUME NEW l \in Link, NEW k \in 0 .. 2, uplink = l, state' = state,
               uplink # None, uplink' = [uplink EXCEPT !.missed = k],
               k = 0 \/ k = uplink.missed \/ k = uplink.missed + 1
        PROVE  Member!Next \/ UNCHANGED <<phase, missed>>
    <3>1. uplink'.missed = k /\ uplink.missed \in 0 .. 2
      BY <2>9 DEF Link
    <3>2. phase = "joined" /\ phase' = phase /\ uplink' # None
      BY <2>0, <2>9
    <3> QED BY <2>9, <3>1, <3>2
  <2>10. ASSUME NEW late \in BOOLEAN, MonitorRound(late)
         PROVE  Member!Next \/ UNCHANGED <<phase, missed>>
    <3>1. uplink # None /\ uplink \in Link
      BY <2>0, <2>10 DEF MonitorRound
    <3>2. ASSUME NEW k, k = uplink.missed + (IF late THEN 1 ELSE 0), k < 3
          PROVE  k \in 0 .. 2 /\ (k = uplink.missed \/ k = uplink.missed + 1)
      BY <3>1, <3>2 DEF Link
    <3> QED BY <2>6, <2>9, <2>10, <3>1, <3>2 DEF MonitorRound
  <2>11. ASSUME NEW a \in Devices, HandleHeartbeat(a)
         PROVE  Member!Next \/ UNCHANGED <<phase, missed>>
    BY <2>0, <2>9, <2>11 DEF HandleHeartbeat
  <2>12. ASSUME NEW t \in Callers, JoinCommand(t) \/ LeaveCommand(t) PROVE FALSE
    BY <2>12 DEF JoinCommand, LeaveCommand, NoCommands
  <2> QED BY <2>3, <2>4, <2>5, <2>7, <2>8, <2>10, <2>11, <2>12 DEF Next, Resume
<1> QED BY <1>1, <1>2, Invariant, PTL DEF Spec, IsMember, Member!Spec

(***************************************************************************)
(* With the commands too: a node that says NETWORK_JOINED has an uplink.   *)
(***************************************************************************)
THEOREM JoinedNodesHaveUplink == Spec => []JoinedHasUplink
<1>1. Init => JoinedHasUplink
  BY DEF Init, JoinedHasUplink
<1>2. TypeInv /\ JoinedHasUplink /\ [Next]_vars => JoinedHasUplink'
  <2> SUFFICES ASSUME TypeInv, JoinedHasUplink, [Next]_vars, state' = "NETWORK_JOINED"
               PROVE  uplink' # None
    BY DEF JoinedHasUplink
  <2>1. CASE UNCHANGED <<state, uplink>>
    BY <2>1 DEF JoinedHasUplink
  <2>2. ASSUME NEW t \in Tasks, Joined(t) PROVE uplink' # None
    <3>1. [address |-> dev[t], missed |-> 0] \in Link
      BY <2>2 DEF Joined, TypeInv, Trying, Link
    <3> QED BY <2>2, <3>1, LinkIsNotNone DEF Joined
  <2>3. ASSUME NEW t, NEW candidates, NEW links, TryDevices(t, candidates, links)
        PROVE  FALSE
    BY <2>3 DEF TryDevices, Attempt, NoDevice
  <2>4. ASSUME NEW t, EnterRecovery(t) PROVE FALSE
    BY <2>4 DEF EnterRecovery
  <2>5. ASSUME NEW t, JoinNetwork(t) PROVE UNCHANGED <<state, uplink>>
    BY <2>3, <2>5 DEF JoinNetwork
  <2>6. ASSUME NEW t, AttemptFailed(t) \/ Rejoin(t) PROVE FALSE
    BY <2>3, <2>6 DEF AttemptFailed, Rejoin
  <2>7. ASSUME NEW l \in Link, NEW k \in 0 .. 2, uplink' = [l EXCEPT !.missed = k]
        PROVE  uplink' # None
    <3>1. uplink' \in Link
      BY <2>7 DEF Link
    <3> QED BY <3>1, LinkIsNotNone
  <2>8. ASSUME NEW late \in BOOLEAN, MonitorRound(late) PROVE uplink' # None
    <3>1. uplink \in Link
      BY <2>8 DEF MonitorRound, TypeInv, TypeOK
    <3>2. ASSUME NEW k, k = uplink.missed + (IF late THEN 1 ELSE 0), k < 3
          PROVE  k \in 0 .. 2
      BY <3>1, <3>2 DEF Link
    <3> QED BY <2>4, <2>7, <2>8, <3>1, <3>2 DEF MonitorRound
  <2>9. ASSUME NEW a \in Devices, HandleHeartbeat(a) PROVE uplink' # None
    <3>1. uplink \in Link
      BY <2>9 DEF HandleHeartbeat, TypeInv, TypeOK
    <3>2. uplink' \in Link
      BY <2>9, <3>1 DEF HandleHeartbeat, Link
    <3> QED BY <3>2, LinkIsNotNone
  <2>10. ASSUME NEW m \in answers, HandleAuthResponse(m) PROVE UNCHANGED <<state, uplink>>
    BY <2>10 DEF HandleAuthResponse
  <2> QED BY <2>1, <2>2, <2>4, <2>5, <2>6, <2>8, <2>9, <2>10
          DEF Next, Resume, AutoJoin, HandleCascade, JoinCommand, LeaveCommand, vars
<1> QED BY <1>1, <1>2, TypeInitially, TypeInductive, PTL DEF Spec
-----------------------------------------------------------------------------
(***************************************************************************)
(* With the user's commands: several tasks may be inside a join or a       *)
(* recovery at the same time, and state, uplink and the slot of the        *)
(* pending attempt are written by all of them.  What is left is what each  *)
(* task can say of itself.                                                 *)
(***************************************************************************)

\* A task in an attempt has its device behind it; any other has neither
\* device nor list.
AttemptsKnown ==
  \A t \in Tasks : IF Trying(t) THEN dev[t] \notin rest[t]
                                ELSE dev[t] = None /\ rest[t] = {}

TasksInv == TypeInv /\ AttemptsKnown /\ AnswersAddressed /\ NeverStranded

(***************************************************************************)
(* What a step is to the tasks: one of them goes on to the next of         *)
(* candidates or comes to the end of them; one ends its join, enters a     *)
(* recovery, or has a join refused; an answer is handled; or nothing.      *)
(***************************************************************************)
Others(t) == \A u \in Tasks \ {t} : pc'[u] = pc[u] /\ dev'[u] = dev[u] /\ rest'[u] = rest[u]

GoesOn(t, candidates) ==
  /\ Others(t)
  /\ \/ /\ pc'[t] = "waiting" /\ state' = "AUTHENTICATING"
        /\ dev'[t] \in candidates /\ rest'[t] \subseteq candidates \ {dev'[t]}
        /\ \A m \in answers' : \/ m = [from |-> dev'[t], to |-> t]
                               \/ m.to # t /\ (m.to # None => m \in answers)
     \/ /\ pc'[t] = "idle" /\ state' = "DISCONNECTED"
        /\ dev'[t] = None /\ rest'[t] = {}
        /\ \A m \in answers' : m.to # t /\ (m.to # None => m \in answers)

Recovers(t) ==
  /\ pc[t] = "idle" /\ pc'[t] = "sleeping" /\ state' = "RECOVERING" /\ Others(t)
  /\ UNCHANGED <<dev, rest, answers>>

Refused(t) ==
  /\ pc[t] \in {"starting", "idle"} /\ pc' = [pc EXCEPT ![t] = "idle"]
  /\ UNCHANGED <<state, dev, rest, answers>>

LEMMA TryDevicesGoesOn ==
  ASSUME TypeInv, NEW t \in Tasks, NEW candidates \in SUBSET Devices, NEW links,
         TryDevices(t, candidates, links)
  PROVE  GoesOn(t, candidates)
<1>1. \A m \in Late(t) : m.to # t /\ (m.to # None => m \in answers)
  BY LateAnswers DEF TypeInv
<1>2. DOMAIN pc = Tasks /\ DOMAIN dev = Tasks /\ DOMAIN rest = Tasks
  BY DEF TypeInv, TypeOK
<1>3. ASSUME NEW d \in candidates, NEW skipped \in SUBSET (candidates \ {d}),
             Attempt(t, d, skipped, candidates, links)
      PROVE  GoesOn(t, candidates)
  BY <1>1, <1>2, <1>3 DEF Attempt, GoesOn, Others
<1>4. CASE NoDevice(t, candidates, links)
  BY <1>1, <1>2, <1>4 DEF NoDevice, GoesOn, Others
<1> QED BY <1>3, <1>4 DEF TryDevices

LEMMA EnterRecoveryRecovers ==
  ASSUME TypeInv, NEW t \in Tasks, pc[t] = "idle", EnterRecovery(t)
  PROVE  Recovers(t)
BY DEF EnterRecovery, Recovers, Others, TypeInv, TypeOK

LEMMA JoinGoesOn ==
  ASSUME TypeInv, NEW t \in Tasks, pc[t] \in {"starting", "idle"}, JoinNetwork(t)
  PROVE  Refused(t) \/ \E candidates \in SUBSET Devices : GoesOn(t, candidates)
<1>1. ASSUME NEW found \in Scans, TryDevices(t, found, linked)
      PROVE  \E candidates \in SUBSET Devices : GoesOn(t, candidates)
  BY <1>1, TryDevicesGoesOn DEF Scans
<1> QED BY <1>1 DEF JoinNetwork, Refused

LEMMA StepOfTasks ==
  ASSUME TypeInv, [Next]_vars
  PROVE  \/ \E t \in Tasks, candidates \in SUBSET Devices :
              /\ pc[t] \in {"failed", "waiting"} => candidates = rest[t]
              /\ pc[t] # "answered"
              /\ GoesOn(t, candidates)
         \/ \E t \in Tasks : Joined(t) \/ Recovers(t) \/ Refused(t)
         \/ \E m \in answers : HandleAuthResponse(m)
         \/ UNCHANGED <<state, pc, dev, rest, answers>>
<1> DEFINE Goes == \E t \in Tasks, candidates \in SUBSET Devices :
                     /\ pc[t] \in {"failed", "waiting"} => candidates = rest[t]
                     /\ pc[t] # "answered"
                     /\ GoesOn(t, candidates)
<1>1. CASE AutoJoin
  <2>1. Main \in Tasks /\ pc[Main] = "starting" /\ JoinNetwork(Main)
    BY <1>1 DEF AutoJoin, Tasks
  <2>2. Refused(Main) \/ Goes
    BY <2>1, JoinGoesOn
  <2> QED BY <2>1, <2>2
<1>2. ASSUME NEW t \in Tasks, AttemptFailed(t) PROVE Goes
  <2>1. PICK links \in AfterDisconnect(dev[t], linked) : TryDevices(t, rest[t], links)
    BY <1>2 DEF AttemptFailed
  <2>2. rest[t] \in SUBSET Devices /\ pc[t] \in {"failed", "waiting"}
    BY <1>2 DEF AttemptFailed, TypeInv, TypeOK
  <2>3. GoesOn(t, rest[t])
    BY <2>1, <2>2, TryDevicesGoesOn
  <2> QED BY <2>2, <2>3
<1>3. ASSUME NEW t \in Tasks, Rejoin(t) PROVE Goes
  <2>1. PICK found \in Scans : TryDevices(t, found, linked)
    BY <1>3 DEF Rejoin
  <2>2. GoesOn(t, found) /\ found \in SUBSET Devices
    BY <2>1, TryDevicesGoesOn DEF Scans
  <2> QED BY <1>3, <2>2 DEF Rejoin
<1>4. ASSUME NEW t \in Callers, HandleCascade(t) \/ LeaveCommand(t)
      PROVE  \E u \in Tasks : Recovers(u)
  BY <1>4, EnterRecoveryRecovers DEF HandleCascade, LeaveCommand, Tasks
<1>5. ASSUME NEW t \in Callers, JoinCommand(t) PROVE Refused(t) \/ Goes
  <2>1. t \in Tasks /\ pc[t] = "idle" /\ JoinNetwork(t)
    BY <1>5 DEF JoinCommand, Tasks
  <2> QED BY <2>1, JoinGoesOn
<1>6. ASSUME NEW late \in BOOLEAN, MonitorRound(late)
      PROVE  Recovers(Monitor) \/ UNCHANGED <<state, pc, dev, rest, answers>>
  <2>1. Monitor \in Tasks /\ pc[Monitor] = "idle"
    BY <1>6 DEF MonitorRound, Tasks
  <2>2. CASE EnterRecovery(Monitor)
    BY <2>1, <2>2, EnterRecoveryRecovers
  <2> QED BY <1>6, <2>2 DEF MonitorRound
<1>7. CASE \E a \in Devices : HandleHeartbeat(a)
  BY <1>7 DEF HandleHeartbeat
<1>8. CASE UNCHANGED vars
  BY <1>8 DEF vars
<1> QED BY <1>1, <1>2, <1>3, <1>4, <1>5, <1>6, <1>7, <1>8 DEF Next, Resume, Tasks

(***************************************************************************)
(* An answer is given to the task that waits, and to no other.             *)
(***************************************************************************)
LEMMA AnswerGiven ==
  ASSUME TypeInv, NEW m \in answers, HandleAuthResponse(m)
  PROVE  /\ answers' = answers \ {m} /\ UNCHANGED <<state, dev, rest>>
         /\ \/ pc' = pc
            \/ /\ pending_auth \in Tasks /\ pc[pending_auth] = "waiting"
               /\ \/ pc' = [pc EXCEPT ![pending_auth] = "failed"]
                  \/ /\ pc' = [pc EXCEPT ![pending_auth] = "answered"]
                     /\ m.to = pending_auth
<1>1. ~PendingDone => pending_auth \in Tasks /\ pc[pending_auth] = "waiting"
  BY DEF PendingDone, TypeInv, TypeOK
<1> QED BY <1>1 DEF HandleAuthResponse

LEMMA TasksInitially == Init => TasksInv
<1>1. Init => AttemptsKnown /\ AnswersAddressed /\ NeverStranded
  BY DEF Init, AttemptsKnown, AnswersAddressed, NeverStranded, Trying
<1> QED BY <1>1, TypeInitially DEF TasksInv

LEMMA TasksInductive == TasksInv /\ [Next]_vars => TasksInv'
<1> SUFFICES ASSUME TasksInv, [Next]_vars PROVE TasksInv' OBVIOUS
<1>1. TypeInv /\ TypeInv'
  BY TypeInductive DEF TasksInv
<1>2. /\ DOMAIN pc = Tasks /\ DOMAIN dev = Tasks /\ DOMAIN rest = Tasks
      /\ \A m \in answers : m.to \in Tasks \cup {None} /\ m.from \in Devices
      /\ \A m \in answers' : m.to \in Tasks \cup {None}
      /\ \A t \in Tasks :
           pc[t] \in {"starting", "idle", "waiting", "answered", "failed", "sleeping"}
  BY <1>1 DEF TypeInv, TypeOK, Answer
<1> USE DEF TasksInv, AttemptsKnown, AnswersAddressed, NeverStranded, Busy, Trying
<1>3. ASSUME NEW t \in Tasks, NEW candidates \in SUBSET Devices, GoesOn(t, candidates)
      PROVE  TasksInv'
  <2>1. AttemptsKnown'
    BY <1>3 DEF GoesOn, Others
  <2>2. AnswersAddressed'
    <3> SUFFICES ASSUME NEW m \in answers', m.to # None, pc'[m.to] = "waiting"
                 PROVE  m.from = dev'[m.to]
      OBVIOUS
    <3>1. CASE m.to = t
      BY <1>3, <3>1 DEF GoesOn
    <3>2. CASE m.to # t
      BY <1>2, <1>3, <3>2 DEF GoesOn, Others
    <3> QED BY <3>1, <3>2
  <2>3. NeverStranded'
    BY <1>3 DEF GoesOn
  <2> QED BY <1>1, <2>1, <2>2, <2>3
<1>4. ASSUME NEW t \in Tasks, Joined(t) PROVE TasksInv'
  <2>1. /\ pc' = [pc EXCEPT ![t] = "idle"] /\ state' = "NETWORK_JOINED"
        /\ dev' = [dev EXCEPT ![t] = None] /\ rest' = [rest EXCEPT ![t] = {}]
        /\ answers' = answers
    BY <1>4 DEF Joined
  <2>2. AttemptsKnown'
    BY <1>2, <2>1
  <2>3. AnswersAddressed'
    BY <1>2, <2>1
  <2> QED BY <1>1, <2>1, <2>2, <2>3
<1>5. ASSUME NEW t \in Tasks, Recovers(t) PROVE TasksInv'
  <2>1. AttemptsKnown'
    BY <1>5 DEF Recovers, Others
  <2>2. AnswersAddressed'
    BY <1>2, <1>5 DEF Recovers, Others
  <2> QED BY <1>1, <1>5, <2>1, <2>2 DEF Recovers
<1>6. ASSUME NEW t \in Tasks, Refused(t) PROVE TasksInv'
  <2>1. AttemptsKnown'
    BY <1>2, <1>6 DEF Refused
  <2>2. AnswersAddressed'
    BY <1>2, <1>6 DEF Refused
  <2>3. \A u \in Tasks : Busy(u) => Busy(u)'
    BY <1>2, <1>6 DEF Refused
  <2> QED BY <1>1, <1>6, <2>1, <2>2, <2>3 DEF Refused
<1>7. ASSUME NEW m \in answers, HandleAuthResponse(m) PROVE TasksInv'
  <2>1. /\ answers' = answers \ {m} /\ UNCHANGED <<state, dev, rest>>
        /\ \/ pc' = pc
           \/ /\ pending_auth \in Tasks /\ pc[pending_auth] = "waiting"
              /\ \/ pc' = [pc EXCEPT ![pending_auth] = "failed"]
                 \/ pc' = [pc EXCEPT ![pending_auth] = "answered"]
    BY <1>1, <1>7, AnswerGiven
  <2>2. \A u \in Tasks : (Trying(u)' <=> Trying(u)) /\ (Busy(u) => Busy(u)')
    BY <1>2, <2>1
  <2>3. \A u \in Tasks : pc'[u] = "waiting" => pc[u] = "waiting"
    BY <1>2, <2>1
  <2>4. AttemptsKnown'
    BY <2>1, <2>2
  <2>5. AnswersAddressed'
    BY <1>2, <2>1, <2>3
  <2>6. NeverStranded'
    BY <2>1, <2>2
  <2> QED BY <1>1, <2>4, <2>5, <2>6
<1>8. CASE UNCHANGED <<state, pc, dev, rest, answers>>
  BY <1>1, <1>8
<1> QED BY <1>1, <1>3, <1>4, <1>5, <1>6, <1>7, <1>8, StepOfTasks

(***************************************************************************)
(* Whatever cuts into an attempt or a recovery, a half joined node has a   *)
(* task that is inside one.                                                *)
(***************************************************************************)
THEOREM NobodyStrands == Spec => []NeverStranded
<1>1. TasksInv => NeverStranded
  BY DEF TasksInv
<1> QED BY <1>1, TasksInitially, TasksInductive, PTL DEF Spec

(***************************************************************************)
(* A join tries each device its scan found at most once.                   *)
(***************************************************************************)
THEOREM JoinsMoveOn == Spec => JoinMovesOn
<1>1. TasksInv /\ [Next]_vars
        => [\A t \in Tasks :
              /\ Trying(t) /\ Trying(t)' =>
                   \/ UNCHANGED <<dev[t], rest[t]>>
                   \/ dev'[t] \in rest[t] /\ rest'[t] \subseteq rest[t] \ {dev'[t], dev[t]}
              /\ Trying(t) => pc'[t] # "sleeping"]_vars
  <2> SUFFICES ASSUME TasksInv, Next, NEW t \in Tasks, Trying(t)
               PROVE  /\ Trying(t)' =>
                           \/ UNCHANGED <<dev[t], rest[t]>>
                           \/ /\ dev'[t] \in rest[t]
                              /\ rest'[t] \subseteq rest[t] \ {dev'[t], dev[t]}
                      /\ pc'[t] # "sleeping"
    OBVIOUS
  <2>1. TypeInv /\ dev[t] \notin rest[t] /\ pc[t] \in {"waiting", "answered", "failed"}
    BY DEF TasksInv, AttemptsKnown, Trying
  <2>2. DOMAIN pc = Tasks
    BY <2>1 DEF TypeInv, TypeOK
  <2>3. ASSUME NEW u \in Tasks, NEW candidates \in SUBSET Devices, GoesOn(u, candidates),
               pc[u] \in {"failed", "waiting"} => candidates = rest[u], pc[u] # "answered"
        PROVE  /\ \/ pc'[t] = "idle"
                  \/ UNCHANGED <<dev[t], rest[t]>>
                  \/ dev'[t] \in rest[t] /\ rest'[t] \subseteq rest[t] \ {dev'[t], dev[t]}
               /\ pc'[t] # "sleeping"
    <3>1. CASE u = t
      BY <2>1, <2>3, <3>1 DEF GoesOn
    <3>2. CASE u # t
      BY <2>1, <2>3, <3>2 DEF GoesOn, Others
    <3> QED BY <3>1, <3>2
  <2>4. ASSUME NEW u \in Tasks, Joined(u) \/ Recovers(u) \/ Refused(u)
        PROVE  /\ pc'[t] = "idle" \/ UNCHANGED <<dev[t], rest[t]>>
               /\ pc'[t] # "sleeping"
    <3>1. CASE Joined(u)
      <4>1. dev' = [dev EXCEPT ![u] = None] /\ rest' = [rest EXCEPT ![u] = {}]
            /\ pc' = [pc EXCEPT ![u] = "idle"]
        BY <3>1 DEF Joined
      <4> QED BY <2>1, <2>2, <4>1
    <3>2. CASE Recovers(u)
      BY <2>1, <3>2 DEF Recovers, Others
    <3>3. CASE Refused(u)
      BY <2>1, <2>2, <3>3 DEF Refused
    <3> QED BY <2>4, <3>1, <3>2, <3>3
  <2>5. ASSUME NEW m \in answers, HandleAuthResponse(m)
        PROVE  UNCHANGED <<dev[t], rest[t]>> /\ pc'[t] # "sleeping"
    BY <2>1, <2>2, <2>5, AnswerGiven
  <2>6. CASE UNCHANGED <<state, pc, dev, rest, answers>>
    BY <2>1, <2>6
  <2> QED BY <2>1, <2>3, <2>4, <2>5, <2>6, StepOfTasks DEF Trying
<1> QED BY <1>1, TasksInitially, TasksInductive, PTL DEF Spec, JoinMovesOn

(***************************************************************************)
(* Only the answer of the device it tries makes a wait succeed.            *)
(***************************************************************************)
THEOREM OwnAnswerOnly == Spec => AnsweredByOwnDevice
<1>1. TasksInv /\ [Next]_vars
        => [\A t \in Tasks :
              pc[t] # "answered" /\ pc'[t] = "answered" =>
                [from |-> dev[t], to |-> t] \in answers \ answers']_vars
  <2> SUFFICES ASSUME TasksInv, Next, NEW t \in Tasks,
                      pc[t] # "answered", pc'[t] = "answered"
               PROVE  [from |-> dev[t], to |-> t] \in answers \ answers'
    OBVIOUS
  <2>1. TypeInv /\ AnswersAddressed
    BY DEF TasksInv
  <2>2. DOMAIN pc = Tasks /\ \A m \in answers : m = [from |-> m.from, to |-> m.to]
    BY <2>1 DEF TypeInv, TypeOK, Answer
  <2>3. PICK m \in answers : HandleAuthResponse(m)
    <3>1. ASSUME NEW u \in Tasks, NEW candidates \in SUBSET Devices, GoesOn(u, candidates)
          PROVE  FALSE
      BY <3>1 DEF GoesOn, Others
    <3>2. ASSUME NEW u \in Tasks, Joined(u) \/ Recovers(u) \/ Refused(u) PROVE FALSE
      BY <2>2, <3>2 DEF Joined, Recovers, Refused, Others
    <3> QED BY <2>1, <3>1, <3>2, StepOfTasks
  <2>4. /\ answers' = answers \ {m} /\ pc[t] = "waiting" /\ m.to = t
    BY <2>1, <2>2, <2>3, AnswerGiven
  <2>5. m.from = dev[t]
    BY <2>1, <2>4, NodeAssumption DEF AnswersAddressed
  <2> QED BY <2>2, <2>4, <2>5
<1> QED BY <1>1, TasksInitially, TasksInductive, PTL DEF Spec, AnsweredByOwnDevice
-----------------------------------------------------------------------------
(***************************************************************************)
(* Liveness.  A busy task can always be resumed, its timer sees to that,   *)
(* so this is the weak fairness of Resume(t) with ENABLED spelt out.       *)
(***************************************************************************)
IsResumed(t) == []<>(~Busy(t)) \/ []<><<Resume(t)>>_vars

\* The attempt of t on d with r before it or, with None and {}, its recovery.
Inside(t, d, r) == Busy(t) /\ dev[t] = d /\ rest[t] = r
Ends(t, d, r) == Inside(t, d, r) ~> ~Inside(t, d, r)

LEMMA AttemptEnds ==
  ASSUME NEW t \in Tasks, NEW d \in Devices \cup {None}, NEW r \in SUBSET Devices
  PROVE  Spec /\ IsResumed(t) => Ends(t, d, r)
<1>1. TasksInv /\ <<Resume(t)>>_vars /\ Inside(t, d, r) => ~Inside(t, d, r)'
  <2> SUFFICES ASSUME TasksInv, Resume(t), Busy(t), Inside(t, d, r)
               PROVE  ~Busy(t)' \/ dev'[t] # d
    BY DEF Inside
  <2>1. TypeInv /\ (Trying(t) => dev[t] \notin rest[t]) /\ (~Trying(t) => dev[t] = None)
    BY DEF TasksInv, AttemptsKnown
  <2>2. ASSUME NEW candidates \in SUBSET Devices, GoesOn(t, candidates),
               d \notin candidates
        PROVE  ~Busy(t)' \/ dev'[t] # d
    BY <2>2 DEF GoesOn, Busy, Trying
  <2>3. CASE Joined(t)
    BY <2>1, <2>3 DEF Joined, Busy, Trying, TypeInv, TypeOK
  <2>4. CASE AttemptFailed(t)
    <3>1. PICK links \in AfterDisconnect(dev[t], linked) : TryDevices(t, rest[t], links)
      BY <2>4 DEF AttemptFailed
    <3>2. rest[t] \in SUBSET Devices /\ d \notin rest[t]
      BY <2>1, <2>4 DEF AttemptFailed, Trying, Inside, TypeInv, TypeOK
    <3> QED BY <2>1, <2>2, <3>1, <3>2, TryDevicesGoesOn
  <2>5. CASE Rejoin(t)
    <3>1. PICK found \in Scans : TryDevices(t, found, linked)
      BY <2>5 DEF Rejoin
    <3>2. d \notin found /\ found \in SUBSET Devices
      BY <2>1, <2>5, NodeAssumption DEF Rejoin, Trying, Inside, Scans
    <3> QED BY <2>1, <2>2, <3>1, <3>2, TryDevicesGoesOn
  <2> QED BY <2>3, <2>4, <2>5 DEF Resume
<1>2. Inside(t, d, r) => Busy(t)
  BY DEF Inside
<1> QED BY <1>1, <1>2, TasksInitially, TasksInductive, PTL DEF Spec, IsResumed, Ends

(***************************************************************************)
(* Every attempt and every sleep of a recovery ends, with any number of    *)
(* tasks and devices and whatever commands cut in.  With JoinsMoveOn, by   *)
(* which a join has fewer devices left after each attempt, this is why     *)
(* EveryTaskReturns holds; the induction over the devices left is beyond   *)
(* the prover.                                                             *)
(***************************************************************************)
THEOREM AttemptsEnd ==
  Spec /\ (\A t \in Tasks : IsResumed(t)) =>
    \A t \in Tasks, d \in Devices \cup {None}, r \in SUBSET Devices : Ends(t, d, r)
<1>1. ASSUME NEW t \in Tasks, NEW d \in Devices \cup {None}, NEW r \in SUBSET Devices
      PROVE  Spec /\ IsResumed(t) => Ends(t, d, r)
  BY AttemptEnds
<1> QED BY <1>1
=============================================================================
