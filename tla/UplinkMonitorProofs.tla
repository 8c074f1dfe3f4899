------------------------- MODULE UplinkMonitorProofs -------------------------
(***************************************************************************)
(* Proofs about UplinkMonitor, for every interval, lag, delay, loss and    *)
(* tolerance, and a clock without bound: the monitor implements the        *)
(* failure detector, and raises no false alarm when the radio is calm.     *)
(***************************************************************************)
EXTENDS UplinkMonitor, TLAPS

\* No deadline is overrun, none is further away than one sleep.
Deadlines ==
  /\ alive => now <= beat_at + SinkLag
  /\ joined => now <= check_at + NodeLag
  /\ \A ts \in flying : now <= ts + MaxDelay
  /\ last_timestamp <= now /\ last_heartbeat <= now /\ last_good <= now
  /\ check_at <= now + Interval

\* What the counter says about the silence at the next check.
Misses3 ==
  joined =>
    /\ missed = 0 => check_at <= last_heartbeat + 2 * Interval
    /\ missed = 1 => /\ check_at > last_heartbeat + 2 * Interval
                     /\ check_at <= last_heartbeat + 3 * Interval + NodeLag
    /\ missed = 2 => /\ check_at > last_heartbeat + 3 * Interval
                     /\ check_at <= last_heartbeat + 4 * Interval + 2 * NodeLag

IInv == TypeOK /\ Deadlines /\ Misses3

LEMMA Initially == Init => IInv
BY MonitorAssumption DEF Init, IInv, TypeOK, Deadlines, Misses3

(***************************************************************************)
(* A round of the monitor gives up only from the third miss, which means   *)
(* more than three intervals of silence.                                   *)
(***************************************************************************)
LEMMA RoundGivesUp ==
  ASSUME IInv, MonitorRound, Misses >= 3
  PROVE  now - last_heartbeat > 3 * Interval
<1>1. missed = 2
  BY DEF Misses, IInv, TypeOK
<1> QED BY <1>1, MonitorAssumption DEF MonitorRound, IInv, TypeOK, Misses3

(***************************************************************************)
(* A round that does not give up keeps the relation between counter and    *)
(* silence.                                                                *)
(***************************************************************************)
LEMMA RoundCounts ==
  ASSUME IInv, MonitorRound, ~(Misses >= 3)
  PROVE  missed' \in 0 .. 2 /\ Misses3'
<1> USE MonitorAssumption DEF IInv, TypeOK
<1>1. missed' = Misses /\ joined' /\ check_at' = now + Interval
      /\ last_heartbeat' = last_heartbeat
  BY Zenon DEF MonitorRound
<1>2. CASE now - last_heartbeat > Interval
  <2>1. Misses = missed + 1 /\ missed \in 0 .. 1
    BY <1>2 DEF Misses
  <2>2. CASE missed = 0
    BY <1>1, <1>2, <2>1, <2>2 DEF Misses3, MonitorRound, Deadlines
  <2>3. CASE missed = 1
    BY <1>1, <1>2, <2>1, <2>3 DEF Misses3, MonitorRound, Deadlines
  <2> QED BY <2>1, <2>2, <2>3
<1>3. CASE ~(now - last_heartbeat > Interval)
  <2>1. Misses = missed
    BY <1>3 DEF Misses
  <2>2. missed = 0
    BY <1>3 DEF Misses3, MonitorRound
  <2> QED BY <1>1, <1>3, <2>1, <2>2 DEF Misses3
<1> QED BY <1>2, <1>3

LEMMA Inductive == IInv /\ [Next]_vars => IInv'
<1> SUFFICES ASSUME IInv, [Next]_vars PROVE IInv' OBVIOUS
<1> USE MonitorAssumption
<1>1. CASE SendBeat
  <2>0. flying' \subseteq flying \cup {now} /\ beat_at' = now + Interval
        /\ last_good' \in {last_good, now} /\ lost' \in 0 .. MaxLoss
    BY <1>1 DEF SendBeat, IInv, TypeOK
  <2>1. TypeOK'
    BY <1>1, <2>0 DEF SendBeat, node, IInv, TypeOK
  <2> QED BY <1>1, <2>1 DEF SendBeat, node, IInv, TypeOK, Deadlines, Misses3
<1>2. CASE Stop
  BY <1>2 DEF Stop, node, IInv, TypeOK, Deadlines, Misses3
<1>3. ASSUME NEW ts \in flying, HandleHeartbeat(ts) PROVE IInv'
  <2>1. ts \in Nat /\ ts <= now
    BY DEF IInv, TypeOK
  <2>2. TypeOK' /\ Deadlines'
    BY <1>3, <2>1 DEF HandleHeartbeat, sink, IInv, TypeOK, Deadlines
  <2>3. Misses3'
    BY <1>3 DEF HandleHeartbeat, sink, IInv, TypeOK, Deadlines, Misses3
  <2> QED BY <2>2, <2>3 DEF IInv
<1>4. CASE MonitorRound
  <2>1. Deadlines'
    BY <1>4 DEF MonitorRound, sink, IInv, TypeOK, Deadlines
  <2>2. /\ UNCHANGED <<now, alive, beat_at, last_good, lost, flying, last_timestamp,
                       last_heartbeat>>
        /\ check_at' = now + Interval
    BY <1>4 DEF MonitorRound, sink
  <2>3. CASE Misses >= 3
    <3>1. joined' = FALSE /\ missed' = 0
      BY <1>4, <2>3 DEF MonitorRound
    <3>2. joined' \in BOOLEAN
      BY <3>1, Zenon
    <3>3. missed' \in 0 .. 2 /\ check_at' \in Nat
      BY <2>2, <3>1 DEF IInv, TypeOK
    <3>4. TypeOK'
      BY <2>2, <3>2, <3>3 DEF IInv, TypeOK
    <3>5. Misses3'
      BY <3>1 DEF Misses3
    <3> QED BY <2>1, <3>4, <3>5 DEF IInv
  <2>4. CASE ~(Misses >= 3)
    <3>1. joined' \in BOOLEAN
      BY <1>4, <2>4, Zenon DEF MonitorRound
    <3>2. missed' \in 0 .. 2 /\ Misses3'
      BY <1>4, <2>4, RoundCounts
    <3> QED BY <2>1, <2>2, <3>1, <3>2 DEF IInv, TypeOK
  <2> QED BY <2>3, <2>4
<1>5. CASE Tick
  BY <1>5 DEF Tick, sink, node, IInv, TypeOK, Deadlines, Misses3
<1>6. CASE UNCHANGED vars
  BY <1>6 DEF vars, sink, node, IInv, TypeOK, Deadlines, Misses3
<1> QED BY <1>1, <1>2, <1>3, <1>4, <1>5, <1>6 DEF Next
-----------------------------------------------------------------------------
(***************************************************************************)
(* Types, and with them that the counter never exceeds two.                *)
(***************************************************************************)
THEOREM TypeCorrect == Spec => []TypeOK
<1>1. IInv => TypeOK BY DEF IInv
<1> QED BY <1>1, Initially, Inductive, PTL DEF Spec

(***************************************************************************)
(* The two loops and the counter implement the failure detector: more than *)
(* three intervals of silence before the uplink is given up, and never     *)
(* more than four and the lateness of three rounds.                        *)
(***************************************************************************)
THEOREM MonitorDetects == Spec => DetectsFailure
<1> USE MonitorAssumption
<1>1. Init => Detector!Init
  BY DEF Init, Detector!Init
<1>2. IInv /\ [Next]_vars => [Detector!Next]_<<now, last_heartbeat, joined>>
  <2> SUFFICES ASSUME IInv, Next
               PROVE  Detector!Next \/ UNCHANGED <<now, last_heartbeat, joined>>
    BY DEF vars, node
  <2>1. CASE SendBeat \/ Stop
    BY <2>1 DEF SendBeat, Stop, node
  <2>2. ASSUME NEW ts \in flying, HandleHeartbeat(ts)
        PROVE  Detector!Hear \/ UNCHANGED <<now, last_heartbeat, joined>>
    BY <2>2 DEF HandleHeartbeat, sink, Detector!Hear
  <2>3. ASSUME MonitorRound
        PROVE  Detector!GiveUp \/ UNCHANGED <<now, last_heartbeat, joined>>
    <3>1. CASE Misses >= 3
      <4>1. now - last_heartbeat > 3 * Interval
        BY <2>3, <3>1, RoundGivesUp
      <4> QED BY <2>3, <3>1, <4>1 DEF MonitorRound, Detector!GiveUp
    <3>2. CASE ~(Misses >= 3)
      BY <2>3, <3>2 DEF MonitorRound, IInv, TypeOK
    <3> QED BY <3>1, <3>2
  <2>4. ASSUME Tick PROVE Detector!Pass
    <3>1. now' - last_heartbeat <= 4 * Interval + 3 * NodeLag
      BY <2>4 DEF Tick, IInv, TypeOK, Misses3
    <3> QED BY <2>4, <3>1 DEF Tick, node, Detector!Pass
  <2> QED BY <2>1, <2>2, <2>3, <2>4 DEF Next, Detector!Next
<1> QED BY <1>1, <1>2, Initially, Inductive, PTL DEF Spec, DetectsFailure, Detector!Spec
-----------------------------------------------------------------------------
(***************************************************************************)
(* What the node heard last was sent at most MaxDelay before, and no later *)
(* than the last beat that got out.                                        *)
(***************************************************************************)
HeardWasSent ==
  /\ \A ts \in flying : ts <= last_good
  /\ last_heartbeat <= last_good + MaxDelay

LEMMA HeardWasSentInductive == IInv /\ HeardWasSent /\ [Next]_vars => HeardWasSent'
<1> SUFFICES ASSUME IInv, HeardWasSent, [Next]_vars PROVE HeardWasSent' OBVIOUS
<1> USE MonitorAssumption DEF IInv, TypeOK, Deadlines, HeardWasSent
<1>1. CASE SendBeat
  <2>1. last_heartbeat' = last_heartbeat /\ now <= now + MaxDelay
    BY <1>1 DEF SendBeat, node
  <2>2. CASE flying' = flying \cup {now} /\ last_good' = now
    BY <2>1, <2>2
  <2>3. CASE UNCHANGED <<flying, last_good>>
    BY <2>1, <2>3
  <2> QED BY <1>1, <2>2, <2>3 DEF SendBeat
<1>2. CASE Stop
  BY <1>2 DEF Stop, node
<1>3. ASSUME NEW ts \in flying, HandleHeartbeat(ts) PROVE HeardWasSent'
  BY <1>3 DEF HandleHeartbeat, sink
<1>4. CASE MonitorRound
  BY <1>4 DEF MonitorRound, sink
<1>5. CASE Tick
  BY <1>5 DEF Tick, sink, node
<1>6. CASE UNCHANGED vars
  BY <1>6 DEF vars, sink, node
<1> QED BY <1>1, <1>2, <1>3, <1>4, <1>5, <1>6 DEF Next

(***************************************************************************)
(* Four intervals, three late rounds and one delay after the last beat of  *)
(* the sink at the latest the node has left it.                            *)
(***************************************************************************)
THEOREM DeadSinksAreLeft == Spec => []DeadSinkIsLeft
<1> USE MonitorAssumption
<1>1. Init => HeardWasSent
  BY DEF Init, HeardWasSent
<1>2. IInv /\ HeardWasSent => DeadSinkIsLeft
  <2> SUFFICES ASSUME IInv, HeardWasSent, joined
               PROVE  now - last_good <= 4 * Interval + 3 * NodeLag + MaxDelay
    BY DEF DeadSinkIsLeft
  <2>1. now - last_heartbeat <= 4 * Interval + 3 * NodeLag
    BY DEF IInv, TypeOK, Deadlines, Misses3
  <2>2. last_heartbeat <= last_good + MaxDelay
    BY DEF HeardWasSent
  <2> QED BY <2>1, <2>2 DEF IInv, TypeOK
<1> QED BY <1>1, <1>2, Initially, Inductive, HeardWasSentInductive, PTL DEF Spec

(***************************************************************************)
(* The timed monitor is the monitor of a member.                           *)
(***************************************************************************)
THEOREM MonitorIsMember == Spec => StaysMember
<1>1. IInv /\ [Next]_vars => [Member!Next]_<<joined, missed>>
  <2> SUFFICES ASSUME IInv, [Next]_vars, ~UNCHANGED <<joined, missed>>
               PROVE  Member!Next
    OBVIOUS
  <2> USE DEF Member!Next, Member!Beat, Member!Miss, Member!Leave
  <2>1. ASSUME NEW ts \in flying, HandleHeartbeat(ts) PROVE Member!Beat
    BY <2>1 DEF HandleHeartbeat
  <2>2. ASSUME MonitorRound PROVE Member!Miss \/ Member!Leave
    <3>1. CASE Misses >= 3
      BY <2>2, <3>1 DEF MonitorRound
    <3>2. CASE ~(Misses >= 3)
      <4>1. joined /\ joined' = TRUE /\ missed' = Misses
        BY <2>2, <3>2 DEF MonitorRound
      <4>2. missed' = missed + 1 /\ missed < 2
        BY <3>2, <4>1 DEF Misses, IInv, TypeOK
      <4> QED BY <4>1, <4>2
    <3> QED BY <3>1, <3>2
  <2>3. MonitorRound \/ \E ts \in flying : HandleHeartbeat(ts)
    BY DEF Next, SendBeat, Stop, Tick, vars, node
  <2> QED BY <2>1, <2>2, <2>3
<1> QED BY <1>1, Initially, Inductive, PTL DEF Spec, StaysMember
-----------------------------------------------------------------------------
(***************************************************************************)
(* Arithmetic of the silence of a sink that is alive: Gap is the longest   *)
(* time between two beats that follow each other without a loss, Reach how *)
(* far apart two beats that are not lost may be.                           *)
(***************************************************************************)
Gap == Interval + SinkLag
Reach == (MaxLoss + 1) * Gap

LEMMA Products ==
  /\ Gap \in Nat /\ Reach \in Nat
  /\ \A l \in 0 .. MaxLoss :
       /\ l * Gap \in Nat
       /\ (l + 1) * Gap = l * Gap + Gap
       /\ l * Gap + Gap <= Reach
  /\ 0 * Gap = 0
  /\ MaxSilence = Reach + MaxDelay
<1>1. Gap \in Nat /\ MaxLoss \in Nat
  BY MonitorAssumption DEF Gap
<1>2. ASSUME NEW l \in 0 .. MaxLoss
      PROVE  /\ l * Gap \in Nat
             /\ (l + 1) * Gap = l * Gap + Gap
             /\ l * Gap + Gap <= Reach
  <2>1. l * Gap \in Nat /\ (l + 1) * Gap = l * Gap + Gap
    BY <1>1
  <2>2. l * Gap <= MaxLoss * Gap /\ MaxLoss * Gap \in Nat
    BY <1>1
  <2>3. Reach = MaxLoss * Gap + Gap
    BY <1>1 DEF Reach
  <2> QED BY <1>1, <2>1, <2>2, <2>3
<1>3. Reach \in Nat
  BY <1>1 DEF Reach
<1> QED BY <1>1, <1>2, <1>3 DEF MaxSilence, Reach, Gap

\* A beat is due in time after the last good one; what was sent and not lost
\* has been heard, or is under way since it was due.
Silence ==
  /\ alive => beat_at <= last_good + lost * Gap + Interval
  /\ joined => \/ flying = {} /\ last_good <= last_heartbeat
               \/ \E ts \in flying : ts <= last_heartbeat + Reach

LEMMA SilenceInductive ==
  Calm /\ IInv /\ Silence /\ [Next]_vars => Silence'
<1> SUFFICES ASSUME Calm, IInv, Silence, [Next]_vars PROVE Silence' OBVIOUS
<1> USE MonitorAssumption, Products
<1>1. CASE SendBeat
  <2>0. lost \in 0 .. MaxLoss /\ lost * Gap \in Nat /\ Gap = Interval + SinkLag
    BY DEF IInv, TypeOK, Gap
  <2>1. beat_at' = now + Interval /\ now <= beat_at + SinkLag /\ alive
        /\ UNCHANGED <<alive, joined, last_heartbeat>>
    BY <1>1 DEF SendBeat, node, IInv, Deadlines
  <2>2. CASE flying' = flying \cup {now} /\ last_good' = now /\ lost' = 0
    <3>1. alive' => beat_at' <= last_good' + lost' * Gap + Interval
      BY <2>1, <2>2 DEF IInv, TypeOK
    <3>2. flying = {} /\ last_good <= last_heartbeat => now <= last_heartbeat + Reach
      <4>1. now <= last_good + lost * Gap + Gap
        BY <2>0, <2>1 DEF Silence, IInv, TypeOK
      <4>2. lost * Gap + Gap <= Reach
        BY <2>0
      <4> QED BY <2>0, <4>1, <4>2 DEF IInv, TypeOK
    <3>3. joined' => \E ts \in flying' : ts <= last_heartbeat' + Reach
      BY <2>1, <2>2, <3>2 DEF Silence
    <3> QED BY <3>1, <3>3 DEF Silence
  <2>3. CASE lost < MaxLoss /\ lost' = lost + 1 /\ UNCHANGED <<flying, last_good>>
    <3>1. lost' * Gap = lost * Gap + Gap
      BY <2>0, <2>3
    <3>2. beat_at' <= last_good' + lost' * Gap + Interval
      BY <2>0, <2>1, <2>3, <3>1 DEF Silence, IInv, TypeOK
    <3> QED BY <2>1, <2>3, <3>2 DEF Silence
  <2> QED BY <1>1, <2>2, <2>3 DEF SendBeat
<1>2. CASE Stop
  BY <1>2 DEF Stop, node, Silence
<1>3. ASSUME NEW ts \in flying, HandleHeartbeat(ts) PROVE Silence'
  <2>1. IsValid(ts)
    BY DEF IsValid, Calm, IInv, TypeOK, Deadlines
  <2>2. /\ last_heartbeat' = now /\ flying' = flying \ {ts}
        /\ UNCHANGED <<alive, beat_at, last_good, lost, joined>>
    BY <1>3, <2>1 DEF HandleHeartbeat, sink
  <2>3. alive' => beat_at' <= last_good' + lost' * Gap + Interval
    <3>1. lost' * Gap = lost * Gap
      BY <2>2
    <3> QED BY <2>2, <3>1 DEF Silence
  <2>4. CASE flying' = {}
    <3>1. last_good' <= last_heartbeat'
      BY <2>2 DEF IInv, Deadlines
    <3> QED BY <2>3, <2>4, <3>1 DEF Silence
  <2>5. CASE flying' # {}
    <3>1. \A x \in flying' : x <= last_heartbeat' + Reach
      BY <2>2 DEF IInv, TypeOK
    <3>2. \E x \in flying' : x <= last_heartbeat' + Reach
      BY <2>5, <3>1
    <3> QED BY <2>3, <3>2 DEF Silence
  <2> QED BY <2>4, <2>5
<1>4. CASE MonitorRound
  BY <1>4 DEF MonitorRound, sink, Silence
<1>5. CASE Tick
  BY <1>5 DEF Tick, sink, node, Silence
<1>6. CASE UNCHANGED vars
  BY <1>6 DEF vars, sink, node, Silence
<1> QED BY <1>1, <1>2, <1>3, <1>4, <1>5, <1>6 DEF Next

(***************************************************************************)
(* As long as the sink is alive, silence is shorter than the timeout.      *)
(***************************************************************************)
LEMMA SilenceIsShort ==
  ASSUME Calm, IInv, Silence, alive, joined
  PROVE  now - last_heartbeat <= 3 * Interval
<1> USE MonitorAssumption, Products
<1>1. Reach + MaxDelay <= 3 * Interval
  BY DEF Calm
<1>2. CASE flying = {} /\ last_good <= last_heartbeat
  <2>1. lost \in 0 .. MaxLoss /\ Gap = Interval + SinkLag
    BY DEF IInv, TypeOK, Gap
  <2>2. lost * Gap \in Nat /\ lost * Gap + Gap <= Reach
    BY <2>1
  <2>3. now <= last_good + lost * Gap + Gap
    BY <2>1, <2>2 DEF Silence, IInv, TypeOK, Deadlines
  <2> QED BY <1>1, <1>2, <2>2, <2>3 DEF IInv, TypeOK
<1>3. CASE \E ts \in flying : ts <= last_heartbeat + Reach
  <2>1. PICK ts \in flying : ts <= last_heartbeat + Reach
    BY <1>3
  <2>2. ts \in Nat /\ now <= ts + MaxDelay
    BY <2>1 DEF IInv, TypeOK, Deadlines
  <2> QED BY <1>1, <2>1, <2>2 DEF IInv, TypeOK
<1> QED BY <1>2, <1>3 DEF Silence

(***************************************************************************)
(* A sink that is alive is not given up when the radio is calm, for every  *)
(* phase of the loops and every order in which beats arrive.               *)
(***************************************************************************)
THEOREM CalmRadioNoAlarm == Spec => []NoFalseAlarm
<1>1. CASE ~Calm
  <2>1. NoFalseAlarm
    BY <1>1 DEF NoFalseAlarm
  <2> QED BY <2>1, PTL
<1>2. CASE Calm
  <2> DEFINE Inv == IInv /\ Silence /\ NoFalseAlarm
  <2>1. Init => Inv
    BY Initially, Products, MonitorAssumption DEF Init, Silence, NoFalseAlarm
  <2>2. Inv /\ [Next]_vars => Inv'
    <3> SUFFICES ASSUME Inv, [Next]_vars PROVE Inv' OBVIOUS
    <3>1. IInv' /\ Silence'
      BY <1>2, Inductive, SilenceInductive
    <3>2. CASE joined' = joined
      <4>1. alive' => alive
        BY DEF Next, vars, SendBeat, Stop, HandleHeartbeat, MonitorRound, Tick, sink, node
      <4> QED BY <3>1, <3>2, <4>1 DEF NoFalseAlarm
    <3>3. CASE MonitorRound /\ joined' # joined
      <4>1. Misses >= 3 /\ joined /\ alive' = alive
        BY <3>3 DEF MonitorRound, sink
      <4>2. now - last_heartbeat > 3 * Interval
        BY <3>3, <4>1, RoundGivesUp
      <4>3. ~alive
        BY <1>2, <4>1, <4>2, SilenceIsShort, MonitorAssumption DEF IInv, TypeOK
      <4> QED BY <3>1, <4>1, <4>3 DEF NoFalseAlarm
    <3>4. MonitorRound \/ joined' = joined
      BY DEF Next, vars, SendBeat, Stop, HandleHeartbeat, Tick, sink, node
    <3> QED BY <3>2, <3>3, <3>4
  <2>3. Inv => NoFalseAlarm
    OBVIOUS
  <2> QED BY <2>1, <2>2, <2>3, PTL DEF Spec
<1> QED BY <1>1, <1>2

(***************************************************************************)
(* Beats that overtake one another are all accepted.                       *)
(***************************************************************************)
THEOREM BeatsAreAccepted == Spec => []GenuineAccepted
<1>1. IInv => GenuineAccepted
  BY MonitorAssumption DEF IInv, TypeOK, Deadlines, GenuineAccepted, IsValid
<1> QED BY <1>1, Initially, Inductive, PTL DEF Spec
=============================================================================
