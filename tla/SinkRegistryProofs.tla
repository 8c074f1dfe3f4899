-------------------------- MODULE SinkRegistryProofs --------------------------
(***************************************************************************)
(* Proofs about SinkRegistry, for any number of nodes, attempts and        *)
(* restarts.                                                               *)
(***************************************************************************)
EXTENDS SinkRegistry, TLAPS

\* The sink is behind the hellos under way to it, and these are of attempts
\* the node made.
HellosAreAhead ==
  \A n \in Nodes :
    /\ connected_nodes[n] <= attempt[n]
    /\ \A h \in hellos[n] : connected_nodes[n] < h /\ h <= attempt[n]

\* The hello of an answer was handled, and so were those before it.
AnswersAreBehind ==
  \A n \in Nodes : \A a \in answers[n] :
    /\ a <= attempt[n]
    /\ \A h \in hellos[n] : a < h
    /\ a <= connected_nodes[n] \/ (connected_nodes[n] = 0 /\ restarts > 0)

\* A node that joined has no hello under way.
JoinedIsAnswered == \A n \in Nodes : phase[n] = "joined" => hellos[n] = {}

IInv ==
  TypeOK /\ HellosAreAhead /\ AnswersAreBehind /\ JoinedIsAnswered /\ SessionsMatch

LEMMA Initially == Init => IInv
BY RegistryAssumption
   DEF Init, IInv, TypeOK, HellosAreAhead, AnswersAreBehind, JoinedIsAnswered, SessionsMatch

LEMMA TryConnectKeeps ==
  ASSUME IInv, NEW n \in Nodes, TryConnect(n)
  PROVE  IInv'
<1> USE RegistryAssumption
<1>1. PICK h \in {hellos[n], hellos[n] \cup {attempt[n] + 1}} :
        hellos' = [hellos EXCEPT ![n] = h]
  BY DEF TryConnect, Sent
<1>2. /\ phase[n] = "out" /\ attempt[n] < MaxAttempts
      /\ phase' = [phase EXCEPT ![n] = "waiting"]
      /\ attempt' = [attempt EXCEPT ![n] = attempt[n] + 1]
      /\ UNCHANGED <<connected_nodes, restarts, missed, heard, answers, beats>>
  BY DEF TryConnect
<1>3. TypeOK'
  BY <1>1, <1>2 DEF IInv, TypeOK
<1>4. HellosAreAhead'
  BY <1>1, <1>2 DEF IInv, TypeOK, HellosAreAhead
<1>5. AnswersAreBehind'
  BY <1>1, <1>2 DEF IInv, TypeOK, AnswersAreBehind
<1>6. JoinedIsAnswered' /\ SessionsMatch'
  BY <1>1, <1>2 DEF IInv, TypeOK, JoinedIsAnswered, SessionsMatch
<1> QED BY <1>3, <1>4, <1>5, <1>6 DEF IInv

LEMMA HandleAuthResponseKeeps ==
  ASSUME IInv, NEW n \in Nodes, NEW k \in answers[n], HandleAuthResponse(n, k)
  PROVE  IInv'
<1> USE RegistryAssumption
<1>1. /\ answers' = [answers EXCEPT ![n] = answers[n] \ {k}]
      /\ UNCHANGED <<connected_nodes, restarts, attempt, hellos, beats>>
  BY DEF HandleAuthResponse
<1>2. TypeOK'
  <2>1. connected_nodes' \in [Nodes -> 0 .. MaxAttempts] /\ restarts' \in 0 .. MaxRestarts
        /\ attempt' \in [Nodes -> 0 .. MaxAttempts] /\ beats' \subseteq Nodes
        /\ hellos' \in [Nodes -> SUBSET (1 .. MaxAttempts)]
    BY <1>1 DEF IInv, TypeOK
  <2>2. answers' \in [Nodes -> SUBSET (1 .. MaxAttempts)]
    BY <1>1 DEF IInv, TypeOK
  <2>3. phase' \in [Nodes -> {"out", "waiting", "joined"}]
    BY DEF HandleAuthResponse, IInv, TypeOK
  <2>4. missed' \in [Nodes -> 0 .. 2]
    BY DEF HandleAuthResponse, IInv, TypeOK
  <2>5. heard' = heard \/ heard' = [heard EXCEPT ![n] = TRUE]
    BY DEF HandleAuthResponse
  <2>6. heard' \in [Nodes -> BOOLEAN]
    BY <2>5 DEF IInv, TypeOK
  <2> QED BY <2>1, <2>2, <2>3, <2>4, <2>6 DEF TypeOK
<1>3. HellosAreAhead' /\ AnswersAreBehind'
  BY <1>1 DEF IInv, TypeOK, HellosAreAhead, AnswersAreBehind
<1>4. JoinedIsAnswered' /\ SessionsMatch'
  <2>1. CASE phase[n] = "waiting" /\ k = attempt[n] /\ phase' = [phase EXCEPT ![n] = "joined"]
    <3>1. hellos[n] = {}
      BY <2>1 DEF IInv, TypeOK, HellosAreAhead, AnswersAreBehind
    <3>2. connected_nodes[n] = attempt[n] \/ (connected_nodes[n] = 0 /\ restarts > 0)
      BY <2>1 DEF IInv, TypeOK, HellosAreAhead, AnswersAreBehind
    <3> QED BY <1>1, <2>1, <3>1, <3>2 DEF IInv, TypeOK, JoinedIsAnswered, SessionsMatch
  <2>2. CASE phase' = [phase EXCEPT ![n] = "out"]
    BY <1>1, <2>2 DEF IInv, TypeOK, JoinedIsAnswered, SessionsMatch
  <2>3. CASE phase' = phase
    BY <1>1, <2>3 DEF IInv, JoinedIsAnswered, SessionsMatch
  <2> QED BY <2>1, <2>2, <2>3 DEF HandleAuthResponse
<1> QED BY <1>2, <1>3, <1>4 DEF IInv

LEMMA OtherNodeStepsKeep ==
  ASSUME IInv, NEW n \in Nodes,
         \/ Timeout(n) \/ HandleHeartbeat(n) \/ EnterRecovery(n)
         \/ \E late \in BOOLEAN : MonitorRound(n, late)
  PROVE  IInv'
<1> USE RegistryAssumption
<1>1. UNCHANGED <<connected_nodes, restarts, attempt, hellos, answers>>
  BY DEF Timeout, HandleHeartbeat, MonitorRound, EnterRecovery
<1>2. phase' = phase \/ phase' = [phase EXCEPT ![n] = "out"]
  BY DEF Timeout, HandleHeartbeat, MonitorRound, EnterRecovery
<1>3. TypeOK'
  <2>1. CASE Timeout(n)
    BY <2>1 DEF Timeout, IInv, TypeOK
  <2>2. CASE HandleHeartbeat(n)
    <3>1. missed' = missed \/ missed' = [missed EXCEPT ![n] = 0]
      BY <2>2 DEF HandleHeartbeat
    <3>2. heard' = heard \/ heard' = [heard EXCEPT ![n] = TRUE]
      BY <2>2 DEF HandleHeartbeat
    <3>3. missed' \in [Nodes -> 0 .. 2]
      BY <3>1 DEF IInv, TypeOK
    <3>4. heard' \in [Nodes -> BOOLEAN]
      BY <3>2 DEF IInv, TypeOK
    <3>5. beats' \subseteq Nodes /\ phase' = phase
      BY <2>2 DEF HandleHeartbeat, IInv, TypeOK
    <3> QED BY <1>1, <3>3, <3>4, <3>5 DEF IInv, TypeOK
  <2>3. ASSUME NEW late \in BOOLEAN, MonitorRound(n, late) PROVE TypeOK'
    <3>1. missed' \in [Nodes -> 0 .. 2]
      BY <2>3 DEF MonitorRound, IInv, TypeOK
    <3>2. heard' \in [Nodes -> BOOLEAN] /\ beats' = beats
      BY <2>3 DEF MonitorRound, IInv, TypeOK
    <3>3. phase' \in [Nodes -> {"out", "waiting", "joined"}]
      BY <1>2 DEF IInv, TypeOK
    <3> QED BY <1>1, <3>1, <3>2, <3>3 DEF IInv, TypeOK
  <2>4. CASE EnterRecovery(n)
    BY <2>4 DEF EnterRecovery, IInv, TypeOK
  <2> QED BY <2>1, <2>2, <2>3, <2>4
<1>4. HellosAreAhead' /\ AnswersAreBehind'
  BY <1>1 DEF IInv, HellosAreAhead, AnswersAreBehind
<1>5. JoinedIsAnswered' /\ SessionsMatch'
  BY <1>1, <1>2 DEF IInv, TypeOK, JoinedIsAnswered, SessionsMatch
<1> QED BY <1>3, <1>4, <1>5 DEF IInv

LEMMA HandleAuthKeeps ==
  ASSUME IInv, NEW n \in Nodes, NEW k \in hellos[n], HandleAuth(n, k)
  PROVE  IInv'
<1> USE RegistryAssumption
<1>1. PICK a \in {answers[n], answers[n] \cup {k}} : answers' = [answers EXCEPT ![n] = a]
  BY DEF HandleAuth, Sent
<1>2. /\ \A x \in hellos[n] : k <= x
      /\ hellos' = [hellos EXCEPT ![n] = hellos[n] \ {k}]
      /\ connected_nodes' = [connected_nodes EXCEPT ![n] = k]
      /\ UNCHANGED <<restarts, phase, attempt, missed, heard, beats>>
  BY DEF HandleAuth, Oldest
<1>3. k \in 1 .. MaxAttempts
  BY DEF IInv, TypeOK
<1>4. TypeOK'
  BY <1>1, <1>2, <1>3 DEF IInv, TypeOK
<1>5. HellosAreAhead'
  BY <1>2, <1>3 DEF IInv, TypeOK, HellosAreAhead
<1>6. AnswersAreBehind'
  <2>1. \A x \in a : x <= k /\ x <= attempt[n] /\ \A h \in hellos[n] \ {k} : x < h
    BY <1>2, <1>3 DEF IInv, TypeOK, HellosAreAhead, AnswersAreBehind
  <2> QED BY <1>1, <1>2, <2>1 DEF IInv, TypeOK, AnswersAreBehind
<1>7. JoinedIsAnswered' /\ SessionsMatch'
  BY <1>2 DEF IInv, TypeOK, JoinedIsAnswered, SessionsMatch
<1> QED BY <1>4, <1>5, <1>6, <1>7 DEF IInv

LEMMA RestartKeeps == IInv /\ Restart => IInv'
<1> SUFFICES ASSUME IInv, Restart PROVE IInv' OBVIOUS
<1> USE RegistryAssumption
<1>1. TypeOK'
  BY DEF Restart, IInv, TypeOK
<1>2. HellosAreAhead' /\ AnswersAreBehind'
  BY DEF Restart, IInv, TypeOK, HellosAreAhead, AnswersAreBehind
<1>3. JoinedIsAnswered' /\ SessionsMatch'
  BY DEF Restart, IInv, TypeOK, JoinedIsAnswered, SessionsMatch
<1> QED BY <1>1, <1>2, <1>3 DEF IInv

LEMMA Inductive == IInv /\ [Next]_vars => IInv'
<1> SUFFICES ASSUME IInv, [Next]_vars PROVE IInv' OBVIOUS
<1>1. CASE HeartbeatRound
  BY <1>1 DEF HeartbeatRound, IInv, TypeOK, HellosAreAhead, AnswersAreBehind,
              JoinedIsAnswered, SessionsMatch
<1>2. CASE UNCHANGED vars
  BY <1>2 DEF vars, IInv, TypeOK, HellosAreAhead, AnswersAreBehind, JoinedIsAnswered,
              SessionsMatch
<1>3. ASSUME NEW n \in Nodes, Node(n) PROVE IInv'
  BY <1>3, TryConnectKeeps, HandleAuthResponseKeeps, OtherNodeStepsKeep DEF Node
<1>4. CASE Sink
  BY <1>1, <1>4, HandleAuthKeeps, RestartKeeps DEF Sink
<1> QED BY <1>2, <1>3, <1>4 DEF Next
-----------------------------------------------------------------------------
(***************************************************************************)
(* Types.                                                                  *)
(***************************************************************************)
THEOREM TypeCorrect == Spec => []TypeOK
<1>1. IInv => TypeOK BY DEF IInv
<1> QED BY <1>1, Initially, Inductive, PTL DEF Spec

(***************************************************************************)
(* A node that joined and a sink that knows it have the same session.      *)
(***************************************************************************)
THEOREM SessionsAgree == Spec => []SessionsMatch
<1>1. IInv => SessionsMatch BY DEF IInv
<1> QED BY <1>1, Initially, Inductive, PTL DEF Spec

(***************************************************************************)
(* The sink never goes back to the session of an earlier attempt.          *)
(***************************************************************************)
THEOREM RegistryAdvances == Spec => RegistrationsMoveOn
<1>1. IInv /\ [Next]_vars
        => [\A n \in Nodes :
              connected_nodes'[n] \in {0} \cup connected_nodes[n] .. attempt[n]]_vars
  <2> SUFFICES ASSUME IInv, Next, NEW n \in Nodes
               PROVE  connected_nodes'[n] \in {0} \cup connected_nodes[n] .. attempt[n]
    OBVIOUS
  <2>1. CASE connected_nodes' = connected_nodes
    BY <2>1 DEF IInv, TypeOK, HellosAreAhead
  <2>2. ASSUME NEW x \in Nodes, NEW k \in hellos[x], HandleAuth(x, k)
        PROVE  connected_nodes'[n] \in {0} \cup connected_nodes[n] .. attempt[n]
    BY <2>2 DEF HandleAuth, IInv, TypeOK, HellosAreAhead
  <2>3. CASE Restart
    BY <2>3 DEF Restart
  <2>4. CASE \E x \in Nodes : Node(x)
    BY <2>1, <2>4 DEF Node, TryConnect, HandleAuthResponse, Timeout, HandleHeartbeat,
                      MonitorRound, EnterRecovery
  <2>5. CASE HeartbeatRound
    BY <2>1, <2>5 DEF HeartbeatRound
  <2> QED BY <2>2, <2>3, <2>4, <2>5 DEF Next, Sink
<1> QED BY <1>1, Initially, Inductive, PTL DEF Spec, RegistrationsMoveOn

(***************************************************************************)
(* Each node of the registry's model is a member.                          *)
(***************************************************************************)
THEOREM NodesAreMembers == Spec => AreMembers
<1>1. Init => \A n \in Nodes : Member(n)!Init
  BY DEF Init, Member!Init
<1>2. IInv /\ [Next]_vars
        => [\A n \in Nodes : [Member(n)!Next]_<<phase[n], missed[n]>>]_vars
  <2> SUFFICES ASSUME IInv, Next, NEW n \in Nodes
               PROVE  [Member(n)!Next]_<<phase[n], missed[n]>>
    OBVIOUS
  <2> USE DEF Member!Next, Member!Try, Member!GiveUp, Member!Join, Member!Beat,
              Member!Miss, Member!Leave
  <2>0. /\ phase \in [Nodes -> {"out", "waiting", "joined"}]
        /\ missed \in [Nodes -> 0 .. 2]
    BY DEF IInv, TypeOK
  <2>1. CASE Sink
    BY <2>1 DEF Sink, HandleAuth, HeartbeatRound, Restart
  <2>2. ASSUME NEW x \in Nodes, Node(x), x # n PROVE UNCHANGED <<phase[n], missed[n]>>
    BY <2>0, <2>2 DEF Node, TryConnect, HandleAuthResponse, Timeout, HandleHeartbeat,
                      MonitorRound, EnterRecovery
  <2>3. CASE TryConnect(n) \/ Timeout(n) \/ EnterRecovery(n)
    BY <2>0, <2>3 DEF TryConnect, Timeout, EnterRecovery
  <2>4. ASSUME NEW k \in answers[n], HandleAuthResponse(n, k)
        PROVE  [Member(n)!Next]_<<phase[n], missed[n]>>
    BY <2>0, <2>4 DEF HandleAuthResponse
  <2>5. CASE HandleHeartbeat(n)
    <3>1. CASE phase[n] = "joined"
      BY <2>0, <2>5, <3>1 DEF HandleHeartbeat
    <3>2. CASE phase[n] # "joined"
      BY <2>5, <3>2 DEF HandleHeartbeat
    <3> QED BY <3>1, <3>2
  <2>6. ASSUME NEW late \in BOOLEAN, MonitorRound(n, late)
        PROVE  [Member(n)!Next]_<<phase[n], missed[n]>>
    BY <2>0, <2>6 DEF MonitorRound
  <2> QED BY <2>1, <2>2, <2>3, <2>4, <2>5, <2>6 DEF Next, Node
<1> QED BY <1>1, <1>2, Initially, Inductive, PTL DEF Spec, AreMembers
-----------------------------------------------------------------------------
(***************************************************************************)
(* Liveness.  A round of the monitor is enabled exactly while the node is  *)
(* joined, so this is its weak fairness with ENABLED spelt out: the rounds *)
(* go on for as long as the node stays joined.                             *)
(***************************************************************************)
Round(n) == \E late \in BOOLEAN : MonitorRound(n, late)

RoundsGoOn(n) == []<>(phase[n] # "joined") \/ []<><<Round(n)>>_vars

\* A node that believes in a sink that forgot it, and how far its monitor has
\* come: it heard nothing in the last round, and has counted k misses.
Forgotten(n) == phase[n] = "joined" /\ connected_nodes[n] = 0
Counted(n, k) == Forgotten(n) /\ ~heard[n] /\ missed[n] >= k

\* The last beat that is under way to a forgotten node arrives.
LastBeat(n) == n \in beats /\ n \notin beats' /\ Forgotten(n)'

(***************************************************************************)
(* What a step does to a forgotten node: it stays forgotten, for no hello  *)
(* of it is under way; no beat is sent to it any more; and what its        *)
(* monitor has counted is lost only to a beat that was under way.          *)
(***************************************************************************)
LEMMA ForgottenStep ==
  ASSUME IInv, [Next]_vars, NEW n \in Nodes, Forgotten(n)
  PROVE  /\ Forgotten(n)' \/ (phase[n] # "joined")'
         /\ n \notin beats => (n \notin beats)'
         /\ \A k \in 0 .. 2 :
              Counted(n, k) => Counted(n, k)' \/ (phase[n] # "joined")' \/ LastBeat(n)
<1> USE DEF Forgotten, Counted, LastBeat
<1>0. hellos[n] = {} /\ phase[n] = "joined" /\ connected_nodes[n] = 0
  BY DEF IInv, JoinedIsAnswered
<1> USE DEF IInv, TypeOK
<1> DEFINE Gone == phase'[n] # "joined" /\ beats' = beats
           Same == /\ phase'[n] = phase[n] /\ connected_nodes'[n] = 0
                   /\ heard'[n] = heard[n] /\ missed'[n] = missed[n]
                   /\ n \in beats' => n \in beats
           Heard == n \in beats /\ n \notin beats' /\ Forgotten(n)'
           Round1 == /\ phase'[n] = phase[n] /\ connected_nodes'[n] = 0
                     /\ ~heard'[n] /\ missed'[n] >= missed[n]
                     /\ beats' = beats
<1>1. ASSUME UNCHANGED vars PROVE Same
  BY <1>0, <1>1 DEF vars
<1>2. ASSUME Sink PROVE Same
  <2>1. ASSUME NEW m \in Nodes, NEW k \in hellos[m], HandleAuth(m, k) PROVE Same
    BY <1>0, <2>1 DEF HandleAuth
  <2>2. CASE HeartbeatRound
    BY <1>0, <2>2 DEF HeartbeatRound
  <2>3. CASE Restart
    BY <1>0, <2>3 DEF Restart
  <2> QED BY <1>2, <2>1, <2>2, <2>3 DEF Sink
<1>3. ASSUME NEW m \in Nodes, Node(m), m # n PROVE Same
  BY <1>0, <1>3 DEF Node, TryConnect, HandleAuthResponse, Timeout, HandleHeartbeat,
              MonitorRound, EnterRecovery
<1>4. ASSUME Node(n) PROVE Gone \/ Same \/ Heard \/ Round1
  <2>1. CASE TryConnect(n) \/ Timeout(n) \/ EnterRecovery(n)
    BY <1>0, <2>1 DEF TryConnect, Timeout, EnterRecovery
  <2>2. ASSUME NEW k \in answers[n], HandleAuthResponse(n, k) PROVE Same
    BY <1>0, <2>2 DEF HandleAuthResponse
  <2>3. CASE HandleHeartbeat(n)
    BY <1>0, <2>3 DEF HandleHeartbeat
  <2>4. ASSUME NEW late \in BOOLEAN, MonitorRound(n, late) PROVE Gone \/ Round1
    <3>1. UNCHANGED <<connected_nodes, beats>> /\ heard' = [heard EXCEPT ![n] = FALSE]
      BY <2>4 DEF MonitorRound
    <3>2. ~heard'[n]
      BY <3>1
    <3>3. Gone \/ (phase' = phase /\ missed'[n] >= missed[n])
      BY <1>0, <2>4 DEF MonitorRound
    <3> QED BY <1>0, <3>1, <3>2, <3>3
  <2> QED BY <1>4, <2>1, <2>2, <2>3, <2>4 DEF Node
<1>5. Gone \/ Same \/ Heard \/ Round1
  BY <1>1, <1>2, <1>3, <1>4 DEF Next
<1> HIDE DEF IInv, TypeOK
<1>6. missed[n] \in Nat
  BY DEF IInv, TypeOK
<1>7. missed'[n] \in Nat
  BY Inductive DEF IInv, TypeOK
<1>8. CASE Gone
  BY <1>8
<1>9. CASE Same
  BY <1>0, <1>9
<1>10. CASE Heard
  BY <1>10
<1>11. CASE Round1
  BY <1>0, <1>6, <1>7, <1>11
<1> QED BY <1>5, <1>8, <1>9, <1>10, <1>11

(***************************************************************************)
(* A round of the monitor of a forgotten node counts.                      *)
(***************************************************************************)
LEMMA ForgottenRound ==
  ASSUME IInv, NEW n \in Nodes, Round(n), Forgotten(n)
  PROVE  /\ Counted(n, 0)' \/ (phase[n] # "joined")'
         /\ Counted(n, 0) => Counted(n, 1)' \/ (phase[n] # "joined")'
         /\ Counted(n, 1) => Counted(n, 2)' \/ (phase[n] # "joined")'
         /\ Counted(n, 2) => (phase[n] # "joined")'
BY DEF Round, MonitorRound, Forgotten, Counted, IInv, TypeOK

(***************************************************************************)
(* A node whose monitor goes on leaves a sink that forgot it: after the    *)
(* last beat that was under way, or without it, every round brings it one  *)
(* miss nearer to the third.                                               *)
(***************************************************************************)
Leaves(n) == Forgotten(n) ~> phase[n] # "joined"

LEMMA ForgottenLeaves ==
  ASSUME NEW n \in Nodes
  PROVE  Spec /\ RoundsGoOn(n) => Leaves(n)
<1>1. IInv /\ [Next]_vars /\ Forgotten(n) => Forgotten(n)' \/ (phase[n] # "joined")'
  BY ForgottenStep
<1>2. IInv /\ [Next]_vars /\ Forgotten(n) /\ ~(n \in beats) => ~(n \in beats)'
  BY ForgottenStep
<1>3. IInv /\ [Next]_vars /\ Counted(n, 0)
        => Counted(n, 0)' \/ (phase[n] # "joined")' \/ (n \in beats /\ ~(n \in beats)')
  BY ForgottenStep DEF Counted, LastBeat
<1>4. IInv /\ [Next]_vars /\ Counted(n, 1)
        => Counted(n, 1)' \/ (phase[n] # "joined")' \/ (n \in beats /\ ~(n \in beats)')
  BY ForgottenStep DEF Counted, LastBeat
<1>5. IInv /\ [Next]_vars /\ Counted(n, 2)
        => Counted(n, 2)' \/ (phase[n] # "joined")' \/ (n \in beats /\ ~(n \in beats)')
  BY ForgottenStep DEF Counted, LastBeat
<1>6. IInv /\ <<Round(n)>>_vars /\ Forgotten(n) => Counted(n, 0)' \/ (phase[n] # "joined")'
  BY ForgottenRound
<1>7. IInv /\ <<Round(n)>>_vars /\ Counted(n, 0) => Counted(n, 1)' \/ (phase[n] # "joined")'
  BY ForgottenRound DEF Counted
<1>8. IInv /\ <<Round(n)>>_vars /\ Counted(n, 1) => Counted(n, 2)' \/ (phase[n] # "joined")'
  BY ForgottenRound DEF Counted
<1>9. IInv /\ <<Round(n)>>_vars /\ Counted(n, 2) => (phase[n] # "joined")'
  BY ForgottenRound DEF Counted
<1>10. /\ Counted(n, 0) => Forgotten(n)
       /\ Counted(n, 1) => Forgotten(n)
       /\ Counted(n, 2) => Forgotten(n)
       /\ Forgotten(n) => ~(phase[n] # "joined")
  BY DEF Counted, Forgotten
<1> QED BY <1>1, <1>2, <1>3, <1>4, <1>5, <1>6, <1>7, <1>8, <1>9, <1>10,
           Initially, Inductive, PTL DEF Spec, RoundsGoOn, Leaves

(***************************************************************************)
(* No node believes for ever in a sink that forgot it, whatever sink and   *)
(* radio do, as long as the monitors go on.                                *)
(***************************************************************************)
THEOREM ForgottenNodesLeave ==
  Spec /\ (\A n \in Nodes : RoundsGoOn(n)) => ForgottenNodeLeaves
<1>1. ASSUME NEW n \in Nodes PROVE Spec /\ RoundsGoOn(n) => Leaves(n)
  BY ForgottenLeaves
<1>2. Spec /\ (\A n \in Nodes : RoundsGoOn(n)) => \A n \in Nodes : Leaves(n)
  BY <1>1
<1>3. (\A n \in Nodes : Leaves(n)) => ForgottenNodeLeaves
  BY DEF Leaves, Forgotten, ForgottenNodeLeaves
<1> QED BY <1>2, <1>3
=============================================================================
