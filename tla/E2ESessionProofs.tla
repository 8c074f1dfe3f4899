--------------------------- MODULE E2ESessionProofs ---------------------------
(***************************************************************************)
(* Proofs about E2ESession, for all plaintexts and every number of         *)
(* attempts, answers and frames: keys are agreed and stable, no side uses  *)
(* a nonce twice, and each direction implements MessageStream.             *)
(***************************************************************************)
EXTENDS E2ESession, TLAPS

\* Every key in use is an answer's, and every answer is to a hello.
KeysAreAnswers ==
  /\ \A a \in answers : a.hello <= hellos /\ a.answer <= answered
  /\ \A s \in Side : key[s] # None => key[s] \in answers
  /\ \A s \in Side : \A f \in frames[s] : f.key \in answers
  /\ \A s \in Side : Range(handed[s]) \subseteq frames[Peer(s)]

\* While the node waits for an answer, nothing was sent or received under the
\* keys that may come out of it.
PendingIsFresh ==
  /\ key["node"] # None => pending = 0 /\ key["node"].hello = hellos
  /\ pending # 0 => \A f \in frames["node"] \cup Range(handed["node"]) : f.key.hello < pending

\* The counters bound what was sent and received under the current key.
CountersBound ==
  \A s \in Side :
    /\ \A f \in frames[s] : f.key = key[s] => f.counter <= tx[s]
    /\ \A f \in Range(handed[s]) : f.key = key[s] => f.counter <= rx[s]

IInv == TypeOK /\ KeysAreAnswers /\ PendingIsFresh /\ CountersBound /\ NonceUsedOnce

LEMMA AppendRange ==
  ASSUME NEW S, NEW q \in Seq(S), NEW e
  PROVE  Range(Append(q, e)) = Range(q) \cup {e}
<1>1. /\ DOMAIN Append(q, e) = 1 .. Len(q) + 1 /\ DOMAIN q = 1 .. Len(q) /\ Len(q) \in Nat
      /\ \A i \in 1 .. Len(q) : Append(q, e)[i] = q[i]
      /\ Append(q, e)[Len(q) + 1] = e
  OBVIOUS
<1> QED BY <1>1 DEF Range

LEMMA Initially == Init => IInv
<1>1. Range(<<>>) = {}
  BY DEF Range
<1> QED BY <1>1, SessionAssumption
   DEF Init, IInv, TypeOK, KeysAreAnswers, PendingIsFresh, CountersBound,
       NonceUsedOnce, Side, Peer

LEMMA Sides == Side = {"node", "sink"} /\ Peer("node") = "sink" /\ Peer("sink") = "node"
BY DEF Side, Peer

\* Only frames are delivered.
LEMMA HandedFrames ==
  ASSUME IInv, NEW s \in Side, NEW f \in Range(handed[s])
  PROVE  f \in frames[Peer(s)] /\ f \in Frame
BY Sides DEF IInv, TypeOK, KeysAreAnswers

LEMMA InitiateKeeps == IInv /\ InitiateHandshake => IInv'
<1> SUFFICES ASSUME IInv, InitiateHandshake PROVE IInv' OBVIOUS
<1> USE SessionAssumption, Sides DEF InitiateHandshake, NewSession
<1>1. TypeOK'
  BY DEF IInv, TypeOK
<1>2. KeysAreAnswers'
  BY DEF IInv, TypeOK, KeysAreAnswers, Key
<1>3. PendingIsFresh'
  <2>1. \A f \in frames["node"] \cup Range(handed["node"]) : f.key.hello <= hellos
    BY HandedFrames DEF IInv, KeysAreAnswers
  <2>2. \A f \in frames["node"] \cup Range(handed["node"]) : f.key.hello \in Nat
    BY HandedFrames DEF IInv, TypeOK, Frame, Key
  <2> QED BY <2>1, <2>2 DEF IInv, TypeOK, PendingIsFresh
<1>4. CountersBound'
  <2>1. \A f \in frames["node"] \cup Range(handed["node"]) : f.key # None
    BY HandedFrames DEF IInv, TypeOK, Frame
  <2> QED BY <2>1 DEF IInv, TypeOK, CountersBound
<1>5. NonceUsedOnce'
  BY DEF IInv, NonceUsedOnce
<1> QED BY <1>1, <1>2, <1>3, <1>4, <1>5 DEF IInv

LEMMA RespondKeeps ==
  ASSUME IInv, NEW h \in 1 .. hellos, RespondHandshake(h)
  PROVE  IInv'
<1> DEFINE k == [hello |-> h, answer |-> answered + 1]
<1> USE SessionAssumption, Sides
<1>1. k \in Key /\ k \notin answers
  BY DEF RespondHandshake, IInv, TypeOK, KeysAreAnswers, Key
<1>2. /\ answers' = answers \cup {k} /\ answered' = answered + 1
      /\ key' = [key EXCEPT !["sink"] = k]
      /\ tx' = [tx EXCEPT !["sink"] = 0] /\ rx' = [rx EXCEPT !["sink"] = 0]
      /\ UNCHANGED <<hellos, pending, frames, handed>>
  BY DEF RespondHandshake, NewSession
<1>3. TypeOK'
  BY <1>1, <1>2 DEF RespondHandshake, IInv, TypeOK
<1>4. KeysAreAnswers'
  BY <1>1, <1>2 DEF IInv, TypeOK, KeysAreAnswers, Key
<1>5. PendingIsFresh'
  BY <1>2 DEF IInv, TypeOK, PendingIsFresh
<1>6. CountersBound'
  <2>1. \A s \in Side : \A f \in frames[s] \cup Range(handed[s]) : f.key # k
    BY <1>1 DEF IInv, KeysAreAnswers
  <2> QED BY <1>2, <2>1 DEF IInv, TypeOK, CountersBound
<1>7. NonceUsedOnce'
  BY <1>2 DEF IInv, NonceUsedOnce
<1> QED BY <1>3, <1>4, <1>5, <1>6, <1>7 DEF IInv

LEMMA CompleteKeeps ==
  ASSUME IInv, NEW a \in answers, CompleteHandshake(a)
  PROVE  IInv'
<1> USE SessionAssumption, Sides
<1>1. a \in Key /\ a.hello \in Nat /\ a.hello # 0
  BY DEF IInv, TypeOK, Key
<1>2. pending # 0 /\ pending = hellos /\ a.hello = pending
  BY <1>1 DEF CompleteHandshake, IInv, TypeOK
<1>3. key["node"] = None /\ tx \in [Side -> Nat]
  BY <1>2 DEF IInv, TypeOK, PendingIsFresh
<1>4. /\ key' = [key EXCEPT !["node"] = a] /\ pending' = 0
      /\ UNCHANGED <<hellos, answers, answered, tx, rx, frames, handed>>
  BY DEF CompleteHandshake
<1>5. TypeOK'
  BY <1>1, <1>4 DEF IInv, TypeOK
<1>6. KeysAreAnswers'
  BY <1>1, <1>4 DEF IInv, TypeOK, KeysAreAnswers
<1>7. PendingIsFresh'
  BY <1>2, <1>4 DEF IInv, TypeOK, PendingIsFresh
<1>8. CountersBound'
  <2>1. \A f \in frames["node"] \cup Range(handed["node"]) : f.key # a
    BY <1>1, <1>2 DEF IInv, PendingIsFresh
  <2> QED BY <1>4, <2>1 DEF IInv, TypeOK, CountersBound
<1>9. NonceUsedOnce'
  BY <1>4 DEF IInv, NonceUsedOnce
<1> QED BY <1>5, <1>6, <1>7, <1>8, <1>9 DEF IInv

(***************************************************************************)
(* What encrypt_payload sends is newer than all of its session.            *)
(***************************************************************************)
LEMMA SentIsNewer ==
  ASSUME IInv, NEW s \in Side, NEW m \in Texts, EncryptPayload(s, m)
  PROVE  \E f \in Frame :
           /\ f.key = key[s] /\ f.key \in answers /\ f.counter = tx[s] + 1
           /\ frames' = [frames EXCEPT ![s] = frames[s] \cup {f}]
           /\ \A x \in frames[s] : x.key = f.key => x.counter < f.counter
<1> DEFINE f == [key |-> key[s], counter |-> tx[s] + 1, text |-> m]
<1> USE SessionAssumption, Sides
<1>1. f \in Frame /\ f.key \in answers
  BY DEF EncryptPayload, IInv, TypeOK, KeysAreAnswers, Frame
<1>2. frames' = [frames EXCEPT ![s] = frames[s] \cup {f}]
  BY DEF EncryptPayload, IInv, TypeOK
<1>3. \A x \in frames[s] : x.key = f.key => x.counter < f.counter
  BY DEF IInv, TypeOK, CountersBound, Frame
<1> QED BY <1>1, <1>2, <1>3

LEMMA EncryptKeeps ==
  ASSUME IInv, NEW s \in Side, NEW m \in Texts, EncryptPayload(s, m)
  PROVE  IInv'
<1> USE SessionAssumption, Sides
<1>1. PICK f \in Frame :
         /\ f.key = key[s] /\ f.key \in answers /\ f.counter = tx[s] + 1
         /\ frames' = [frames EXCEPT ![s] = frames[s] \cup {f}]
         /\ \A x \in frames[s] : x.key = f.key => x.counter < f.counter
  BY SentIsNewer
<1>2. /\ key[s] # None /\ tx[s] < MaxCounter /\ tx' = [tx EXCEPT ![s] = tx[s] + 1]
      /\ UNCHANGED <<hellos, pending, answers, answered, key, rx, handed>>
  BY DEF EncryptPayload
<1>3. TypeOK'
  BY <1>1, <1>2 DEF IInv, TypeOK
<1>4. KeysAreAnswers'
  BY <1>1, <1>2 DEF IInv, TypeOK, KeysAreAnswers
<1>5. PendingIsFresh'
  BY <1>1, <1>2 DEF IInv, TypeOK, PendingIsFresh
<1>6. CountersBound'
  BY <1>1, <1>2 DEF IInv, TypeOK, CountersBound, Frame
<1>7. NonceUsedOnce'
  BY <1>1, <1>2 DEF IInv, TypeOK, NonceUsedOnce, Frame
<1> QED BY <1>3, <1>4, <1>5, <1>6, <1>7 DEF IInv

(***************************************************************************)
(* What decrypt_payload returns was sent, and is newer than all it         *)
(* returned of the session.                                                *)
(***************************************************************************)
LEMMA HandedIsNewer ==
  ASSUME IInv, NEW s \in Side, NEW f \in Arrivals(s), DecryptPayload(s, f),
         handed' # handed
  PROVE  /\ f \in frames[Peer(s)] /\ f.key = key[s]
         /\ handed' = [handed EXCEPT ![s] = Append(handed[s], f)]
         /\ \A x \in Range(handed[s]) : x.key = f.key => x.counter < f.counter
<1> USE SessionAssumption, Sides
<1>1. f.key = key[s] /\ key[s] # None /\ f.counter > rx[s]
      /\ handed' = [handed EXCEPT ![s] = Append(handed[s], f)]
  BY DEF DecryptPayload
<1>2. f \in frames[Peer(s)]
  BY <1>1 DEF Arrivals, Damaged
<1>3. f.counter \in Nat /\ rx[s] \in Nat /\ \A x \in Range(handed[s]) : x.counter \in Nat
  BY <1>2, HandedFrames DEF IInv, TypeOK, Frame
<1>4. \A x \in Range(handed[s]) : x.key = f.key => x.counter < f.counter
  BY <1>1, <1>3 DEF IInv, CountersBound
<1> QED BY <1>1, <1>2, <1>4

LEMMA DecryptKeeps ==
  ASSUME IInv, NEW s \in Side, NEW f \in Arrivals(s), DecryptPayload(s, f)
  PROVE  IInv'
<1> USE SessionAssumption, Sides
<1>1. /\ key[s] # None /\ f.counter > rx[s] /\ rx' = [rx EXCEPT ![s] = f.counter]
      /\ UNCHANGED <<hellos, pending, answers, answered, key, tx, frames>>
  BY DEF DecryptPayload
<1>2. f.counter \in 0 .. MaxCounter
  BY DEF Arrivals, Damaged, IInv, TypeOK, Frame
<1>3. CASE handed' = handed
  <2>1. TypeOK'
    BY <1>1, <1>2, <1>3 DEF IInv, TypeOK
  <2>2. KeysAreAnswers' /\ PendingIsFresh' /\ NonceUsedOnce'
    BY <1>1, <1>3 DEF IInv, KeysAreAnswers, PendingIsFresh, NonceUsedOnce
  <2>3. CountersBound'
    <3>1. \A g \in Range(handed[s]) : g.key = key[s] => g.counter <= f.counter
      BY <1>1, <1>2, HandedFrames DEF IInv, TypeOK, CountersBound, Frame
    <3> QED BY <1>1, <1>3, <3>1 DEF IInv, TypeOK, CountersBound
  <2> QED BY <2>1, <2>2, <2>3 DEF IInv
<1>4. CASE handed' # handed
  <2>1. /\ f \in frames[Peer(s)] /\ f.key = key[s]
        /\ handed' = [handed EXCEPT ![s] = Append(handed[s], f)]
    BY <1>4, HandedIsNewer
  <2>2. f \in Frame /\ Range(handed'[s]) = Range(handed[s]) \cup {f}
        /\ \A t \in Side \ {s} : handed'[t] = handed[t]
    BY <2>1, AppendRange DEF IInv, TypeOK
  <2>3. TypeOK'
    BY <1>1, <1>2, <2>1, <2>2 DEF IInv, TypeOK
  <2>4. KeysAreAnswers'
    BY <1>1, <2>1, <2>2 DEF IInv, KeysAreAnswers
  <2>5. PendingIsFresh'
    BY <1>1, <2>1, <2>2 DEF IInv, TypeOK, PendingIsFresh
  <2>6. CountersBound'
    <3>1. \A g \in Range(handed'[s]) : g.key = key[s] => g.counter <= f.counter
      BY <1>1, <1>2, <2>2, HandedFrames DEF IInv, TypeOK, CountersBound, Frame
    <3> QED BY <1>1, <2>1, <2>2, <3>1 DEF IInv, TypeOK, CountersBound
  <2>7. NonceUsedOnce'
    BY <1>1 DEF IInv, NonceUsedOnce
  <2> QED BY <2>3, <2>4, <2>5, <2>6, <2>7 DEF IInv
<1> QED BY <1>3, <1>4

LEMMA Inductive == IInv /\ [Next]_vars => IInv'
<1> SUFFICES ASSUME IInv, [Next]_vars PROVE IInv' OBVIOUS
<1>1. CASE UNCHANGED vars
  BY <1>1 DEF vars, IInv, TypeOK, KeysAreAnswers, PendingIsFresh, CountersBound,
              NonceUsedOnce
<1> QED BY <1>1, InitiateKeeps, RespondKeeps, CompleteKeeps, EncryptKeeps, DecryptKeeps
        DEF Next
-----------------------------------------------------------------------------
(***************************************************************************)
(* Types.                                                                  *)
(***************************************************************************)
THEOREM TypeCorrect == Spec => []TypeOK
<1>1. IInv => TypeOK BY DEF IInv
<1> QED BY <1>1, Initially, Inductive, PTL DEF Spec

(***************************************************************************)
(* An established node has the key of the sink's answer to its latest      *)
(* hello.                                                                  *)
(***************************************************************************)
THEOREM KeysAgree == Spec => []KeyIsAgreed
<1>1. IInv => KeyIsAgreed
  BY Sides DEF IInv, KeysAreAnswers, PendingIsFresh, KeyIsAgreed
<1> QED BY <1>1, Initially, Inductive, PTL DEF Spec

(***************************************************************************)
(* A second answer does not change the key of a session that runs.         *)
(***************************************************************************)
THEOREM KeysStay == Spec => KeyIsStable
<1>1. IInv /\ [Next]_vars
        => [key["node"] # None /\ hellos' = hellos => key'["node"] = key["node"]]_vars
  <2> SUFFICES ASSUME IInv, Next, key["node"] # None, hellos' = hellos
               PROVE  key'["node"] = key["node"]
    OBVIOUS
  <2> USE Sides
  <2>1. CASE InitiateHandshake
    BY <2>1 DEF InitiateHandshake, IInv, TypeOK
  <2>2. ASSUME NEW h \in 1 .. hellos, RespondHandshake(h)
        PROVE  key'["node"] = key["node"]
    BY <2>2 DEF RespondHandshake, NewSession, IInv, TypeOK
  <2>3. ASSUME NEW a \in answers, CompleteHandshake(a) PROVE FALSE
    BY <2>3 DEF CompleteHandshake, IInv, TypeOK, PendingIsFresh, Key
  <2>4. CASE \E s \in Side, m \in Texts : EncryptPayload(s, m)
    BY <2>4 DEF EncryptPayload
  <2>5. CASE \E s \in Side : \E f \in Arrivals(s) : DecryptPayload(s, f)
    BY <2>5 DEF DecryptPayload
  <2> QED BY <2>1, <2>2, <2>3, <2>4, <2>5 DEF Next
<1> QED BY <1>1, Initially, Inductive, PTL DEF Spec, KeyIsStable

(***************************************************************************)
(* Nonces.                                                                 *)
(***************************************************************************)
THEOREM NoncesAreFresh == Spec => []NonceUsedOnce
<1>1. IInv => NonceUsedOnce BY DEF IInv
<1> QED BY <1>1, Initially, Inductive, PTL DEF Spec
-----------------------------------------------------------------------------
(***************************************************************************)
(* The order of deliveries across sessions: what a side got belongs to its *)
(* session or to one before it, so the next frame comes after all of it.   *)
(***************************************************************************)
HandedIsPast ==
  /\ \A s \in Side : key[s] # None =>
       \A f \in Range(handed[s]) :
         \/ f.key = key[s]
         \/ s = "node" /\ f.key.hello < key[s].hello
         \/ s = "sink" /\ f.key.answer < key[s].answer

OrderInv == HandedIsPast /\ SessionsInOrder

LEMMA OrderInductive == IInv /\ OrderInv /\ [Next]_vars => OrderInv'
<1> SUFFICES ASSUME IInv, OrderInv, [Next]_vars PROVE OrderInv' OBVIOUS
<1> USE SessionAssumption, Sides DEF OrderInv
<1>1. ASSUME handed' = handed PROVE SessionsInOrder'
  BY <1>1 DEF SessionsInOrder, Earlier
<1>2. ASSUME UNCHANGED <<handed, key>> PROVE OrderInv'
  BY <1>1, <1>2 DEF HandedIsPast
<1>3. CASE InitiateHandshake
  <2>1. handed' = handed /\ key' = [key EXCEPT !["node"] = None]
    BY <1>3 DEF InitiateHandshake, NewSession
  <2> QED BY <1>1, <2>1 DEF HandedIsPast, IInv, TypeOK
<1>4. ASSUME NEW h \in 1 .. hellos, RespondHandshake(h) PROVE OrderInv'
  <2>1. /\ handed' = handed
        /\ key' = [key EXCEPT !["sink"] = [hello |-> h, answer |-> answered + 1]]
    BY <1>4 DEF RespondHandshake, NewSession
  <2>2. \A f \in Range(handed["sink"]) : f.key \in answers /\ f.key \in Key
    BY HandedFrames DEF IInv, KeysAreAnswers, Frame
  <2>3. \A f \in Range(handed["sink"]) : f.key.answer < answered + 1
    BY <2>2 DEF IInv, TypeOK, KeysAreAnswers, Key
  <2> QED BY <1>1, <2>1, <2>3 DEF HandedIsPast, IInv, TypeOK
<1>5. ASSUME NEW a \in answers, CompleteHandshake(a) PROVE OrderInv'
  <2>1. /\ handed' = handed /\ key' = [key EXCEPT !["node"] = a]
        /\ a.hello = pending /\ pending # 0
    BY <1>5 DEF CompleteHandshake, IInv, TypeOK, Key
  <2>2. \A f \in Range(handed["node"]) : f.key.hello < a.hello
    BY <2>1 DEF IInv, PendingIsFresh
  <2> QED BY <1>1, <2>1, <2>2 DEF HandedIsPast, IInv, TypeOK
<1>6. ASSUME NEW s \in Side, NEW f \in Arrivals(s), DecryptPayload(s, f), handed' # handed
      PROVE  OrderInv'
  <2>1. /\ f \in frames[Peer(s)] /\ f.key = key[s]
        /\ handed' = [handed EXCEPT ![s] = Append(handed[s], f)]
        /\ \A x \in Range(handed[s]) : x.key = f.key => x.counter < f.counter
    BY <1>6, HandedIsNewer
  <2>2. key' = key /\ key[s] # None
    BY <1>6 DEF DecryptPayload
  <2>3. handed[s] \in Seq(Frame) /\ Range(handed'[s]) = Range(handed[s]) \cup {f}
        /\ \A t \in Side \ {s} : handed'[t] = handed[t]
    BY <2>1, AppendRange DEF IInv, TypeOK
  <2>4. HandedIsPast'
    BY <2>1, <2>2, <2>3 DEF HandedIsPast
  <2>5. \A x \in Range(handed[s]) : Earlier(s, x, f)
    BY <2>1, <2>2 DEF HandedIsPast, Earlier
  <2>6. \A i, j \in DOMAIN handed'[s] : i < j => Earlier(s, handed'[s][i], handed'[s][j])
    <3> SUFFICES ASSUME NEW i \in DOMAIN handed'[s], NEW j \in DOMAIN handed'[s], i < j
                 PROVE  Earlier(s, handed'[s][i], handed'[s][j])
      OBVIOUS
    <3>1. handed'[s] = Append(handed[s], f)
      BY <2>1 DEF IInv, TypeOK
    <3>2. /\ i \in DOMAIN handed[s] /\ handed'[s][i] = handed[s][i]
          /\ \/ j \in DOMAIN handed[s] /\ handed'[s][j] = handed[s][j]
             \/ handed'[s][j] = f
      BY <2>3, <3>1
    <3>3. handed[s][i] \in Range(handed[s])
      BY <3>2 DEF Range
    <3> QED BY <2>5, <3>2, <3>3 DEF SessionsInOrder
  <2>7. \A x, y : \A t \in Side : Earlier(t, x, y)' <=> Earlier(t, x, y)
    BY DEF Earlier
  <2>8. SessionsInOrder'
    BY <2>3, <2>6, <2>7 DEF SessionsInOrder
  <2> QED BY <2>4, <2>8
<1>7. ASSUME NEW s \in Side, NEW f \in Arrivals(s), DecryptPayload(s, f) PROVE OrderInv'
  BY <1>2, <1>6, <1>7 DEF DecryptPayload
<1>8. CASE \E s \in Side, m \in Texts : EncryptPayload(s, m)
  BY <1>2, <1>8 DEF EncryptPayload
<1> QED BY <1>2, <1>3, <1>4, <1>5, <1>7, <1>8 DEF Next, vars

(***************************************************************************)
(* No side gets a frame of a session after one of a later session.         *)
(***************************************************************************)
THEOREM OldSessionsStayOld == Spec => []SessionsInOrder
<1>1. Init => OrderInv
  BY DEF Init, OrderInv, HandedIsPast, SessionsInOrder
<1>2. OrderInv => SessionsInOrder
  BY DEF OrderInv
<1> QED BY <1>1, <1>2, Initially, Inductive, OrderInductive, PTL DEF Spec
-----------------------------------------------------------------------------
(***************************************************************************)
(* A step of the sessions is, in each direction, a step of the stream or   *)
(* leaves it alone.                                                        *)
(***************************************************************************)
LEMMA StreamStep ==
  ASSUME IInv, Next, NEW s \in Side
  PROVE  \/ UNCHANGED <<frames[Peer(s)], handed[s]>>
         \/ /\ \E f \in Frame :
                 /\ \A x \in frames[Peer(s)] : x.key = f.key => x.counter < f.counter
                 /\ frames'[Peer(s)] = frames[Peer(s)] \cup {f}
            /\ UNCHANGED handed[s]
         \/ /\ \E f \in frames[Peer(s)] :
                 /\ \A x \in Range(handed[s]) : x.key = f.key => x.counter < f.counter
                 /\ handed'[s] = Append(handed[s], f)
            /\ UNCHANGED frames[Peer(s)]
<1> USE Sides
<1>1. CASE InitiateHandshake
  BY <1>1 DEF InitiateHandshake
<1>2. CASE \E h \in 1 .. hellos : RespondHandshake(h)
  BY <1>2 DEF RespondHandshake
<1>3. CASE \E a \in answers : CompleteHandshake(a)
  BY <1>3 DEF CompleteHandshake
<1>4. ASSUME NEW t \in Side, NEW m \in Texts, EncryptPayload(t, m)
      PROVE  \/ UNCHANGED <<frames[Peer(s)], handed[s]>>
             \/ /\ \E f \in Frame :
                     /\ \A x \in frames[Peer(s)] : x.key = f.key => x.counter < f.counter
                     /\ frames'[Peer(s)] = frames[Peer(s)] \cup {f}
                /\ UNCHANGED handed[s]
  <2>1. PICK f \in Frame :
           /\ frames' = [frames EXCEPT ![t] = frames[t] \cup {f}]
           /\ \A x \in frames[t] : x.key = f.key => x.counter < f.counter
    BY <1>4, SentIsNewer
  <2>2. handed' = handed /\ frames \in [Side -> SUBSET Frame]
    BY <1>4 DEF EncryptPayload, IInv, TypeOK
  <2>3. CASE t = Peer(s)
    BY <2>1, <2>2, <2>3
  <2>4. CASE t # Peer(s)
    BY <2>1, <2>2, <2>4
  <2> QED BY <2>3, <2>4
<1>5. ASSUME NEW t \in Side, NEW f \in Arrivals(t), DecryptPayload(t, f)
      PROVE  \/ UNCHANGED <<frames[Peer(s)], handed[s]>>
             \/ /\ \E g \in frames[Peer(s)] :
                     /\ \A x \in Range(handed[s]) : x.key = g.key => x.counter < g.counter
                     /\ handed'[s] = Append(handed[s], g)
                /\ UNCHANGED frames[Peer(s)]
  <2>1. frames' = frames /\ handed \in [Side -> Seq(Frame)]
    BY <1>5 DEF DecryptPayload, IInv, TypeOK
  <2>2. CASE handed' = handed
    BY <2>1, <2>2
  <2>3. CASE handed' # handed
    <3>1. /\ f \in frames[Peer(t)]
          /\ handed' = [handed EXCEPT ![t] = Append(handed[t], f)]
          /\ \A x \in Range(handed[t]) : x.key = f.key => x.counter < f.counter
      BY <1>5, <2>3, HandedIsNewer
    <3>2. CASE t = s
      BY <2>1, <3>1, <3>2
    <3>3. CASE t # s
      BY <2>1, <3>1, <3>3
    <3> QED BY <3>2, <3>3
  <2> QED BY <2>2, <2>3
<1> QED BY <1>1, <1>2, <1>3, <1>4, <1>5 DEF Next

(***************************************************************************)
(* What the sink gets from the node is what the node sent, at most once    *)
(* and in order.                                                           *)
(***************************************************************************)
THEOREM SinkGetsStream == Spec => StreamToSink
<1>1. Init => Uplink!Init
  BY Sides DEF Init, Uplink!Init
<1>2. IInv /\ [Next]_vars => [Uplink!Next]_<<frames["node"], handed["sink"]>>
  <2> SUFFICES ASSUME IInv, Next
               PROVE  Uplink!Next \/ UNCHANGED <<frames["node"], handed["sink"]>>
    BY DEF vars
  <2> QED BY StreamStep, Sides
          DEF Uplink!Next, Uplink!Send, Uplink!Deliver, Uplink!After, Uplink!Range, Range
<1> QED BY <1>1, <1>2, Initially, Inductive, PTL DEF Spec, StreamToSink, Uplink!Spec

(***************************************************************************)
(* The same for what the node gets from the sink.                          *)
(***************************************************************************)
THEOREM NodeGetsStream == Spec => StreamToNode
<1>1. Init => Downlink!Init
  BY Sides DEF Init, Downlink!Init
<1>2. IInv /\ [Next]_vars => [Downlink!Next]_<<frames["sink"], handed["node"]>>
  <2> SUFFICES ASSUME IInv, Next
               PROVE  Downlink!Next \/ UNCHANGED <<frames["sink"], handed["node"]>>
    BY DEF vars
  <2> QED BY StreamStep, Sides
          DEF Downlink!Next, Downlink!Send, Downlink!Deliver, Downlink!After, Downlink!Range, Range
<1> QED BY <1>1, <1>2, Initially, Inductive, PTL DEF Spec, StreamToNode, Downlink!Spec
=============================================================================
