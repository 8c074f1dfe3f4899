------------------------------ MODULE RelayProofs ------------------------------
(***************************************************************************)
(* Proofs about Relay, for any number of nodes, addresses, messages,       *)
(* changes of address and restarts.                                        *)
(***************************************************************************)
EXTENDS Relay, TLAPS

\* No two nodes have the same address.
Apart == \A m, n \in Nids : where[m] = where[n] /\ where[m] # None => m = n

IInv == TypeOK /\ Apart /\ Settled /\ PushedAreQueued

LEMMA AppendFromEnd ==
  ASSUME NEW S, NEW s \in Seq(S), NEW e \in S
  PROVE  /\ Len(Append(s, e)) = Len(s) + 1
         /\ FromEnd(Append(s, e), 0) = e
         /\ \A i \in 1 .. Len(s) : FromEnd(Append(s, e), i) = FromEnd(s, i - 1)
BY DEF FromEnd

LEMMA Initially == Init => IInv
<1> SUFFICES ASSUME Init PROVE IInv
  OBVIOUS
<1>1. TypeOK
  BY RelayAssumption DEF Init, TypeOK
<1>2. Apart /\ Settled /\ PushedAreQueued
  BY DEF Init, Apart, Settled, PushedAreQueued, Target
<1> QED BY <1>1, <1>2 DEF IInv

LEMMA MoveKeeps ==
  ASSUME IInv, NEW n \in Nids, NEW a \in Addresses \cup {None}, Move(n, a)
  PROVE  IInv'
<1> USE RelayAssumption DEF IInv, Move, sink
<1>1. TypeOK'
  BY DEF TypeOK
<1>2. Apart'
  BY DEF Apart, TypeOK
<1>3. Settled'
  BY DEF Settled, Target, Author, TypeOK
<1>4. PushedAreQueued'
  BY DEF PushedAreQueued, Target, FromEnd
<1> QED BY <1>1, <1>2, <1>3, <1>4

LEMMA RegisterKeeps ==
  ASSUME IInv, NEW n \in Nids, Register(n)
  PROVE  IInv'
<1> USE RelayAssumption DEF IInv, Register
<1>1. TypeOK'
  BY DEF TypeOK
<1>2. Apart'
  BY DEF Apart
<1>3. Settled'
  <2> SUFFICES ASSUME NEW m \in settled'
               PROVE  where[m] # None /\ Target(m)' = where[m] /\ Author(where[m])' = m
    BY DEF Settled, Author, Target
  <2>1. CASE m = n
    BY <2>1 DEF Target, Author, TypeOK
  <2>2. CASE m # n
    <3>1. m \in settled /\ m \in Nids /\ where[m] # None /\ where[m] # where[n]
      BY <2>2 DEF Settled, Apart, TypeOK
    <3> QED BY <2>2, <3>1 DEF Settled, Target, Author, TypeOK
  <2> QED BY <2>1, <2>2
<1>4. PushedAreQueued'
  BY DEF PushedAreQueued, Target, FromEnd, TypeOK
<1> QED BY <1>1, <1>2, <1>3, <1>4

LEMMA ReachesSome ==
  ASSUME TypeOK, NEW a \in Addresses, NEW mail \in Mail, Reaches(a, mail)
  PROVE  /\ received' \in [Nids -> SUBSET Mail]
         /\ \A m \in Nids : \A x \in received'[m] \ received[m] :
               x = mail /\ where[m] = a
<1>1. CASE UNCHANGED received
  BY <1>1 DEF TypeOK
<1>2. CASE \E m \in Nids : /\ where[m] = a
                          /\ received' = [received EXCEPT ![m] = @ \cup {mail}]
  <2>1. PICK m \in Nids : /\ where[m] = a
                         /\ received' = [received EXCEPT ![m] = @ \cup {mail}]
    BY <1>2
  <2>2. received[m] \cup {mail} \in SUBSET Mail
    BY DEF TypeOK
  <2> QED BY <2>1, <2>2 DEF TypeOK
<1> QED BY <1>1, <1>2 DEF Reaches

LEMMA HandleNodeToNodeKeeps ==
  ASSUME IInv, NEW m \in Nids, NEW n \in Nids, HandleNodeToNode(m, n)
  PROVE  IInv'
<1> DEFINE entry == [from |-> Author(where[m]), by |-> m, id |-> messages + 1]
           mail == [to |-> n, id |-> messages + 1]
<1>1. /\ where[m] # None /\ messages < MaxMessages /\ messages' = messages + 1
      /\ message_queues' = [message_queues EXCEPT ![n] = Append(@, entry)]
      /\ \/ /\ Target(n) # None
            /\ pushed' = [pushed EXCEPT ![n] = Append(@, entry)]
            /\ Reaches(Target(n), mail)
         \/ Target(n) = None /\ UNCHANGED <<pushed, received>>
      /\ UNCHANGED <<connected_nodes, nid_to_address, where, settled, moves, restarts>>
  BY DEF HandleNodeToNode
<1>2. entry \in Entry /\ mail \in Mail /\ messages + 1 \in 1 .. MaxMessages
  BY <1>1, RelayAssumption DEF IInv, TypeOK, Entry, Mail, Author
<1>3. TypeOK'
  <2> HIDE DEF entry
  <2>1. Append(message_queues[n], entry) \in Seq(Entry)
        /\ Append(pushed[n], entry) \in Seq(Entry)
    BY <1>2 DEF IInv, TypeOK
  <2>3. message_queues' \in [Nids -> Seq(Entry)] /\ pushed' \in [Nids -> Seq(Entry)]
    BY <1>1, <2>1 DEF IInv, TypeOK
  <2>2. received' \in [Nids -> SUBSET Mail]
    BY <1>1, <1>2, ReachesSome DEF IInv, TypeOK, Target
  <2> QED BY <1>1, <1>2, <2>2, <2>3, RelayAssumption DEF IInv, TypeOK
<1>4. Apart' /\ Settled'
  BY <1>1 DEF IInv, Apart, Settled, Target, Author
<1>5. PushedAreQueued'
  <2> SUFFICES ASSUME NEW k \in Nids
               PROVE  /\ Len(pushed'[k]) <= Len(message_queues'[k])
                      /\ \A i \in 0 .. Len(pushed'[k]) - 1 :
                           FromEnd(pushed'[k], i) = FromEnd(message_queues'[k], i)
                      /\ nid_to_address[k] = None => pushed'[k] = <<>>
    BY <1>1 DEF PushedAreQueued, FromEnd, Target
  <2>1. /\ Len(pushed[k]) <= Len(message_queues[k])
        /\ \A i \in 0 .. Len(pushed[k]) - 1 :
             FromEnd(pushed[k], i) = FromEnd(message_queues[k], i)
        /\ nid_to_address[k] = None => pushed[k] = <<>>
        /\ pushed[k] \in Seq(Entry) /\ message_queues[k] \in Seq(Entry)
    BY DEF IInv, PushedAreQueued, TypeOK, Target
  <2>2. CASE k # n
    <3>1. pushed'[k] = pushed[k] /\ message_queues'[k] = message_queues[k]
      BY <1>1, <2>2 DEF IInv, TypeOK
    <3> QED BY <2>1, <3>1
  <2>3. CASE k = n /\ Target(n) = None
    <3>1. pushed'[k] = <<>> /\ message_queues'[k] = Append(message_queues[k], entry)
      BY <1>1, <2>1, <2>3 DEF IInv, TypeOK, Target
    <3>2. Len(pushed'[k]) = 0 /\ Len(message_queues'[k]) \in Nat
      BY <1>2, <2>1, <3>1, AppendFromEnd
    <3> QED BY <3>1, <3>2
  <2>4. CASE k = n /\ Target(n) # None
    <3> DEFINE p == pushed[k]
               q == message_queues[k]
    <3>1. pushed'[k] = Append(p, entry) /\ message_queues'[k] = Append(q, entry)
      BY <1>1, <2>4 DEF IInv, TypeOK
    <3>2. /\ Len(Append(p, entry)) = Len(p) + 1 /\ FromEnd(Append(p, entry), 0) = entry
          /\ \A i \in 1 .. Len(p) : FromEnd(Append(p, entry), i) = FromEnd(p, i - 1)
      BY <1>2, <2>1, AppendFromEnd
    <3>3. /\ Len(Append(q, entry)) = Len(q) + 1 /\ FromEnd(Append(q, entry), 0) = entry
          /\ \A i \in 1 .. Len(q) : FromEnd(Append(q, entry), i) = FromEnd(q, i - 1)
      BY <1>2, <2>1, AppendFromEnd
    <3>4. Len(p) \in Nat /\ Len(q) \in Nat /\ Len(p) <= Len(q)
      BY <2>1
    <3> HIDE DEF entry, p, q
    <3>5. ASSUME NEW i \in 0 .. Len(p)
          PROVE  FromEnd(Append(p, entry), i) = FromEnd(Append(q, entry), i)
      <4>1. CASE i = 0
        BY <3>2, <3>3, <4>1
      <4>2. CASE i # 0
        <5>1. i \in 1 .. Len(p) /\ i \in 1 .. Len(q) /\ i - 1 \in 0 .. Len(p) - 1
          BY <3>4, <4>2
        <5>2. FromEnd(p, i - 1) = FromEnd(q, i - 1)
          BY <2>1, <5>1 DEF p, q
        <5> QED BY <3>2, <3>3, <5>1, <5>2
      <4> QED BY <4>1, <4>2
    <3> QED BY <2>4, <3>1, <3>2, <3>3, <3>4, <3>5 DEF Target
  <2> QED BY <2>2, <2>3, <2>4
<1> QED BY <1>3, <1>4, <1>5 DEF IInv

LEMMA RestartKeeps ==
  ASSUME IInv, Restart
  PROVE  IInv'
<1> USE RelayAssumption DEF IInv, Restart
<1>1. TypeOK'
  BY DEF TypeOK
<1>2. Apart' /\ Settled' /\ PushedAreQueued'
  BY DEF Apart, Settled, PushedAreQueued, Target, FromEnd
<1> QED BY <1>1, <1>2

LEMMA StepKeeps == IInv /\ [Next]_vars => IInv'
<1> SUFFICES ASSUME IInv, [Next]_vars PROVE IInv'
  OBVIOUS
<1>1. CASE \E n \in Nids : \E a \in Addresses \cup {None} : Move(n, a)
  BY <1>1, MoveKeeps
<1>2. CASE \E n \in Nids : Register(n)
  BY <1>2, RegisterKeeps
<1>3. CASE \E m, n \in Nids : HandleNodeToNode(m, n)
  BY <1>3, HandleNodeToNodeKeeps
<1>4. CASE Restart
  BY <1>4, RestartKeeps
<1>5. CASE UNCHANGED vars
  BY <1>5 DEF vars, sink, nodes, IInv, TypeOK, Apart, Settled, PushedAreQueued,
              Target, Author, FromEnd
<1> QED BY <1>1, <1>2, <1>3, <1>4, <1>5 DEF Next

LEMMA Always == Spec => []IInv
BY Initially, StepKeeps, PTL DEF Spec

\* The dictionaries of the sink and its queues have the types they should.
THEOREM TypeCorrect == Spec => []TypeOK
BY Always, PTL DEF IInv

\* A message for a settled node reaches no other, and its own messages are
\* queued under its name, whatever moved before (sink.py:171-172, 195, 203-207).
THEOREM SettledServed == Spec => SettledAreServed
<1> DEFINE Finds ==
       \A m, n \in Nids : \A mail \in received'[m] \ received[m] :
         n \in settled /\ mail.to = n => m = n
     Named ==
       \A n \in Nids : Len(message_queues'[n]) > Len(message_queues[n]) =>
         LET entry == FromEnd(message_queues'[n], 0)
         IN entry.by \in settled => entry.from = entry.by
<1>1. ASSUME IInv, [Next]_vars PROVE Finds /\ Named
  <2>1. ASSUME NEW m \in Nids, NEW n \in Nids, HandleNodeToNode(m, n)
        PROVE  Finds /\ Named
    <3> DEFINE new == [from |-> Author(where[m]), by |-> m, id |-> messages + 1]
               letter == [to |-> n, id |-> messages + 1]
    <3>1. /\ where[m] # None /\ messages < MaxMessages
          /\ message_queues' = [message_queues EXCEPT ![n] = Append(@, new)]
          /\ \/ Target(n) # None /\ Reaches(Target(n), letter)
             \/ UNCHANGED received
      BY <2>1 DEF HandleNodeToNode
    <3>2. new \in Entry /\ letter \in Mail
      BY <3>1, <1>1, RelayAssumption DEF IInv, TypeOK, Entry, Mail, Author
    <3>3. Finds
      <4>1. CASE UNCHANGED received
        BY <4>1
      <4>2. CASE Target(n) # None /\ Reaches(Target(n), letter)
        <5>1. \A k \in Nids : \A x \in received'[k] \ received[k] :
                x = letter /\ where[k] = Target(n)
          BY <1>1, <3>2, <4>2, ReachesSome DEF IInv, TypeOK, Target
        <5>2. n \in settled => \A k \in Nids : where[k] = Target(n) => k = n
          BY <1>1, <4>2 DEF IInv, Settled, Apart
        <5> QED BY <5>1, <5>2
      <4> QED BY <3>1, <4>1, <4>2
    <3>4. Named
      <4> SUFFICES ASSUME NEW k \in Nids,
                          Len(message_queues'[k]) > Len(message_queues[k]),
                          FromEnd(message_queues'[k], 0).by \in settled
                   PROVE  FromEnd(message_queues'[k], 0).from
                            = FromEnd(message_queues'[k], 0).by
        OBVIOUS
      <4>1. k = n
        <5>1. CASE k # n
          <6>1. message_queues'[k] = message_queues[k]
            BY <1>1, <3>1, <5>1 DEF IInv, TypeOK
          <6>2. Len(message_queues[k]) \in Nat
            BY <1>1 DEF IInv, TypeOK
          <6> QED BY <6>1, <6>2
        <5> QED BY <5>1
      <4>2. message_queues'[k] = Append(message_queues[k], new)
            /\ message_queues[k] \in Seq(Entry)
        BY <1>1, <3>1, <4>1 DEF IInv, TypeOK
      <4>3. FromEnd(message_queues'[k], 0) = new
        BY <3>2, <4>2, AppendFromEnd
      <4> QED BY <1>1, <4>3 DEF IInv, Settled
    <3> QED BY <3>3, <3>4
  <2>2. CASE UNCHANGED <<message_queues, received>>
    BY <1>1, <2>2 DEF IInv, TypeOK
  <2>3. CASE Restart
    <3>1. \A n \in Nids : Len(message_queues'[n]) = 0 /\ Len(message_queues[n]) \in Nat
      BY <1>1, <2>3 DEF Restart, IInv, TypeOK
    <3> QED BY <2>3, <3>1 DEF Restart
  <2>4. \/ \E m, n \in Nids : HandleNodeToNode(m, n)
        \/ UNCHANGED <<message_queues, received>>
        \/ Restart
    BY <1>1 DEF Next, Move, Register, vars, sink, nodes
  <2> QED BY <2>1, <2>2, <2>3, <2>4
<1>2. IInv /\ [Next]_vars => [Finds /\ Named]_vars
  BY <1>1
<1> QED BY <1>2, Always, PTL DEF Spec, SettledAreServed

\* Messages sent on are the end of those queued, in order (sink.py:201-207).
THEOREM QueuesAreNotOvertaken == Spec => []PushedAreQueued
BY Always, PTL DEF IInv
=============================================================================
