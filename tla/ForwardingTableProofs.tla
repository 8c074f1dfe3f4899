------------------------ MODULE ForwardingTableProofs ------------------------
(***************************************************************************)
(* Proofs about ForwardingTable, for every set of destinations and routes, *)
(* every timeout and period, and a clock without bound (MaxTime is any     *)
(* natural number).                                                        *)
(***************************************************************************)
EXTENDS ForwardingTable, TLAPS

\* No entry is older than the last cleanup allows, none is from the future.
Aged ==
  \A n \in Nids :
    Present(n) => /\ last_cleanup - AgingTimeout <= table[n].last_seen
                  /\ table[n].last_seen <= now

\* The last effective cleanup is at most a throttle and a sleep before the
\* next round, and the next round is at most MaxLag late.
Clocks ==
  /\ last_cleanup <= now
  /\ wake < last_cleanup + LoopPeriod + CleanupPeriod
  /\ now <= wake + MaxLag

IInv == TypeOK /\ Aged /\ Clocks

(***************************************************************************)
(* What one call of _cleanup_expired leaves: a table of the right type     *)
(* whose entries are old ones that survived.                               *)
(***************************************************************************)
LEMMA CleanedEntries ==
  ASSUME TypeOK
  PROVE  /\ Cleaned \in [Nids -> Entry \cup {Absent}]
         /\ \A n \in Nids : Cleaned[n] # Absent =>
              /\ Cleaned[n] = table[n] /\ Present(n)
              /\ CleanupDue => ~IsExpired(table[n])
BY DEF TypeOK, Cleaned, Collected, Present

(***************************************************************************)
(* A step that replaces the table by the cleaned one, up to is_active      *)
(* flags, and stamps the cleanup keeps the age invariant.                  *)
(***************************************************************************)
LEMMA CleaningKeepsAged ==
  ASSUME IInv, CleanupStamp, now' = now,
         table' \in [Nids -> Entry \cup {Absent}],
         \A n \in Nids : table'[n] # Absent =>
           Cleaned[n] # Absent /\ table'[n].last_seen = Cleaned[n].last_seen
  PROVE  Aged'
<1>1. SUFFICES ASSUME NEW n \in Nids, table'[n] # Absent
               PROVE  /\ last_cleanup' - AgingTimeout <= table'[n].last_seen
                      /\ table'[n].last_seen <= now'
  BY DEF Aged, Present
<1>2. /\ table'[n].last_seen = table[n].last_seen
      /\ Present(n)
      /\ CleanupDue => ~IsExpired(table[n])
      /\ table[n].last_seen \in Int
  BY <1>1, CleanedEntries DEF IInv, TypeOK, Entry, Present
<1>3. /\ last_cleanup - AgingTimeout <= table[n].last_seen
      /\ table[n].last_seen <= now
  BY <1>1, <1>2 DEF IInv, Aged
<1>4. CASE CleanupDue
  BY <1>2, <1>3, <1>4, TableAssumption DEF IsExpired, CleanupStamp, IInv, TypeOK
<1>5. CASE ~CleanupDue
  BY <1>2, <1>3, <1>5 DEF CleanupStamp
<1> QED BY <1>4, <1>5

(***************************************************************************)
(* Stamping a cleanup never breaks the relation between the clocks.        *)
(***************************************************************************)
LEMMA StampKeepsClocks ==
  ASSUME IInv, CleanupStamp, UNCHANGED <<now, wake>>
  PROVE  Clocks' /\ last_cleanup' \in Int
BY TableAssumption DEF IInv, TypeOK, Clocks, CleanupStamp, CleanupDue

LEMMA Initially == Init => IInv
BY TableAssumption DEF Init, IInv, TypeOK, Aged, Clocks, Present

(***************************************************************************)
(* The inductive step: one step per method of the class, one for the aging *)
(* task, one for the clock.                                                *)
(***************************************************************************)
LEMMA Inductive == IInv /\ [Next]_vars => IInv'
<1> SUFFICES ASSUME IInv, [Next]_vars PROVE IInv' OBVIOUS
<1> USE TableAssumption
<1>1. ASSUME NEW n \in Nids, NEW r \in Routes, NEW h \in Hops, AddEntry(n, r, h)
      PROVE  IInv'
  <2>1. /\ table' \in [Nids -> Entry \cup {Absent}]
        /\ \A m \in Nids : table'[m] = table[m] \/ table'[m].last_seen = now
    BY <1>1 DEF AddEntry, IInv, TypeOK, Entry
  <2>2. TypeOK' /\ Clocks'
    BY <1>1, <2>1 DEF AddEntry, IInv, TypeOK, Clocks
  <2>3. Aged'
    BY <1>1, <2>1 DEF AddEntry, IInv, TypeOK, Aged, Clocks, Present
  <2> QED BY <2>2, <2>3 DEF IInv
<1>2. ASSUME NEW n \in Nids, UpdateActivity(n) PROVE IInv'
  <2>1. /\ table' \in [Nids -> Entry \cup {Absent}]
        /\ \A m \in Nids : table'[m] = table[m] \/ table'[m].last_seen = now
    BY <1>2 DEF UpdateActivity, Present, IInv, TypeOK, Entry
  <2>2. TypeOK' /\ Clocks'
    BY <1>2, <2>1 DEF UpdateActivity, IInv, TypeOK, Clocks
  <2>3. Aged'
    BY <1>2, <2>1 DEF UpdateActivity, IInv, TypeOK, Aged, Clocks, Present
  <2> QED BY <2>2, <2>3 DEF IInv
<1>3. ASSUME NEW n \in Nids, GetRoute(n) PROVE IInv'
  <2>1. CleanupStamp /\ UNCHANGED <<now, wake>>
    BY <1>3 DEF GetRoute
  <2>2. \/ table' = Cleaned
        \/ Cleaned[n] # Absent /\ table' = [Cleaned EXCEPT ![n].is_active = FALSE]
    BY <1>3 DEF GetRoute
  <2>3. Cleaned \in [Nids -> Entry \cup {Absent}]
    BY CleanedEntries DEF IInv
  <2>4. /\ table' \in [Nids -> Entry \cup {Absent}]
        /\ \A m \in Nids : table'[m] # Absent =>
             Cleaned[m] # Absent /\ table'[m].last_seen = Cleaned[m].last_seen
    <3>1. CASE table' = Cleaned
      BY <2>3, <3>1
    <3>2. CASE Cleaned[n] # Absent /\ table' = [Cleaned EXCEPT ![n].is_active = FALSE]
      BY <2>3, <3>2 DEF Entry
    <3> QED BY <2>2, <3>1, <3>2
  <2>5. Aged'
    BY <2>1, <2>4, CleaningKeepsAged
  <2> QED BY <2>1, <2>4, <2>5, StampKeepsClocks DEF IInv, TypeOK
<1>4. ASSUME NEW n \in Nids, GetHops(n) PROVE IInv'
  BY <1>4 DEF GetHops, IInv, TypeOK, Aged, Clocks, Present
<1>5. ASSUME GetAllEntries PROVE IInv'
  <2>1. CleanupStamp /\ UNCHANGED <<now, wake>> /\ table' = Cleaned
    BY <1>5 DEF GetAllEntries
  <2>2. table' \in [Nids -> Entry \cup {Absent}]
    BY <2>1, CleanedEntries DEF IInv
  <2>3. Aged'
    BY <2>1, <2>2, CleaningKeepsAged
  <2> QED BY <2>1, <2>2, <2>3, StampKeepsClocks DEF IInv, TypeOK
<1>6. ASSUME NEW n \in Nids, RemoveEntry(n) PROVE IInv'
  BY <1>6 DEF RemoveEntry, IInv, TypeOK, Aged, Clocks, Present
<1>7. ASSUME NEW n \in Nids, MarkRecovery(n) PROVE IInv'
  <2>1. /\ table' \in [Nids -> Entry \cup {Absent}]
        /\ \A m \in Nids : table'[m] # Absent =>
             table[m] # Absent /\ table'[m].last_seen = table[m].last_seen
    BY <1>7 DEF MarkRecovery, Present, IInv, TypeOK, Entry
  <2> QED BY <1>7, <2>1 DEF MarkRecovery, IInv, TypeOK, Aged, Clocks, Present
<1>8. ASSUME AgingRound PROVE IInv'
  <2>1. /\ CleanupStamp /\ table' = Cleaned
        /\ wake' = now + LoopPeriod /\ now' = now
    BY <1>8 DEF AgingRound
  <2>2. table' \in [Nids -> Entry \cup {Absent}]
    BY <2>1, CleanedEntries DEF IInv
  <2>3. Aged'
    BY <2>1, <2>2, CleaningKeepsAged
  <2>4. Clocks' /\ last_cleanup' \in Int /\ wake' \in Nat /\ now' \in Nat
    BY <2>1 DEF IInv, TypeOK, Clocks, CleanupStamp, CleanupDue
  <2> QED BY <2>2, <2>3, <2>4 DEF IInv, TypeOK
<1>9. ASSUME Tick PROVE IInv'
  <2>1. TypeOK'
    BY <1>9 DEF Tick, IInv, TypeOK
  <2>2. Clocks'
    BY <1>9 DEF Tick, IInv, TypeOK, Clocks
  <2>3. Aged'
    <3>1. SUFFICES ASSUME NEW n \in Nids, table[n] # Absent
                   PROVE  /\ last_cleanup - AgingTimeout <= table[n].last_seen
                          /\ table[n].last_seen <= now + 1
      BY <1>9 DEF Tick, Aged, Present
    <3>2. table[n].last_seen \in Int
      BY <3>1 DEF IInv, TypeOK, Entry
    <3> QED BY <3>1, <3>2 DEF IInv, Aged, Present, TypeOK
  <2> QED BY <2>1, <2>2, <2>3 DEF IInv
<1>10. CASE UNCHANGED vars
  BY <1>10 DEF vars, IInv, TypeOK, Aged, Clocks, Present
<1> QED BY <1>1, <1>2, <1>3, <1>4, <1>5, <1>6, <1>7, <1>8, <1>9, <1>10 DEF Next
-----------------------------------------------------------------------------
(***************************************************************************)
(* The state of the table is well typed in every reachable state.          *)
(***************************************************************************)
THEOREM TypeCorrect == Spec => []TypeOK
<1>1. IInv => TypeOK BY DEF IInv
<1> QED BY <1>1, Initially, Inductive, PTL DEF Spec

(***************************************************************************)
(* An entry nobody refreshes is gone within the timeout, the throttle, the *)
(* sleep of the aging task and its lag (protocol.py:102-121,               *)
(* node.py:473-477), whatever lookups happen in between.                   *)
(***************************************************************************)
THEOREM EntriesAgeOut == Spec => []StalenessBound
<1>1. IInv => StalenessBound
  <2>1. SUFFICES ASSUME IInv, NEW n \in Nids, Present(n)
                 PROVE  now - table[n].last_seen
                          < AgingTimeout + CleanupPeriod + LoopPeriod + MaxLag
    BY DEF StalenessBound
  <2>2. table[n].last_seen \in Int
    BY <2>1 DEF IInv, TypeOK, Entry, Present
  <2> QED BY <2>1, <2>2, TableAssumption DEF IInv, TypeOK, Aged, Clocks
<1> QED BY <1>1, Initially, Inductive, PTL DEF Spec

(***************************************************************************)
(* Aging never takes an entry that is younger than the timeout.            *)
(***************************************************************************)
THEOREM AgingIsSafe == Spec => AgingRemovesOnlyExpired
<1>1. TypeOK /\ [Next]_vars =>
        [\A n \in Nids : Present(n) /\ ~Present(n)' =>
           \/ IsExpired(table[n])
           \/ call'.op = "remove_entry" /\ call'.nid = n]_vars
  <2>1. SUFFICES ASSUME TypeOK, Next, NEW n \in Nids, Present(n), ~Present(n)'
                 PROVE  \/ IsExpired(table[n])
                        \/ call'.op = "remove_entry" /\ call'.nid = n
    BY DEF vars, Present
  <2>2. ASSUME Cleaned[n] = Absent PROVE IsExpired(table[n])
    BY <2>1, <2>2 DEF Cleaned, Collected, Present
  <2>3. ASSUME NEW m \in Nids, NEW r \in Routes, NEW h \in Hops, AddEntry(m, r, h)
        PROVE  FALSE
    <3>1. [route |-> r, hops |-> h, last_seen |-> now, is_active |-> TRUE] \in Entry
      BY <2>1 DEF TypeOK, Entry
    <3>2. \/ table'[n] = table[n]
          \/ table'[n] = [route |-> r, hops |-> h, last_seen |-> now, is_active |-> TRUE]
      BY <2>1, <2>3 DEF AddEntry, TypeOK
    <3> QED BY <2>1, <3>1, <3>2, TableAssumption DEF Present
  <2>4. ASSUME NEW m \in Nids, UpdateActivity(m) PROVE FALSE
    BY <2>1, <2>4, TableAssumption DEF UpdateActivity, TypeOK, Present, Entry
  <2>5. ASSUME NEW m \in Nids, GetRoute(m) PROVE Cleaned[n] = Absent
    <3>1. Cleaned \in [Nids -> Entry \cup {Absent}]
      BY <2>1, CleanedEntries
    <3>2. CASE table' = Cleaned
      BY <2>1, <3>2 DEF Present
    <3>3. CASE Cleaned[m] # Absent /\ table' = [Cleaned EXCEPT ![m].is_active = FALSE]
      BY <2>1, <3>1, <3>3, TableAssumption DEF Present, Entry
    <3> QED BY <2>5, <3>2, <3>3 DEF GetRoute
  <2>6. ASSUME NEW m \in Nids, RemoveEntry(m)
        PROVE  call'.op = "remove_entry" /\ call'.nid = n
    BY <2>1, <2>6 DEF RemoveEntry, TypeOK, Present, Called
  <2>7. ASSUME NEW m \in Nids, MarkRecovery(m) PROVE FALSE
    BY <2>1, <2>7, TableAssumption DEF MarkRecovery, TypeOK, Present, Entry
  <2>8. ASSUME GetAllEntries \/ AgingRound PROVE Cleaned[n] = Absent
    BY <2>1, <2>8 DEF GetAllEntries, AgingRound, Present
  <2>9. ASSUME Tick \/ \E m \in Nids : GetHops(m) PROVE FALSE
    BY <2>1, <2>9 DEF Tick, GetHops, Present
  <2> QED BY <2>1, <2>2, <2>3, <2>4, <2>5, <2>6, <2>7, <2>8, <2>9 DEF Next
<1> QED BY <1>1, TypeCorrect, PTL DEF Spec, AgingRemovesOnlyExpired

(***************************************************************************)
(* get_route never hands out a route that is inactive or too old, also     *)
(* when the throttle kept the cleanup from removing it.                    *)
(***************************************************************************)
THEOREM RoutesAreFresh == Spec => []NoStaleRouteReturned
<1>1. Init => NoStaleRouteReturned
  BY DEF Init, NoStaleRouteReturned, Nothing, Called
<1>2. TypeOK /\ NoStaleRouteReturned /\ [Next]_vars => NoStaleRouteReturned'
  <2> SUFFICES ASSUME TypeOK, NoStaleRouteReturned, [Next]_vars
               PROVE  NoStaleRouteReturned'
    OBVIOUS
  <2>1. ASSUME NEW n \in Nids, GetRoute(n) PROVE NoStaleRouteReturned'
    <3>1. CASE /\ Cleaned[n] # Absent /\ Cleaned[n].is_active
               /\ ~IsExpired(Cleaned[n])
               /\ table' = Cleaned
               /\ call' = Called("get_route", n, Cleaned[n].route)
      BY <2>1, <3>1 DEF GetRoute, NoStaleRouteReturned, Usable, Present, IsExpired, Called
    <3>2. CASE call' = Called("get_route", n, Absent)
      BY <3>2 DEF NoStaleRouteReturned, Called
    <3> QED BY <2>1, <3>1, <3>2 DEF GetRoute
  <2>2. CASE call'.op # "get_route"
    BY <2>2 DEF NoStaleRouteReturned
  <2>3. CASE UNCHANGED vars
    BY <2>3 DEF vars, NoStaleRouteReturned, Usable, Present, IsExpired
  <2>4. ASSUME Next, ~(\E n \in Nids : GetRoute(n)) PROVE call'.op # "get_route"
    <3>1. ASSUME NEW n \in Nids, NEW r \in Routes, NEW h \in Hops, AddEntry(n, r, h)
          PROVE  call'.op # "get_route"
      BY <3>1 DEF AddEntry, Called
    <3>2. ASSUME NEW n \in Nids,
                 UpdateActivity(n) \/ GetHops(n) \/ RemoveEntry(n) \/ MarkRecovery(n)
          PROVE  call'.op # "get_route"
      BY <3>2 DEF UpdateActivity, GetHops, RemoveEntry, MarkRecovery, Called
    <3>3. ASSUME GetAllEntries \/ AgingRound \/ Tick PROVE call'.op # "get_route"
      BY <3>3 DEF GetAllEntries, AgingRound, Tick, Called, Nothing
    <3> QED BY <2>4, <3>1, <3>2, <3>3 DEF Next
  <2> QED BY <2>1, <2>2, <2>3, <2>4
<1> QED BY <1>1, <1>2, TypeCorrect, PTL DEF Spec

(***************************************************************************)
(* An entry that get_route or mark_recovery made inactive becomes usable   *)
(* again only by a packet that add_entry accepts (protocol.py:43-50).      *)
(***************************************************************************)
THEOREM RevivalNeedsPacket == Spec => InactiveNeedsLearning
<1> DEFINE Revived(n) ==
      Present(n) /\ ~table[n].is_active /\ Present(n)' /\ table'[n].is_active
           Learnt(n) ==
      /\ call'.op = "add_entry" /\ call'.nid = n
      /\ table'[n].hops <= table[n].hops \/ table'[n].route = table[n].route
      /\ Usable(n)'
<1>1. TypeOK /\ [Next]_vars => [\A n \in Nids : Revived(n) => Learnt(n)]_vars
  <2> SUFFICES ASSUME TypeOK, Next, NEW n \in Nids, Revived(n)
               PROVE  Learnt(n)
    OBVIOUS
  <2>1. /\ table[n] \in Entry /\ table[n] # Absent /\ ~table[n].is_active
        /\ table'[n] # Absent /\ table'[n].is_active
    BY DEF TypeOK, Present
  <2>2. ASSUME NEW m \in Nids, NEW r \in Routes, NEW h \in Hops, AddEntry(m, r, h)
        PROVE  Learnt(n)
    <3>1. m = n
      BY <2>1, <2>2 DEF AddEntry, TypeOK
    <3>2. /\ h <= table[n].hops \/ r = table[n].route
          /\ table'[n] = [route |-> r, hops |-> h, last_seen |-> now, is_active |-> TRUE]
          /\ call' = Called("add_entry", n, r)
      BY <2>1, <2>2, <3>1 DEF AddEntry, TypeOK, Present
    <3>3. Usable(n)'
      BY <2>1, <2>2, <3>2, TableAssumption
         DEF AddEntry, Usable, Present, IsExpired, TypeOK
    <3> QED BY <3>2, <3>3 DEF Called
  <2>3. ASSUME NEW m \in Nids, UpdateActivity(m) PROVE FALSE
    BY <2>1, <2>3 DEF UpdateActivity, TypeOK, Entry
  <2>4. ASSUME NEW m \in Nids, MarkRecovery(m) PROVE FALSE
    BY <2>1, <2>4 DEF MarkRecovery, TypeOK, Entry
  <2>5. ASSUME NEW m \in Nids, RemoveEntry(m) PROVE FALSE
    BY <2>1, <2>5 DEF RemoveEntry, TypeOK
  <2>6. Cleaned[n] = table[n] \/ Cleaned[n] = Absent
    BY DEF Cleaned
  <2>7. ASSUME NEW m \in Nids, GetRoute(m) PROVE FALSE
    <3>1. CASE table' = Cleaned
      BY <2>1, <2>6, <3>1
    <3>2. CASE table' = [Cleaned EXCEPT ![m].is_active = FALSE] /\ Cleaned[m] # Absent
      <4>1. Cleaned \in [Nids -> Entry \cup {Absent}]
        BY DEF Cleaned, TypeOK
      <4>2. CASE m = n
        <5>1. Cleaned[n] \in Entry
          BY <3>2, <4>2, <2>1, <2>6
        <5> QED BY <2>1, <3>2, <4>1, <4>2, <5>1 DEF Entry
      <4>3. CASE m # n
        BY <2>1, <2>6, <3>2, <4>1, <4>3
      <4> QED BY <4>2, <4>3
    <3> QED BY <2>7, <3>1, <3>2 DEF GetRoute
  <2>8. ASSUME GetAllEntries \/ AgingRound PROVE FALSE
    BY <2>1, <2>6, <2>8 DEF GetAllEntries, AgingRound
  <2>9. ASSUME Tick \/ \E m \in Nids : GetHops(m) PROVE FALSE
    BY <2>1, <2>9 DEF Tick, GetHops
  <2> QED BY <2>2, <2>3, <2>4, <2>5, <2>7, <2>8, <2>9 DEF Next
<1> QED BY <1>1, TypeCorrect, PTL DEF Spec, InactiveNeedsLearning
=============================================================================
