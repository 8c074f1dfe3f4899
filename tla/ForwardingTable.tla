--------------------------- MODULE ForwardingTable ---------------------------
(***************************************************************************)
(* The forwarding table with aging of common/protocol.py, class            *)
(* ForwardingTableAging, together with the periodic task that cleans it    *)
(* (IoTNode._aging_cleanup_loop).                                          *)
(*                                                                         *)
(* Every method runs to completion on the event loop of the node, so a     *)
(* method is one action.  Time is a clock in seconds that the methods read *)
(* once; the fields `timestamp' and `packet_count' of an entry are never   *)
(* read by the code and are left out.                                      *)
(***************************************************************************)
EXTENDS Integers, FiniteSets

CONSTANTS
  Nids,           \* network identifiers of possible destinations
  Routes,         \* bluetooth addresses a packet may come from
  Hops,           \* hop counts callers pass; -1 is LinkInfo's "unknown"
  Infinity,       \* float('inf'), written by mark_recovery
  AgingTimeout,   \* aging_timeout (300 s)
  CleanupPeriod,  \* minimal time between two cleanups (60 s)
  LoopPeriod,     \* sleep of the aging task (60 s)
  MaxLag,         \* how late the event loop may run a task that is due
  MaxTime,        \* bound on the clock
  Absent          \* "nid not in self.table"

Entry == [route : Routes, hops : Hops \cup {Infinity},
          last_seen : Int, is_active : BOOLEAN]

ASSUME TableAssumption ==
  /\ Hops \subseteq Int
  /\ Infinity \in Int /\ \A h \in Hops : h < Infinity
  /\ AgingTimeout \in Nat /\ MaxLag \in Nat /\ MaxTime \in Nat
  /\ CleanupPeriod \in Nat \ {0} /\ LoopPeriod \in Nat \ {0}
  /\ Absent \notin Entry

VARIABLES
  table,          \* nid -> entry, or Absent
  last_cleanup,   \* when _cleanup_expired last went through the table
  now,            \* the clock
  wake,           \* when the aging task's sleep ends
  call            \* the last method called: its name, its nid, what it returned

vars == <<table, last_cleanup, now, wake, call>>

Present(n) == table[n] # Absent
IsExpired(entry) == now - entry.last_seen > AgingTimeout
Usable(n) == Present(n) /\ table[n].is_active /\ ~IsExpired(table[n])
Inactive == {n \in Nids : Present(n) /\ ~table[n].is_active}

\* `expired' of get_statistics counts Inactive.
Called(op, n, result) == [op |-> op, nid |-> n, result |-> result]
Nothing == Called("none", Absent, Absent)

TypeOK ==
  /\ table \in [Nids -> Entry \cup {Absent}]
  /\ last_cleanup \in Int
  /\ now \in Nat
  /\ wake \in Nat

Init ==
  /\ table = [n \in Nids |-> Absent]
  /\ last_cleanup = 0
  /\ now = 0
  /\ wake = LoopPeriod
  /\ call = Nothing
-----------------------------------------------------------------------------
(***************************************************************************)
(* _cleanup_expired: does nothing within CleanupPeriod of the last time it *)
(* worked; otherwise drops every entry that is too old, whatever its       *)
(* is_active flag says, after having called on_entry_expire for it.        *)
(***************************************************************************)
CleanupDue == now - last_cleanup >= CleanupPeriod

Collected_Inactive == {n \in Nids : Present(n) /\ ~table[n].is_active}

Collected == IF CleanupDue
             THEN {n \in Nids : Present(n) /\ IsExpired(table[n])}
             ELSE {}

Cleaned == [n \in Nids |-> IF n \in Collected THEN Absent ELSE table[n]]

CleanupStamp_BeforeTest == last_cleanup' = now

CleanupStamp == last_cleanup' = IF CleanupDue THEN now ELSE last_cleanup

(***************************************************************************)
(* add_entry: a new destination is always entered; a known one takes the   *)
(* packet's route when that is not longer than the one it has, or is the   *)
(* same; otherwise the packet leaves no trace.                             *)
(***************************************************************************)
AddEntry(n, r, h) ==
  /\ table' = [table EXCEPT ![n] =
       IF ~Present(n) \/ h <= table[n].hops \/ r = table[n].route
       THEN [route |-> r, hops |-> h, last_seen |-> now, is_active |-> TRUE]
       ELSE @]
  /\ call' = Called("add_entry", n, r)
  /\ UNCHANGED <<last_cleanup, now, wake>>

UpdateActivity_Revives(n) ==
  /\ Present(n)
  /\ table' = [table EXCEPT ![n].last_seen = now, ![n].is_active = TRUE]
  /\ call' = Called("update_activity", n, Absent)
  /\ UNCHANGED <<last_cleanup, now, wake>>

UpdateActivity(n) ==
  /\ Present(n)
  /\ table' = [table EXCEPT ![n].last_seen = now]
  /\ call' = Called("update_activity", n, Absent)
  /\ UNCHANGED <<last_cleanup, now, wake>>

(***************************************************************************)
(* get_route: cleans first; an entry that is active but too old (the       *)
(* cleanup may have been skipped) is only marked inactive.                 *)
(***************************************************************************)
GetRoute_IgnoresAge(n) ==
  /\ CleanupStamp
  /\ table' = Cleaned
  /\ call' = Called("get_route", n,
                    IF Cleaned[n] # Absent /\ Cleaned[n].is_active
                    THEN Cleaned[n].route ELSE Absent)
  /\ UNCHANGED <<now, wake>>

GetRoute(n) ==
  /\ CleanupStamp
  /\ \/ /\ Cleaned[n] # Absent /\ Cleaned[n].is_active /\ ~IsExpired(Cleaned[n])
        /\ table' = Cleaned
        /\ call' = Called("get_route", n, Cleaned[n].route)
     \/ /\ Cleaned[n] # Absent /\ Cleaned[n].is_active /\ IsExpired(Cleaned[n])
        /\ table' = [Cleaned EXCEPT ![n].is_active = FALSE]
        /\ call' = Called("get_route", n, Absent)
     \/ /\ ~(Cleaned[n] # Absent /\ Cleaned[n].is_active)
        /\ table' = Cleaned
        /\ call' = Called("get_route", n, Absent)
  /\ UNCHANGED <<now, wake>>

\* get_hops, unlike get_route, neither cleans nor soft-deletes.
GetHops(n) ==
  /\ call' = Called("get_hops", n, IF Usable(n) THEN table[n].hops ELSE -1)
  /\ UNCHANGED <<table, last_cleanup, now, wake>>

GetAllEntries ==
  /\ table' = Cleaned
  /\ CleanupStamp
  /\ call' = Called("get_all_entries", Absent, Collected)
  /\ UNCHANGED <<now, wake>>

RemoveEntry(n) ==
  /\ table' = [table EXCEPT ![n] = Absent]
  /\ call' = Called("remove_entry", n, Absent)
  /\ UNCHANGED <<last_cleanup, now, wake>>

MarkRecovery(n) ==
  /\ Present(n)
  /\ table' = [table EXCEPT ![n].hops = Infinity, ![n].is_active = FALSE]
  /\ call' = Called("mark_recovery", n, Absent)
  /\ UNCHANGED <<last_cleanup, now, wake>>

(***************************************************************************)
(* One round of the aging task: cleanup, then get_statistics, whose        *)
(* "expired" count the task logs as routes removed.                        *)
(***************************************************************************)
AgingRound ==
  /\ now >= wake
  /\ table' = Cleaned
  /\ CleanupStamp
  /\ wake' = now + LoopPeriod
  /\ call' = Called("aging_round", Absent,
                    [removed |-> Cardinality(Collected),
                     expired |-> Cardinality(Inactive')])
  /\ UNCHANGED now

\* Time passes, but a task that is due runs at most MaxLag late.
Tick ==
  /\ now < MaxTime /\ now < wake + MaxLag
  /\ now' = now + 1
  /\ call' = Nothing
  /\ UNCHANGED <<table, last_cleanup, wake>>

Next ==
  \/ \E n \in Nids : \/ \E r \in Routes, h \in Hops : AddEntry(n, r, h)
                     \/ UpdateActivity(n)
                     \/ GetRoute(n)
                     \/ GetHops(n)
                     \/ RemoveEntry(n)
                     \/ MarkRecovery(n)
  \/ GetAllEntries
  \/ AgingRound
  \/ Tick

Spec == Init /\ [][Next]_vars
-----------------------------------------------------------------------------
(***************************************************************************)
(* Properties.                                                             *)
(***************************************************************************)

(***************************************************************************)
(* An entry that gets no more packets is gone in bounded time.  The bound  *)
(* adds up the timeout, the throttle of _cleanup_expired, the sleep of the *)
(* aging task and its lag: the throttle and the sleep are two clocks that  *)
(* do not run in step, a get_route between two rounds makes the next round *)
(* skip, so neither can be left out (protocol.py:104, node.py:476).        *)
(***************************************************************************)
StalenessBound ==
  \A n \in Nids :
    Present(n) => now - table[n].last_seen
                    < AgingTimeout + CleanupPeriod + LoopPeriod + MaxLag

(***************************************************************************)
(* Whatever mixture of lookups, packets and rounds runs, an entry only     *)
(* disappears because remove_entry was asked to or because it was silent   *)
(* for longer than the timeout; in particular a soft-deleted or recovering *)
(* entry is kept until then (protocol.py:107-119).                         *)
(***************************************************************************)
AgingRemovesOnlyExpired ==
  [][\A n \in Nids :
       Present(n) /\ ~Present(n)' =>
         \/ IsExpired(table[n])
         \/ call'.op = "remove_entry" /\ call'.nid = n]_vars

(***************************************************************************)
(* What get_route hands out is the route of an entry that is active and    *)
(* not too old at that moment, also when the throttle kept the cleanup     *)
(* from removing it (protocol.py:68-81).                                   *)
(***************************************************************************)
NoStaleRouteReturned ==
  call.op = "get_route" /\ call.result # Absent =>
    Usable(call.nid) /\ table[call.nid].route = call.result

(***************************************************************************)
(* Once get_route soft-deleted an entry, or mark_recovery invalidated it,  *)
(* only a packet that add_entry accepts makes it usable again: traffic     *)
(* that merely refreshes the entry does not (protocol.py:43-50, 62-66).    *)
(***************************************************************************)
InactiveNeedsLearning ==
  [][\A n \in Nids :
       Present(n) /\ ~table[n].is_active /\ Present(n)' /\ table'[n].is_active =>
         /\ call'.op = "add_entry" /\ call'.nid = n
         /\ table'[n].hops <= table[n].hops \/ table'[n].route = table[n].route
         /\ Usable(n)']_vars
=============================================================================
