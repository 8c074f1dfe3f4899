------------------------------ MODULE Diagnostics ------------------------------
(***************************************************************************)
(* NetworkDiagnosticTool of common/network_control.py: commands on one     *)
(* event loop, the history of those that succeeded, and the background     *)
(* monitor.                                                                *)
(*                                                                         *)
(* Scan, traceroute and audit never suspend; ping and the MTU probe sleep  *)
(* between sends and overlap with anything.  What a command finds out is   *)
(* left out: an entry of the history is the name of the command.           *)
(***************************************************************************)
EXTENDS Naturals, Sequences

CONSTANTS
  Instant,    \* commands that run without suspending, "scan" among them
  Lasting,    \* commands that suspend
  Monitors,   \* tasks that run continuous_monitor
  Limit,      \* length of the history, 100 in the code
  MaxRecords  \* bound on the successes since the history was cleared

ASSUME DiagnosticsAssumption == Limit \in Nat \ {0} /\ "scan" \in Instant

VARIABLES
  results_history,
  is_running,
  monitor,   \* what each monitor task is: "none", "spawned" or "asleep"
  lasting,   \* commands under way
  recorded   \* all successes since the history was cleared, in order

diagVars == <<results_history, is_running, monitor, lasting, recorded>>

Commands == Instant \cup Lasting

DiagTypeOK ==
  /\ results_history \in Seq(Commands) /\ recorded \in Seq(Commands)
  /\ is_running \in BOOLEAN
  /\ monitor \in [Monitors -> {"none", "spawned", "asleep"}]
  /\ lasting \subseteq Lasting

DiagInit ==
  /\ results_history = <<>> /\ recorded = <<>>
  /\ is_running = FALSE
  /\ monitor = [m \in Monitors |-> "none"]
  /\ lasting = {}
-----------------------------------------------------------------------------
\* s[-k:] of Python for k > 0: the k last elements, or all.
LastOf(s, k) == SubSeq(s, IF Len(s) > k THEN Len(s) - k + 1 ELSE 1, Len(s))

\* Above the limit one entry goes: pop(0).
Trim_DropsNewest(s) == IF Len(s) > Limit THEN SubSeq(s, 1, Len(s) - 1) ELSE s
Trim(s) == IF Len(s) > Limit THEN Tail(s) ELSE s

Record(c) ==
  /\ Len(recorded) < MaxRecords
  /\ results_history' = Trim(Append(results_history, c))
  /\ recorded' = Append(recorded, c)

\* A command that raises returns a failure and is not recorded.
Attempt(c) == Record(c) \/ UNCHANGED <<results_history, recorded>>

\* run_diagnostic of a command that does not suspend.
RunInstant(c) == Attempt(c) /\ UNCHANGED <<is_running, monitor, lasting>>

\* run_diagnostic of one that does: its own exceptions are all caught, and it
\* succeeds unless its task is cancelled.
StartLasting(c) ==
  /\ c \notin lasting
  /\ lasting' = lasting \cup {c}
  /\ UNCHANGED <<results_history, recorded, is_running, monitor>>

EndLasting(c) ==
  /\ c \in lasting
  /\ lasting' = lasting \ {c}
  /\ Attempt(c)
  /\ UNCHANGED <<is_running, monitor>>

ClearHistory ==
  /\ results_history' = <<>>
  /\ recorded' = <<>>
  /\ UNCHANGED <<is_running, monitor, lasting>>

\* get_history: the slice [-0:] is the whole history.
GetHistory(limit) == IF limit = 0 THEN results_history ELSE LastOf(results_history, limit)
-----------------------------------------------------------------------------
(***************************************************************************)
(* continuous_monitor.  The task exists before its first step sets         *)
(* is_running, so that a stop in between is undone; one flag serves all    *)
(* tasks, so that a stop followed by a start within the interval leaves    *)
(* both monitors.                                                          *)
(***************************************************************************)
SpawnMonitor(m) ==
  /\ monitor[m] = "none"
  /\ monitor' = [monitor EXCEPT ![m] = "spawned"]
  /\ UNCHANGED <<results_history, recorded, is_running, lasting>>

StartMonitor(m) ==
  /\ monitor[m] = "spawned"
  /\ is_running' = TRUE
  /\ Attempt("scan")
  /\ monitor' = [monitor EXCEPT ![m] = "asleep"]
  /\ UNCHANGED lasting

WakeMonitor_Always(m) ==
  /\ monitor[m] = "asleep"
  /\ Attempt("scan")
  /\ UNCHANGED <<is_running, monitor, lasting>>

WakeMonitor(m) ==
  /\ monitor[m] = "asleep"
  /\ \/ /\ is_running /\ Attempt("scan")
        /\ UNCHANGED monitor
     \/ /\ ~is_running
        /\ monitor' = [monitor EXCEPT ![m] = "none"]
        /\ UNCHANGED <<results_history, recorded>>
  /\ UNCHANGED <<is_running, lasting>>

\* task.cancel() by whoever spawned it; is_running stays as it is.
CancelMonitor(m) ==
  /\ monitor[m] # "none"
  /\ monitor' = [monitor EXCEPT ![m] = "none"]
  /\ UNCHANGED <<results_history, recorded, is_running, lasting>>

StopMonitor ==
  /\ is_running' = FALSE
  /\ UNCHANGED <<results_history, recorded, monitor, lasting>>
-----------------------------------------------------------------------------
(***************************************************************************)
(* However commands and monitors overlap and wherever the history was      *)
(* cleared, it holds the last Limit successes in the order in which they   *)
(* ended, and get_history(k) the last k (network_control.py:73-76, 259).   *)
(* Failures are not among them.                                            *)
(***************************************************************************)
HistoryIsRecent ==
  /\ results_history = LastOf(recorded, Limit)
  /\ \A k \in 1 .. Limit : GetHistory(k) = LastOf(recorded, k)

\* After stop_monitor every monitor ends, unless one is started meanwhile
\* (network_control.py:269-287).
MonitorsStop ==
  \A m \in Monitors : ~is_running ~> (is_running \/ monitor[m] # "asleep")
=============================================================================
