--------------------------------- MODULE Panel ---------------------------------
(***************************************************************************)
(* The operator's panel of a node: the window (UpdateQueue) in the Tk      *)
(* thread, the diagnostics (Diagnostics) on the event loop, and the scan   *)
(* button that goes from the one to the other and back: click, task on the *)
(* loop, scan, log line, display (_gui_scan and _log of node.py).          *)
(*                                                                         *)
(* As committed the click raises, for the Tk thread has no event loop:     *)
(* ScanWired says whether it reaches the one of the node.                  *)
(***************************************************************************)
EXTENDS UpdateQueue, Diagnostics, FiniteSets

CONSTANTS
  ScanWired,  \* the click reaches the event loop
  MaxClicks   \* bound on the clicks on the scan button

ASSUME PanelAssumption ==
  /\ ScanWired \in BOOLEAN /\ MaxClicks \in Nat /\ MaxRefreshers \in Nat
  /\ Between \notin Update

VARIABLES
  clicks,  \* on the scan button so far
  scans    \* tasks of do_scan the loop has not run

vars == <<guiVars, diagVars, clicks, scans>>

TypeOK == GuiTypeOK /\ DiagTypeOK /\ clicks \in 0 .. MaxClicks /\ scans \in Nat

Init == GuiInit /\ DiagInit /\ clicks = 0 /\ scans = 0
-----------------------------------------------------------------------------
ClickScan ==
  /\ TkIdle
  /\ clicks < MaxClicks /\ clicks' = clicks + 1
  /\ scans' = IF ScanWired THEN scans + 1 ELSE scans
  /\ UNCHANGED <<guiVars, diagVars>>

DoScan_LogsSuccess ==
  /\ scans > 0 /\ scans' = scans - 1
  /\ \/ Record("scan") /\ QueueUpdate("plain", "scan")
     \/ UNCHANGED <<results_history, recorded, guiVars>>
  /\ UNCHANGED <<is_running, monitor, lasting, clicks>>

\* do_scan: the scan does not suspend, and a failure is logged like a success.
DoScan ==
  /\ scans > 0 /\ scans' = scans - 1
  /\ RunInstant("scan")
  /\ QueueUpdate("plain", "scan")
  /\ UNCHANGED clicks

\* The rest of the node logs, draws and shows errors: an update of any kind
\* at any time, of which those of _gui_update_loop are some.
Post(kind) ==
  /\ Len(posted) < MaxPosts
  /\ QueueUpdate(kind, "loop")

Gui ==
  \/ \E kind \in Kinds : Post(kind)
  \/ CallProcessUpdates \/ TakeUpdate \/ UpdateEnds \/ DismissDialog \/ Reschedule
  \/ ToggleAutoRefresh \/ CallAutoRefresh
  \/ Close

Diag ==
  \/ \E c \in Instant : RunInstant(c)
  \/ \E c \in Lasting : StartLasting(c) \/ EndLasting(c)
  \/ ClearHistory
  \/ \E m \in Monitors : \/ SpawnMonitor(m) \/ StartMonitor(m) \/ WakeMonitor(m)
                         \/ CancelMonitor(m)
  \/ StopMonitor

Next ==
  \/ ClickScan \/ DoScan
  \/ Gui /\ UNCHANGED <<diagVars, clicks, scans>>
  \/ Diag /\ UNCHANGED <<guiVars, clicks, scans>>

(***************************************************************************)
(* The loop runs its tasks and timers, and the Tk thread its own.  Timers  *)
(* of Tk fire in the order in which they are due: strong fairness, for     *)
(* one that is due may have to wait for a round of updates.  The user need *)
(* not dismiss dialogs.                                                    *)
(***************************************************************************)
Fairness ==
  /\ WF_vars(DoScan)
  /\ WF_guiVars(CallProcessUpdates) /\ WF_guiVars(TakeUpdate)
  /\ WF_guiVars(UpdateEnds) /\ WF_guiVars(Reschedule)
  /\ SF_guiVars(CallAutoRefresh)
  /\ \A m \in Monitors : WF_diagVars(StartMonitor(m)) /\ WF_diagVars(WakeMonitor(m))

Spec == Init /\ [][Next]_vars /\ Fairness
-----------------------------------------------------------------------------
\* The lines in the log that answer clicks, in whatever order they were posted.
ScanLines(updates) == {i \in DOMAIN updates : updates[i].source = "scan"}

(***************************************************************************)
(* No click is lost between the threads and none is answered twice: each   *)
(* is a task the loop has not run or one line handed to the window,        *)
(* whether its scan succeeded or not and whatever else posts and scans     *)
(* meanwhile (node.py:566-571, network_control.py:55-79).                  *)
(***************************************************************************)
ClicksAccounted == ScanWired => clicks = scans + Cardinality(ScanLines(posted))

Reports == Len(SelectSeq(done, LAMBDA u : u.source = "scan"))

(***************************************************************************)
(* Each click on the scan button that reaches the loop is answered by a    *)
(* line in the log, whatever updates raise before it, if the window stays  *)
(* open and no dialog does (node.py:566-571, gui.py:218-227).              *)
(***************************************************************************)
ScanReported ==
  []open /\ []<>(~InDialog) /\ ScanWired =>
    \A k \in 1 .. MaxClicks : clicks >= k ~> Reports >= k
=============================================================================
