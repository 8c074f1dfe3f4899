------------------------------ MODULE UpdateQueue ------------------------------
(***************************************************************************)
(* NetworkGUI of common/gui.py: the queue through which the event loop     *)
(* hands updates to the Tk thread, and the timers of that thread.          *)
(*                                                                         *)
(* Any thread appends to update_queue; append and popleft of a deque are   *)
(* atomic.  _process_updates takes the updates out and runs them, and asks *)
(* to be called again when none is left.  An update may raise, and it may  *)
(* open a dialog (show_error), in which Tk goes on handling events and     *)
(* timers until the user dismisses it.  What an update draws is left out.  *)
(***************************************************************************)
EXTENDS Naturals, Sequences

CONSTANTS
  Between,       \* what _process_updates runs between two updates
  MaxPosts,      \* bound on the updates before the loop posts no more
  MaxRefreshers  \* bound on the loops of auto-refresh side by side

VARIABLES
  update_queue,  \* updates not yet taken
  frames,        \* activations of _process_updates, innermost first, and what
                 \* each is running
  timers,        \* pending calls of _process_updates
  open,          \* mainloop is running
  auto_refresh,
  refreshers,    \* pending calls of _auto_refresh_loop
  posted,        \* all updates handed over, in order
  done           \* all updates that ran, in the order in which they ended

queueVars == <<update_queue, frames, timers, posted, done>>
refreshVars == <<auto_refresh, refreshers>>
guiVars == <<queueVars, open, refreshVars>>

Kinds == {"plain", "raises", "dialog"}
Update == [id : Nat, kind : Kinds, source : {"loop", "scan"}]

GuiTypeOK ==
  /\ update_queue \in Seq(Update) /\ posted \in Seq(Update) /\ done \in Seq(Update)
  /\ frames \in Seq(Update \cup {Between})
  /\ timers \in Nat /\ refreshers \in 0 .. MaxRefreshers
  /\ open \in BOOLEAN /\ auto_refresh \in BOOLEAN

GuiInit ==
  /\ update_queue = <<>> /\ posted = <<>> /\ done = <<>>
  /\ frames = <<>> /\ timers = 1
  /\ open = TRUE
  /\ auto_refresh = FALSE /\ refreshers = 0
-----------------------------------------------------------------------------
\* queue_update, and with it log, update_status, add_message, show_error...
QueueUpdate(kind, source) ==
  LET u == [id |-> Len(posted) + 1, kind |-> kind, source |-> source]
  IN /\ update_queue' = Append(update_queue, u)
     /\ posted' = Append(posted, u)
     /\ UNCHANGED <<frames, timers, done, open, refreshVars>>

InDialog == frames # <<>> /\ Head(frames) # Between /\ Head(frames).kind = "dialog"

\* Tk handles buttons when it runs nothing, and timers in a dialog as well.
TkIdle == open /\ frames = <<>>
TkListens == TkIdle \/ (open /\ InDialog)

(***************************************************************************)
(* _process_updates: it is called by its timer, takes updates and runs     *)
(* them to their end one by one, and sets the timer again.  An exception   *)
(* is printed and the loop goes on.                                        *)
(***************************************************************************)
CallProcessUpdates_TimerFirst ==
  /\ TkListens /\ timers > 0
  /\ frames' = <<Between>> \o frames
  /\ UNCHANGED <<timers, update_queue, posted, done, open, refreshVars>>

CallProcessUpdates ==
  /\ TkListens /\ timers > 0
  /\ timers' = timers - 1
  /\ frames' = <<Between>> \o frames
  /\ UNCHANGED <<update_queue, posted, done, open, refreshVars>>

TakeUpdate ==
  /\ frames # <<>> /\ Head(frames) = Between
  /\ update_queue # <<>>
  /\ frames' = <<Head(update_queue)>> \o Tail(frames)
  /\ update_queue' = Tail(update_queue)
  /\ UNCHANGED <<timers, posted, done, open, refreshVars>>

Ends == /\ frames' = <<Between>> \o Tail(frames)
        /\ done' = Append(done, Head(frames))
        /\ UNCHANGED <<update_queue, timers, posted, open, refreshVars>>

UpdateEnds_RaiseLeaves ==
  /\ frames # <<>> /\ Head(frames) # Between /\ ~InDialog
  /\ \/ Head(frames).kind = "plain" /\ Ends
     \/ /\ Head(frames).kind = "raises"
        /\ frames' = Tail(frames)
        /\ done' = Append(done, Head(frames))
        /\ UNCHANGED <<update_queue, timers, posted, open, refreshVars>>

UpdateEnds ==
  /\ frames # <<>> /\ Head(frames) # Between /\ ~InDialog
  /\ Ends

DismissDialog == InDialog /\ Ends

Reschedule ==
  /\ frames # <<>> /\ Head(frames) = Between
  /\ update_queue = <<>>
  /\ frames' = Tail(frames)
  /\ timers' = timers + 1
  /\ UNCHANGED <<update_queue, posted, done, open, refreshVars>>
-----------------------------------------------------------------------------
(***************************************************************************)
(* _toggle_auto_refresh and _auto_refresh_loop.  The first call of the     *)
(* loop is made by the toggle itself, which leaves one timer; on_command   *)
(* is set before mainloop starts and stays (node.py:113, sink.py:70), so   *)
(* its guard is true, and "refresh_status" is a command that neither node  *)
(* nor sink knows.  Off and on again within a period leaves the timer of   *)
(* the first loop beside that of the second.                               *)
(***************************************************************************)
ToggleAutoRefresh ==
  /\ TkIdle
  /\ auto_refresh' = ~auto_refresh
  /\ refreshers' = IF auto_refresh THEN refreshers ELSE refreshers + 1
  /\ refreshers' <= MaxRefreshers
  /\ UNCHANGED <<queueVars, open>>

CallAutoRefresh_Always ==
  /\ TkListens /\ refreshers > 0
  /\ UNCHANGED <<refreshers, queueVars, open, auto_refresh>>

CallAutoRefresh ==
  /\ TkListens /\ refreshers > 0
  /\ refreshers' = IF auto_refresh THEN refreshers ELSE refreshers - 1
  /\ UNCHANGED <<queueVars, open, auto_refresh>>

\* close, or the user closes the window: nobody takes updates any more.
Close ==
  /\ TkIdle
  /\ open' = FALSE
  /\ UNCHANGED <<queueVars, refreshVars>>
-----------------------------------------------------------------------------
Running == IF frames = <<>> \/ Head(frames) = Between THEN <<>> ELSE <<Head(frames)>>

(***************************************************************************)
(* Updates run in the order in which they were posted, none twice and none *)
(* left out, whichever of them raise and however long a dialog is open     *)
(* (gui.py:218-227): no activation of _process_updates can start inside    *)
(* another, for the timer is set again only at the end.                    *)
(***************************************************************************)
UpdatesInOrder == posted = done \o Running \o update_queue

\* Auto-refresh that is off and stays off has no timer left in the end, even
\* if several loops ran side by side (gui.py:394-402).
RefreshEnds == ~auto_refresh ~> (auto_refresh \/ refreshers = 0 \/ ~open)
=============================================================================
