------------------------------ MODULE PanelProofs ------------------------------
(***************************************************************************)
(* Proofs about Panel, for any number of updates, commands, monitors and   *)
(* clicks and any limit of the history.                                    *)
(***************************************************************************)
EXTENDS Panel, FiniteSetTheorems, TLAPS

\* There is one chain of calls of _process_updates: it waits for its timer or
\* it runs, and no activation is inside another.
OneChain ==
  \/ frames = <<>> /\ timers = 1
  \/ \E f \in Update \cup {Between} : frames = <<f>> /\ timers = 0

GuiInv == GuiTypeOK /\ OneChain /\ UpdatesInOrder

\* The history without what get_history makes of it.
HistoryIsLast == results_history = LastOf(recorded, Limit)

DiagInv == DiagTypeOK /\ HistoryIsLast
-----------------------------------------------------------------------------
(***************************************************************************)
(* Sequences.                                                              *)
(***************************************************************************)
LEMMA CatAppend ==
  ASSUME NEW S, NEW s \in Seq(S), NEW t \in Seq(S), NEW e \in S
  PROVE  Append(s \o t, e) = s \o Append(t, e)
OBVIOUS

LEMMA CatShift ==
  ASSUME NEW S, NEW s \in Seq(S), NEW t \in Seq(S), NEW e \in S
  PROVE  s \o <<e>> \o t = Append(s, e) \o <<>> \o t
OBVIOUS

LEMMA CatEmpty ==
  ASSUME NEW S, NEW s \in Seq(S), NEW t \in Seq(S)
  PROVE  s \o <<>> \o t = s \o t
OBVIOUS

LEMMA CatHead ==
  ASSUME NEW S, NEW s \in Seq(S), NEW t \in Seq(S), t # <<>>
  PROVE  s \o <<>> \o t = s \o <<Head(t)>> \o Tail(t)
OBVIOUS

\* The length of LastOf(s, k), and the place in s before its first element.
Kept(s, k) == IF Len(s) > k THEN k ELSE Len(s)

LEMMA LastOfType ==
  ASSUME NEW S, NEW s \in Seq(S), NEW k \in Nat \ {0}
  PROVE  /\ LastOf(s, k) \in Seq(S)
         /\ Len(LastOf(s, k)) = Kept(s, k)
         /\ \A i \in 1 .. Kept(s, k) :
              LastOf(s, k)[i] = s[Len(s) - Kept(s, k) + i]
<1>1. Len(s) \in Nat
  OBVIOUS
<1>2. CASE Len(s) > k
  <2>1. LastOf(s, k) = SubSeq(s, Len(s) - k + 1, Len(s)) /\ Kept(s, k) = k
    BY <1>2 DEF LastOf, Kept
  <2>2. Len(s) - k + 1 \in 1 .. Len(s)
    BY <1>1, <1>2
  <2>3. /\ SubSeq(s, Len(s) - k + 1, Len(s)) \in Seq(S)
        /\ Len(SubSeq(s, Len(s) - k + 1, Len(s))) = k
        /\ \A i \in 1 .. k :
             SubSeq(s, Len(s) - k + 1, Len(s))[i] = s[Len(s) - k + i]
    BY <1>1, <2>2
  <2> QED BY <2>1, <2>3
<1>3. CASE ~(Len(s) > k)
  <2>1. LastOf(s, k) = SubSeq(s, 1, Len(s)) /\ Kept(s, k) = Len(s)
    BY <1>3 DEF LastOf, Kept
  <2>2. SubSeq(s, 1, Len(s)) = s
    OBVIOUS
  <2>3. \A i \in 1 .. Len(s) : Len(s) - Len(s) + i = i
    BY <1>1
  <2> QED BY <2>1, <2>2, <2>3
<1> QED BY <1>2, <1>3

LEMMA TrimAppend ==
  ASSUME NEW S, NEW s \in Seq(S), NEW e \in S
  PROVE  Trim(Append(LastOf(s, Limit), e)) = LastOf(Append(s, e), Limit)
<1> DEFINE h == LastOf(s, Limit)
           t == Append(s, e)
           g == LastOf(t, Limit)
           n == Len(s)
           l == Limit
<1>1. /\ t \in Seq(S) /\ Len(t) = n + 1 /\ n \in Nat /\ l \in Nat \ {0}
      /\ \A i \in 1 .. n : t[i] = s[i]
      /\ t[n + 1] = e
  BY DiagnosticsAssumption
<1>2. /\ h \in Seq(S) /\ Len(h) = Kept(s, l)
      /\ \A i \in 1 .. Kept(s, l) : h[i] = s[n - Kept(s, l) + i]
  BY LastOfType, DiagnosticsAssumption
<1> HIDE DEF t
<1>3. /\ g \in Seq(S) /\ Len(g) = Kept(t, l)
      /\ \A i \in 1 .. Kept(t, l) : g[i] = t[Len(t) - Kept(t, l) + i]
  BY <1>1, LastOfType, DiagnosticsAssumption
<1>4. /\ Kept(s, l) = IF n > l THEN l ELSE n
      /\ Kept(t, l) = IF n + 1 > l THEN l ELSE n + 1
  BY <1>1 DEF Kept
<1> HIDE DEF h, g, n, l
<1>5. CASE n >= l
  <2>1. Kept(s, l) = l /\ Kept(t, l) = l
    BY <1>1, <1>4, <1>5
  <2>2. /\ Append(h, e) \in Seq(S) /\ Len(Append(h, e)) = l + 1
        /\ \A i \in 1 .. l : Append(h, e)[i] = h[i]
        /\ Append(h, e)[l + 1] = e
    BY <1>1, <1>2, <2>1
  <2> DEFINE a == Append(h, e)
  <2> HIDE DEF a
  <2>3. /\ Tail(a) \in Seq(S) /\ Len(Tail(a)) = l
        /\ \A i \in 1 .. l : Tail(a)[i] = a[i + 1]
    <3>1. a \in Seq(S) /\ Len(a) = l + 1
      BY <2>2 DEF a
    <3> QED BY <1>1, <3>1
  <2>4. ASSUME NEW i \in 1 .. l PROVE a[i + 1] = g[i]
    <3>1. g[i] = t[n + 1 - l + i]
      <4>1. i \in 1 .. Kept(t, l) /\ Len(t) - Kept(t, l) + i = n + 1 - l + i
        BY <1>1, <2>1
      <4>2. g[i] = t[Len(t) - Kept(t, l) + i]
        BY <1>3, <4>1
      <4> QED BY <4>1, <4>2
    <3>2. CASE i = l
      <4>1. n + 1 - l + i = n + 1
        BY <1>1, <3>2
      <4> QED BY <1>1, <2>2, <3>1, <3>2, <4>1 DEF a
    <3>3. CASE i # l
      <4>1. /\ i + 1 \in 1 .. l /\ n + 1 - l + i \in 1 .. n
            /\ n - l + (i + 1) = n + 1 - l + i
        BY <1>1, <1>5, <3>3
      <4>2. a[i + 1] = h[i + 1]
        BY <2>2, <4>1 DEF a
      <4>3. h[i + 1] = s[n + 1 - l + i]
        BY <1>2, <2>1, <4>1
      <4>4. g[i] = s[n + 1 - l + i]
        BY <1>1, <3>1, <4>1
      <4> QED BY <4>2, <4>3, <4>4
    <3> QED BY <3>2, <3>3
  <2>5. Tail(a) = g
    <3>1. Len(g) = l
      BY <1>3, <2>1
    <3> QED BY <1>3, <2>3, <2>4, <3>1
  <2>6. Len(a) > l
    BY <1>1, <2>2 DEF a
  <2> QED BY <2>5, <2>6 DEF Trim, a, h, g, t, l
<1>6. CASE n < l
  <2>1. Kept(s, l) = n /\ Kept(t, l) = n + 1
    BY <1>1, <1>4, <1>6
  <2>2. h = s
    <3>1. \A i \in 1 .. n : n - n + i = i
      BY <1>1
    <3> QED BY <1>1, <1>2, <2>1, <3>1 DEF n
  <2>3. g = t
    <3>1. \A i \in 1 .. n + 1 : n + 1 - (n + 1) + i = i
      BY <1>1
    <3> QED BY <1>1, <1>3, <2>1, <3>1
  <2>4. ~(Len(t) > l)
    BY <1>1, <1>6
  <2>5. Trim(t) = t
    BY <2>4 DEF Trim, l
  <2> QED BY <2>2, <2>3, <2>5 DEF h, g, t
<1> QED BY <1>1, <1>5, <1>6

LEMMA LastOfLast ==
  ASSUME NEW S, NEW s \in Seq(S), NEW k \in 1 .. Limit
  PROVE  LastOf(LastOf(s, Limit), k) = LastOf(s, k)
<1> DEFINE h == LastOf(s, Limit)
           a == LastOf(h, k)
           b == LastOf(s, k)
           n == Len(s)
           l == Limit
<1>1. n \in Nat /\ l \in Nat \ {0} /\ k \in Nat \ {0} /\ k <= l
  BY DiagnosticsAssumption
<1>2. /\ h \in Seq(S) /\ Len(h) = Kept(s, l)
      /\ \A i \in 1 .. Kept(s, l) : h[i] = s[n - Kept(s, l) + i]
  BY <1>1, LastOfType
<1>3. /\ b \in Seq(S) /\ Len(b) = Kept(s, k)
      /\ \A i \in 1 .. Kept(s, k) : b[i] = s[n - Kept(s, k) + i]
  BY <1>1, LastOfType
<1> HIDE DEF h
<1>4. /\ a \in Seq(S) /\ Len(a) = Kept(h, k)
      /\ \A i \in 1 .. Kept(h, k) : a[i] = h[Len(h) - Kept(h, k) + i]
  BY <1>1, <1>2, LastOfType
<1>5. /\ Kept(s, l) = IF n > l THEN l ELSE n
      /\ Kept(s, k) = IF n > k THEN k ELSE n
      /\ Kept(h, k) = IF Kept(s, l) > k THEN k ELSE Kept(s, l)
  BY <1>2 DEF Kept
<1> HIDE DEF a, b, n, l
<1> DEFINE p == Kept(s, l)
           q == Kept(s, k)
<1>6. Kept(h, k) = q /\ p \in Nat /\ q \in Nat /\ q <= p /\ p <= n
  BY <1>1, <1>5
<1> HIDE DEF p, q
<1>7. ASSUME NEW i \in 1 .. q PROVE a[i] = b[i]
  <2>1. p - q + i \in 1 .. p /\ n - p + (p - q + i) = n - q + i
    BY <1>1, <1>6
  <2>2. a[i] = h[p - q + i]
    BY <1>2, <1>4, <1>6 DEF p
  <2>3. h[p - q + i] = s[n - p + (p - q + i)]
    BY <1>2, <2>1 DEF p
  <2>4. b[i] = s[n - q + i]
    BY <1>3 DEF q
  <2> QED BY <2>1, <2>2, <2>3, <2>4
<1>8. a = b
  BY <1>3, <1>4, <1>6, <1>7 DEF q
<1> QED BY <1>8 DEF a, b, h
-----------------------------------------------------------------------------
(***************************************************************************)
(* The window.                                                             *)
(***************************************************************************)
LEMMA GuiInitially == GuiInit /\ MaxRefreshers \in Nat => GuiInv
<1> SUFFICES ASSUME GuiInit, MaxRefreshers \in Nat PROVE GuiInv
  OBVIOUS
<1>1. GuiTypeOK /\ OneChain /\ Running = <<>>
  <2>1. <<>> \in Seq(Update) /\ <<>> \in Seq(Update \cup {Between})
    OBVIOUS
  <2>2. timers \in Nat /\ refreshers \in 0 .. MaxRefreshers
    BY DEF GuiInit
  <2>3. open \in BOOLEAN /\ auto_refresh \in BOOLEAN
    BY DEF GuiInit
  <2>4. GuiTypeOK
    BY <2>1, <2>2, <2>3 DEF GuiInit, GuiTypeOK
  <2> QED BY <2>4 DEF GuiInit, OneChain, Running
<1>2. <<>> \o <<>> \o <<>> = <<>>
  OBVIOUS
<1> QED BY <1>1, <1>2 DEF GuiInit, GuiInv, UpdatesInOrder

LEMMA QueueUpdateKeeps ==
  ASSUME GuiInv, NEW kind \in Kinds, NEW source \in {"loop", "scan"},
         QueueUpdate(kind, source)
  PROVE  GuiInv'
<1> DEFINE u == [id |-> Len(posted) + 1, kind |-> kind, source |-> source]
<1>1. /\ update_queue' = Append(update_queue, u)
      /\ posted' = Append(posted, u)
      /\ UNCHANGED <<frames, timers, done, open, auto_refresh, refreshers>>
  BY DEF QueueUpdate, refreshVars
<1>2. u \in Update
  BY DEF GuiInv, GuiTypeOK, Update
<1> HIDE DEF u
<1>3. GuiTypeOK'
  BY <1>1, <1>2 DEF GuiInv, GuiTypeOK
<1>4. OneChain'
  BY <1>1 DEF GuiInv, OneChain
<1>5. UpdatesInOrder'
  <2> DEFINE s == done \o Running
  <2>1. s \in Seq(Update) /\ update_queue \in Seq(Update)
    <3>1. Running \in Seq(Update)
      BY DEF GuiInv, GuiTypeOK, OneChain, Running
    <3> QED BY <3>1 DEF GuiInv, GuiTypeOK
  <2>2. posted = s \o update_queue
    BY DEF GuiInv, UpdatesInOrder
  <2>3. s' = s
    BY <1>1 DEF Running
  <2>4. UpdatesInOrder' <=> posted' = s' \o update_queue'
    BY DEF UpdatesInOrder
  <2> HIDE DEF s
  <2>5. Append(s \o update_queue, u) = s \o Append(update_queue, u)
    BY <1>2, <2>1, CatAppend
  <2> QED BY <1>1, <2>2, <2>3, <2>4, <2>5
<1> QED BY <1>3, <1>4, <1>5 DEF GuiInv

LEMMA CallKeeps ==
  ASSUME GuiInv, CallProcessUpdates
  PROVE  GuiInv'
<1>1. /\ timers > 0 /\ timers' = timers - 1 /\ frames' = <<Between>> \o frames
      /\ UNCHANGED <<update_queue, posted, done, open, auto_refresh, refreshers>>
  BY DEF CallProcessUpdates, refreshVars
<1>2. frames = <<>> /\ timers = 1
  BY <1>1 DEF GuiInv, OneChain
<1>3. frames' = <<Between>> /\ timers' = 0
  BY <1>1, <1>2
<1>4. Running = <<>> /\ Running' = <<>>
  BY <1>2, <1>3 DEF Running
<1>5. GuiTypeOK' /\ OneChain'
  <2>1. <<Between>> \in Seq(Update \cup {Between})
    OBVIOUS
  <2>2. GuiTypeOK'
    BY <1>1, <1>3, <2>1 DEF GuiInv, GuiTypeOK
  <2> QED BY <1>3, <2>2 DEF OneChain
<1>6. UpdatesInOrder'
  BY <1>1, <1>4 DEF GuiInv, UpdatesInOrder
<1> QED BY <1>5, <1>6 DEF GuiInv

LEMMA TakeKeeps ==
  ASSUME GuiInv, TakeUpdate
  PROVE  GuiInv'
<1>1. /\ frames # <<>> /\ Head(frames) = Between /\ update_queue # <<>>
      /\ frames' = <<Head(update_queue)>> \o Tail(frames)
      /\ update_queue' = Tail(update_queue)
      /\ UNCHANGED <<timers, posted, done, open, auto_refresh, refreshers>>
  BY DEF TakeUpdate, refreshVars
<1>2. frames = <<Between>> /\ timers = 0
  BY <1>1 DEF GuiInv, OneChain
<1>3. Head(update_queue) \in Update /\ Tail(update_queue) \in Seq(Update)
  BY <1>1 DEF GuiInv, GuiTypeOK
<1>4. frames' = <<Head(update_queue)>>
  BY <1>1, <1>2
<1>5. GuiTypeOK' /\ OneChain'
  BY <1>1, <1>2, <1>3, <1>4 DEF GuiInv, GuiTypeOK, OneChain
<1>6. posted = done \o <<Head(update_queue)>> \o Tail(update_queue)
  <2>1. posted = done \o <<>> \o update_queue
    BY <1>1, <1>2 DEF GuiInv, UpdatesInOrder, Running
  <2> QED BY <1>1, <2>1, CatHead DEF GuiInv, GuiTypeOK
<1>7. Running' = <<Head(update_queue)>> \/ Head(update_queue) = Between
  BY <1>4 DEF Running
<1>8. UpdatesInOrder'
  BY <1>1, <1>3, <1>6, <1>7, PanelAssumption DEF UpdatesInOrder
<1> QED BY <1>5, <1>8 DEF GuiInv

LEMMA EndsKeeps ==
  ASSUME GuiInv, Ends, frames # <<>>, Head(frames) # Between
  PROVE  GuiInv'
<1>1. /\ frames' = <<Between>> \o Tail(frames) /\ done' = Append(done, Head(frames))
      /\ UNCHANGED <<update_queue, timers, posted, open, auto_refresh, refreshers>>
  BY DEF Ends, refreshVars
<1>2. PICK f \in Update : frames = <<f>> /\ timers = 0
  BY DEF GuiInv, OneChain
<1>3. frames' = <<Between>> /\ done' = Append(done, f)
  BY <1>1, <1>2
<1>4. GuiTypeOK' /\ OneChain'
  BY <1>1, <1>2, <1>3 DEF GuiInv, GuiTypeOK, OneChain
<1>5. Running = <<f>> /\ Running' = <<>>
  BY <1>2, <1>3 DEF Running
<1>6. UpdatesInOrder'
  <2>1. done \o <<f>> \o update_queue = Append(done, f) \o <<>> \o update_queue
    BY <1>2, CatShift DEF GuiInv, GuiTypeOK
  <2> QED BY <1>1, <1>3, <1>5, <2>1 DEF GuiInv, UpdatesInOrder
<1> QED BY <1>4, <1>6 DEF GuiInv

LEMMA RescheduleKeeps ==
  ASSUME GuiInv, Reschedule
  PROVE  GuiInv'
<1>1. /\ frames # <<>> /\ Head(frames) = Between
      /\ frames' = Tail(frames) /\ timers' = timers + 1
      /\ UNCHANGED <<update_queue, posted, done, open, auto_refresh, refreshers>>
  BY DEF Reschedule, refreshVars
<1>2. frames = <<Between>> /\ timers = 0
  BY <1>1 DEF GuiInv, OneChain
<1>3. frames' = <<>> /\ timers' = 1
  BY <1>1, <1>2
<1>4. Running = <<>> /\ Running' = <<>>
  BY <1>2, <1>3 DEF Running
<1>5. GuiTypeOK' /\ OneChain'
  BY <1>1, <1>3 DEF GuiInv, GuiTypeOK, OneChain
<1>6. UpdatesInOrder'
  BY <1>1, <1>4 DEF GuiInv, UpdatesInOrder
<1> QED BY <1>5, <1>6 DEF GuiInv

LEMMA GuiKeeps ==
  ASSUME GuiInv, Gui, MaxRefreshers \in Nat
  PROVE  GuiInv'
<1>1. CASE \E kind \in Kinds : Post(kind)
  BY <1>1, QueueUpdateKeeps DEF Post
<1>2. CASE CallProcessUpdates
  BY <1>2, CallKeeps
<1>3. CASE TakeUpdate
  BY <1>3, TakeKeeps
<1>4. CASE UpdateEnds \/ DismissDialog
  BY <1>4, EndsKeeps DEF UpdateEnds, DismissDialog, InDialog
<1>5. CASE Reschedule
  BY <1>5, RescheduleKeeps
<1>6. CASE ToggleAutoRefresh \/ CallAutoRefresh \/ Close
  <2>1. UNCHANGED queueVars
    BY <1>6 DEF ToggleAutoRefresh, CallAutoRefresh, Close
  <2>2. open' \in BOOLEAN
    BY <1>6 DEF ToggleAutoRefresh, CallAutoRefresh, Close, GuiInv, GuiTypeOK
  <2>3. auto_refresh' = ~auto_refresh \/ auto_refresh' = auto_refresh
    BY <1>6 DEF ToggleAutoRefresh, CallAutoRefresh, Close, refreshVars
  <2>4. auto_refresh' \in BOOLEAN
    BY <2>3 DEF GuiInv, GuiTypeOK
  <2>5. refreshers' \in 0 .. MaxRefreshers
    <3>1. CASE ToggleAutoRefresh
      BY <3>1 DEF ToggleAutoRefresh, GuiInv, GuiTypeOK
    <3>2. CASE CallAutoRefresh
      BY <3>2 DEF CallAutoRefresh, GuiInv, GuiTypeOK
    <3>3. CASE Close
      BY <3>3 DEF Close, refreshVars, GuiInv, GuiTypeOK
    <3> QED BY <1>6, <3>1, <3>2, <3>3
  <2> QED BY <2>1, <2>2, <2>4, <2>5 DEF queueVars, GuiInv, GuiTypeOK, OneChain, UpdatesInOrder, Running
<1> QED BY <1>1, <1>2, <1>3, <1>4, <1>5, <1>6 DEF Gui
-----------------------------------------------------------------------------
(***************************************************************************)
(* The diagnostics.                                                        *)
(***************************************************************************)
LEMMA DiagInitially == DiagInit => DiagInv
<1>1. LastOf(<<>>, Limit) = <<>>
  BY DiagnosticsAssumption DEF LastOf
<1>2. DiagInit => DiagTypeOK
  <2> SUFFICES ASSUME DiagInit PROVE DiagTypeOK
    OBVIOUS
  <2>1. <<>> \in Seq(Commands)
    OBVIOUS
  <2>3. is_running \in BOOLEAN
    BY DEF DiagInit
  <2>2. monitor \in [Monitors -> {"none", "spawned", "asleep"}]
    BY DEF DiagInit
  <2> QED BY <2>1, <2>2, <2>3 DEF DiagInit, DiagTypeOK
<1> QED BY <1>1, <1>2 DEF DiagInit, DiagInv, HistoryIsLast

\* What an attempt leaves of history and successes is right.
HistoryOK ==
  /\ results_history \in Seq(Commands) /\ recorded \in Seq(Commands)
  /\ HistoryIsLast

LEMMA AttemptKeeps ==
  ASSUME HistoryOK, NEW c \in Commands, Attempt(c)
  PROVE  HistoryOK'
<1>1. CASE Record(c)
  <2>1. /\ results_history' = Trim(Append(LastOf(recorded, Limit), c))
        /\ recorded' = Append(recorded, c)
    BY <1>1 DEF Record, HistoryOK, HistoryIsLast
  <2>2. recorded' \in Seq(Commands)
    BY <2>1 DEF HistoryOK
  <2>3. results_history' = LastOf(recorded', Limit)
    BY <2>1, TrimAppend DEF HistoryOK
  <2>4. results_history' \in Seq(Commands)
    BY <2>2, <2>3, LastOfType, DiagnosticsAssumption
  <2> QED BY <2>2, <2>3, <2>4 DEF HistoryOK, HistoryIsLast
<1>2. CASE UNCHANGED <<results_history, recorded>>
  BY <1>2 DEF HistoryOK, HistoryIsLast, LastOf
<1> QED BY <1>1, <1>2 DEF Attempt

LEMMA DiagInvIs ==
  DiagInv <=> /\ HistoryOK
              /\ is_running \in BOOLEAN
              /\ monitor \in [Monitors -> {"none", "spawned", "asleep"}]
              /\ lasting \subseteq Lasting
BY DEF DiagInv, DiagTypeOK, HistoryOK

LEMMA RunInstantKeeps ==
  ASSUME DiagInv, NEW c \in Instant, RunInstant(c)
  PROVE  DiagInv'
<1>1. HistoryOK'
  BY AttemptKeeps, DiagInvIs DEF RunInstant, Commands
<1> QED BY <1>1, DiagInvIs DEF RunInstant, DiagInv, DiagTypeOK, HistoryOK

LEMMA DiagKeeps ==
  ASSUME DiagInv, Diag
  PROVE  DiagInv'
<1> USE DEF DiagInv, DiagTypeOK
<1>1. CASE \E c \in Instant : RunInstant(c)
  BY <1>1, RunInstantKeeps
<1>2. CASE \E c \in Lasting : StartLasting(c)
  BY <1>2 DEF StartLasting, HistoryIsLast, LastOf
<1>3. CASE \E c \in Lasting : EndLasting(c)
  <2>1. HistoryOK'
    BY <1>3, AttemptKeeps DEF EndLasting, Commands, HistoryOK
  <2> QED BY <1>3, <2>1 DEF EndLasting, HistoryOK
<1>4. CASE ClearHistory
  <2>1. results_history' = <<>> /\ recorded' = <<>>
        /\ UNCHANGED <<is_running, monitor, lasting>>
    BY <1>4 DEF ClearHistory
  <2>2. LastOf(recorded', Limit) = <<>>
    BY <2>1, DiagnosticsAssumption DEF LastOf
  <2> QED BY <2>1, <2>2 DEF HistoryIsLast
<1>5. ASSUME NEW m \in Monitors, StartMonitor(m) \/ WakeMonitor(m) PROVE DiagInv'
  <2>1. HistoryOK'
    <3>1. Attempt("scan") \/ UNCHANGED <<results_history, recorded>>
      BY <1>5 DEF StartMonitor, WakeMonitor
    <3> QED BY <3>1, AttemptKeeps, DiagnosticsAssumption
            DEF Commands, HistoryOK, Attempt
  <2>2. /\ monitor' \in [Monitors -> {"none", "spawned", "asleep"}]
        /\ is_running' \in BOOLEAN /\ lasting' = lasting
    BY <1>5 DEF StartMonitor, WakeMonitor
  <2> QED BY <2>1, <2>2 DEF HistoryOK
<1>6. ASSUME NEW m \in Monitors, SpawnMonitor(m) \/ CancelMonitor(m) PROVE DiagInv'
  BY <1>6 DEF SpawnMonitor, CancelMonitor, HistoryIsLast, LastOf
<1>7. CASE StopMonitor
  BY <1>7 DEF StopMonitor, HistoryIsLast, LastOf
<1> QED BY <1>1, <1>2, <1>3, <1>4, <1>5, <1>6, <1>7 DEF Diag
-----------------------------------------------------------------------------
(***************************************************************************)
(* The panel.                                                              *)
(***************************************************************************)
IInv == GuiInv /\ DiagInv /\ clicks \in 0 .. MaxClicks /\ scans \in Nat

LEMMA Initially == Init => IInv
BY GuiInitially, DiagInitially, PanelAssumption DEF Init, IInv

LEMMA GuiStays == GuiInv /\ UNCHANGED guiVars => GuiInv'
BY DEF GuiInv, GuiTypeOK, OneChain, UpdatesInOrder, Running, guiVars, queueVars,
       refreshVars

LEMMA DiagStays == DiagInv /\ UNCHANGED diagVars => DiagInv'
BY DEF DiagInv, DiagTypeOK, HistoryIsLast, LastOf, diagVars

LEMMA StepKeeps == IInv /\ [Next]_vars => IInv'
<1> SUFFICES ASSUME IInv, [Next]_vars PROVE IInv'
  OBVIOUS
<1> USE PanelAssumption DEF IInv
<1>1. CASE ClickScan
  BY <1>1, GuiStays, DiagStays DEF ClickScan
<1>2. CASE DoScan
  <2>1. GuiInv'
    BY <1>2, QueueUpdateKeeps DEF DoScan, Kinds
  <2>2. DiagInv'
    BY <1>2, RunInstantKeeps, DiagnosticsAssumption DEF DoScan
  <2> QED BY <1>2, <2>1, <2>2 DEF DoScan
<1>3. CASE Gui /\ UNCHANGED <<diagVars, clicks, scans>>
  BY <1>3, GuiKeeps, DiagStays
<1>4. CASE Diag /\ UNCHANGED <<guiVars, clicks, scans>>
  BY <1>4, DiagKeeps, GuiStays
<1>5. CASE UNCHANGED vars
  BY <1>5, GuiStays, DiagStays DEF vars
<1> QED BY <1>1, <1>2, <1>3, <1>4, <1>5 DEF Next

LEMMA Always == Spec => []IInv
BY Initially, StepKeeps, PTL DEF Spec

\* Window, diagnostics and the tasks between them have the types they should.
THEOREM TypeCorrect == Spec => []TypeOK
<1>1. IInv => TypeOK
  BY DEF IInv, GuiInv, DiagInv, TypeOK
<1> QED BY <1>1, Always, PTL

\* Updates run in the order of posting, each once (gui.py:218-227).
THEOREM UpdatesStayInOrder == Spec => []UpdatesInOrder
BY Always, PTL DEF IInv, GuiInv

\* The history holds the last successes (network_control.py:73-76, 259).
THEOREM HistoryStaysRecent == Spec => []HistoryIsRecent
<1>1. IInv => HistoryIsRecent
  <2> SUFFICES ASSUME IInv PROVE HistoryIsRecent
    OBVIOUS
  <2>1. results_history = LastOf(recorded, Limit) /\ recorded \in Seq(Commands)
    BY DEF IInv, DiagInv, DiagTypeOK, HistoryIsLast
  <2>2. ASSUME NEW k \in 1 .. Limit
        PROVE  GetHistory(k) = LastOf(recorded, k)
    <3>1. GetHistory(k) = LastOf(results_history, k)
      BY DEF GetHistory
    <3> QED BY <2>1, <3>1, LastOfLast
  <2> QED BY <2>1, <2>2 DEF HistoryIsRecent
<1> QED BY <1>1, Always, PTL
-----------------------------------------------------------------------------
(***************************************************************************)
(* Clicks and the lines that answer them.                                  *)
(***************************************************************************)
LEMMA ScanLinesFinite ==
  ASSUME NEW s \in Seq(Update)
  PROVE  IsFiniteSet(ScanLines(s)) /\ Cardinality(ScanLines(s)) \in Nat
<1>1. ScanLines(s) \subseteq 1 .. Len(s) /\ Len(s) \in Nat
  BY DEF ScanLines
<1>2. IsFiniteSet(1 .. Len(s))
  BY <1>1, FS_Interval
<1>3. IsFiniteSet(ScanLines(s))
  BY <1>1, <1>2, FS_Subset
<1> QED BY <1>3, FS_CardinalityType

LEMMA ScanLinesAppend ==
  ASSUME NEW s \in Seq(Update), NEW u \in Update
  PROVE  Cardinality(ScanLines(Append(s, u)))
           = Cardinality(ScanLines(s)) + (IF u.source = "scan" THEN 1 ELSE 0)
<1> DEFINE t == Append(s, u)
           l == Len(s) + 1
<1>1. /\ Len(s) \in Nat /\ DOMAIN s = 1 .. Len(s) /\ DOMAIN t = 1 .. l
      /\ \A i \in 1 .. Len(s) : t[i] = s[i]
      /\ t[l] = u
  OBVIOUS
<1> HIDE DEF t
<1>2. CASE u.source = "scan"
  <2>1. ScanLines(t) = ScanLines(s) \cup {l} /\ l \notin ScanLines(s)
    BY <1>1, <1>2 DEF ScanLines
  <2> QED BY <1>2, <2>1, ScanLinesFinite, FS_AddElement DEF t
<1>3. CASE u.source # "scan"
  <2>1. ScanLines(t) = ScanLines(s)
    BY <1>1, <1>3 DEF ScanLines
  <2> QED BY <1>3, <2>1, ScanLinesFinite DEF t
<1> QED BY <1>2, <1>3

LEMMA QueueUpdateLines ==
  ASSUME GuiInv, NEW kind \in Kinds, NEW source \in {"loop", "scan"},
         QueueUpdate(kind, source)
  PROVE  Cardinality(ScanLines(posted))'
           = Cardinality(ScanLines(posted)) + (IF source = "scan" THEN 1 ELSE 0)
<1> DEFINE u == [id |-> Len(posted) + 1, kind |-> kind, source |-> source]
<1>1. posted' = Append(posted, u) /\ u.source = source
  BY DEF QueueUpdate
<1>2. u \in Update /\ posted \in Seq(Update)
  BY DEF GuiInv, GuiTypeOK, Update
<1> HIDE DEF u
<1> QED BY <1>1, <1>2, ScanLinesAppend DEF ScanLines

LEMMA ClicksInductive == IInv /\ ClicksAccounted /\ [Next]_vars => ClicksAccounted'
<1> SUFFICES ASSUME IInv, ClicksAccounted, [Next]_vars, ScanWired
             PROVE  clicks' = scans' + Cardinality(ScanLines(posted))'
  BY DEF ClicksAccounted
<1>1. /\ clicks = scans + Cardinality(ScanLines(posted))
      /\ GuiInv /\ scans \in Nat /\ clicks \in Nat
      /\ Cardinality(ScanLines(posted)) \in Nat
  BY ScanLinesFinite DEF ClicksAccounted, IInv, GuiInv, GuiTypeOK
<1>2. ASSUME UNCHANGED posted
      PROVE  Cardinality(ScanLines(posted))' = Cardinality(ScanLines(posted))
  BY <1>2 DEF ScanLines
<1>3. CASE ClickScan
  <2>1. clicks' = clicks + 1 /\ scans' = scans + 1 /\ UNCHANGED posted
    BY <1>3 DEF ClickScan, guiVars, queueVars
  <2> QED BY <1>1, <1>2, <2>1
<1>4. CASE DoScan
  <2>1. clicks' = clicks /\ scans' = scans - 1
    BY <1>4 DEF DoScan
  <2>2. Cardinality(ScanLines(posted))' = Cardinality(ScanLines(posted)) + 1
    BY <1>1, <1>4, QueueUpdateLines DEF DoScan, Kinds
  <2> QED BY <1>1, <2>1, <2>2
<1>5. CASE Gui /\ UNCHANGED <<diagVars, clicks, scans>>
  <2>1. ASSUME NEW kind \in Kinds, Post(kind)
        PROVE  Cardinality(ScanLines(posted))' = Cardinality(ScanLines(posted))
    BY <1>1, <2>1, QueueUpdateLines DEF Post
  <2>2. Cardinality(ScanLines(posted))' = Cardinality(ScanLines(posted))
    <3>1. UNCHANGED posted \/ \E kind \in Kinds : Post(kind)
      BY <1>5 DEF Gui, CallProcessUpdates, TakeUpdate, UpdateEnds, DismissDialog, Ends,
                  Reschedule, ToggleAutoRefresh, CallAutoRefresh, Close, queueVars
    <3> QED BY <1>2, <2>1, <3>1
  <2> QED BY <1>1, <1>5, <2>2
<1>6. CASE UNCHANGED <<guiVars, clicks, scans>>
  <2>1. UNCHANGED posted
    BY <1>6 DEF guiVars, queueVars
  <2> QED BY <1>1, <1>2, <1>6, <2>1
<1> QED BY <1>3, <1>4, <1>5, <1>6 DEF Next, vars

(***************************************************************************)
(* Each click is a task that waits or one line handed to the window.       *)
(***************************************************************************)
THEOREM ClicksAreAccounted == Spec => []ClicksAccounted
<1>1. Init => ClicksAccounted
  <2>1. Init => ScanLines(posted) = {}
    BY DEF Init, GuiInit, ScanLines
  <2> QED BY <2>1, FS_EmptySet DEF Init, ClicksAccounted
<1>2. IInv /\ ClicksAccounted /\ [Next]_vars => ClicksAccounted'
  BY ClicksInductive
<1> QED BY <1>1, <1>2, Always, PTL DEF Spec
-----------------------------------------------------------------------------
(***************************************************************************)
(* Liveness.  A monitor that sleeps can be woken whatever the flag says,   *)
(* and once the flag is down to some effect: the weak fairness of          *)
(* WakeMonitor(m), which Spec states, gives this with ENABLED spelt out.   *)
(***************************************************************************)
WakesUp(m) ==
  \/ []<>(is_running \/ monitor[m] # "asleep")
  \/ []<><<WakeMonitor(m)>>_diagVars

Stops(m) == ~is_running ~> (is_running \/ monitor[m] # "asleep")

LEMMA MonitorStops ==
  ASSUME NEW m \in Monitors
  PROVE  Spec /\ WakesUp(m) => Stops(m)
<1>1. IInv /\ <<WakeMonitor(m)>>_diagVars /\ ~(is_running \/ monitor[m] # "asleep")
        => (is_running \/ monitor[m] # "asleep")'
  BY DEF IInv, DiagInv, DiagTypeOK, WakeMonitor
<1> QED BY <1>1, Always, PTL DEF WakesUp, Stops

\* After stop_monitor every monitor ends or is started again, as long as the
\* sleeps of the monitors end (network_control.py:269-287).
THEOREM MonitorsEnd == Spec /\ (\A m \in Monitors : WakesUp(m)) => MonitorsStop
<1>1. ASSUME NEW m \in Monitors PROVE Spec /\ WakesUp(m) => Stops(m)
  BY MonitorStops
<1>2. Spec /\ (\A m \in Monitors : WakesUp(m)) => \A m \in Monitors : Stops(m)
  BY <1>1
<1>3. (\A m \in Monitors : Stops(m)) => MonitorsStop
  BY DEF Stops, MonitorsStop
<1> QED BY <1>2, <1>3
=============================================================================
