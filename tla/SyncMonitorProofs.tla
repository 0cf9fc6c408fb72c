--------------------------- MODULE SyncMonitorProofs ---------------------------
(* The monitor is told of a streak of failures only, and of it in time, *)
(* for any threshold and any number of repetitions of a ping.           *)
EXTENDS SyncMonitor, TLAPS

\* A repeated ping has lost one for each time it was sent before.
PingsCounted ==
  /\ syncer.pc = "ping" => syncer.attempt <= lost + 1
  /\ syncer.pc = "delay" => syncer.attempt <= lost /\ syncer.attempt < PingAttempts

\* The signal on its way is the one the count of failures calls for.
SignalDue ==
  syncer.pc \in {"ping", "delay"} =>
    IF syncer.signal = "down" THEN syncer.failures >= AlertAfter ELSE syncer.failures = 0

\* A restart forgets failures and never invents them.
CountBehind == syncer.failures <= streak

MonitorInv == TypeOK /\ PingsCounted /\ SignalDue /\ CountBehind /\ BlipUnnoticed

\* What a step that leaves monitor, streak, starts and lost alone has to keep.
SyncerKept ==
  /\ syncer' \in Syncer
  /\ PingsCounted' /\ SignalDue' /\ CountBehind' /\ BlipUnnoticed'

----------------------------------------------------------------------------
(* Helpers. *)

LEMMA CountType ==
  ASSUME NEW n \in Streak
  PROVE  Count(n) \in Streak /\ Count(n) >= n /\ Count(n) # 0
BY MonitorAssumption DEF Streak, Count, MonitorAssumption

LEMMA CountMonotone ==
  ASSUME NEW m \in Streak, NEW n \in Streak, m <= n
  PROVE  Count(m) <= Count(n)
BY MonitorAssumption DEF Streak, Count, MonitorAssumption

LEMMA StoppedType ==
  /\ Stopped \in Syncer
  /\ Stopped.pc = "off" /\ Stopped.failures = 0 /\ Stopped.fresh
BY MonitorAssumption DEF Stopped, Syncer, Streak, Signals, MonitorAssumption

LEMMA SyncerFields ==
  ASSUME NEW s \in Syncer
  PROVE  /\ s.pc \in {"off", "pass", "ping", "delay", "select"}
         /\ s.failures \in Streak /\ s.failures \in Nat
         /\ s.signal \in Signals /\ s.attempt \in 0 .. PingAttempts /\ s.attempt \in Nat
         /\ s.fresh \in BOOLEAN
BY MonitorAssumption DEF Syncer, Streak, MonitorAssumption

LEMMA GotoSyncer ==
  ASSUME syncer \in Syncer, NEW pc \in {"off", "pass", "ping", "delay", "select"}, Goto(pc)
  PROVE  /\ syncer' \in Syncer /\ syncer'.pc = pc
         /\ syncer'.failures = syncer.failures /\ syncer'.signal = syncer.signal
         /\ syncer'.attempt = syncer.attempt /\ syncer'.fresh = syncer.fresh
BY DEF Goto, Syncer

LEMMA SignalSyncer ==
  ASSUME syncer \in Syncer, NEW signal \in Signals, NEW failures \in Streak,
         Signal(signal, failures)
  PROVE  /\ syncer' \in Syncer /\ syncer'.pc = "ping"
         /\ syncer'.failures = failures /\ syncer'.signal = signal
         /\ syncer'.attempt = 1
<1>1. 1 \in 0 .. PingAttempts
  BY MonitorAssumption DEF MonitorAssumption
<1> QED
  BY <1>1 DEF Signal, Syncer

\* A process that stops, or starts, promises nothing yet.
LEMMA StoppedKept ==
  ASSUME MonitorInv, streak' = streak, lost' = lost,
         NEW pc \in {"off", "pass"}, syncer' = [Stopped EXCEPT !.pc = pc]
  PROVE  SyncerKept
<1>1. syncer' \in Syncer /\ syncer'.pc = pc /\ syncer'.failures = 0 /\ syncer'.fresh
  BY StoppedType DEF Syncer
<1>2. streak \in Nat
  BY MonitorAssumption DEF MonitorInv, TypeOK, Streak, MonitorAssumption
<1> QED
  BY <1>1, <1>2 DEF SyncerKept, PingsCounted, SignalDue, CountBehind, BlipUnnoticed

----------------------------------------------------------------------------

LEMMA MonitorInit == Init => MonitorInv
<1> SUFFICES ASSUME Init PROVE MonitorInv
  OBVIOUS
<1>1. syncer \in Syncer /\ syncer.pc = "off" /\ syncer.failures = 0 /\ syncer.fresh
  BY StoppedType DEF Init
<1>2. 0 \in Streak
  BY MonitorAssumption DEF Streak, MonitorAssumption
<1>3. 0 \in 0 .. MaxStarts /\ 0 \in 0 .. MaxLost
  BY MonitorAssumption DEF MonitorAssumption
<1>4. cancelled \in BOOLEAN /\ tick \in BOOLEAN /\ monitor \in Signals \cup {"new"}
  BY DEF Init
<1>5. TypeOK
  <2>1. streak = 0 /\ starts = 0 /\ lost = 0
    BY DEF Init
  <2> QED
    BY <1>1, <1>2, <1>3, <1>4, <2>1 DEF TypeOK
<1>6. PingsCounted /\ SignalDue /\ CountBehind /\ BlipUnnoticed
  BY <1>1 DEF Init, PingsCounted, SignalDue, CountBehind, BlipUnnoticed
<1> QED
  BY <1>5, <1>6 DEF MonitorInv

LEMMA MonitorStep == MonitorInv /\ [Next]_vars => MonitorInv'
<1> SUFFICES ASSUME MonitorInv, [Next]_vars PROVE MonitorInv'
  OBVIOUS
<1>0. /\ syncer \in Syncer /\ streak \in Streak /\ streak \in Nat /\ lost \in Nat
      /\ AlertAfter \in Nat \ {0} /\ PingAttempts \in Nat \ {0}
      /\ MaxStarts \in Nat /\ MaxLost \in Nat /\ starts \in Nat
  BY MonitorAssumption DEF MonitorInv, TypeOK, Streak, MonitorAssumption
<1>f. /\ syncer.pc \in {"off", "pass", "ping", "delay", "select"}
      /\ syncer.failures \in Streak /\ syncer.failures \in Nat
      /\ syncer.signal \in Signals /\ syncer.attempt \in 0 .. PingAttempts /\ syncer.attempt \in Nat
      /\ syncer.fresh \in BOOLEAN
  BY <1>0, SyncerFields
<1>q. ASSUME SyncerKept, UNCHANGED <<streak, lost>>, cancelled' \in BOOLEAN, tick' \in BOOLEAN,
             monitor' \in Signals \cup {"new"}, starts' \in 0 .. MaxStarts
      PROVE  MonitorInv'
  BY <1>q DEF MonitorInv, TypeOK, SyncerKept
<1> USE DEF MonitorInv, TypeOK
<1>1. CASE NextPass
  <2>1. Goto("pass") /\ syncer.pc = "select" /\ UNCHANGED <<cancelled, monitor, streak, lost, starts>>
    BY <1>1 DEF NextPass
  <2>2. SyncerKept
    BY <1>0, <2>1, GotoSyncer DEF SyncerKept, PingsCounted, SignalDue, CountBehind, BlipUnnoticed
  <2> QED
    BY <1>1, <1>q, <2>2 DEF NextPass
<1>2. CASE StopSync
  <2>1. SyncerKept
    <3>1. syncer' = [Stopped EXCEPT !.pc = "off"]
      BY <1>2 DEF StopSync, Stopped
    <3> QED
      BY <1>2, <3>1, StoppedKept DEF StopSync
  <2> QED
    BY <1>2, <1>q, <2>1 DEF StopSync
<1>3. CASE PassCutOff
  <2>1. Goto("select") /\ cancelled /\ UNCHANGED <<cancelled, tick, monitor, streak, lost, starts>>
    BY <1>3 DEF PassCutOff
  <2>2. SyncerKept
    BY <1>0, <2>1, GotoSyncer DEF SyncerKept, PingsCounted, SignalDue, CountBehind, BlipUnnoticed
  <2> QED
    BY <1>q, <2>1, <2>2
<1>4. CASE PingDelivered
  <2>1. /\ syncer.pc = "ping" /\ monitor' = syncer.signal /\ Goto("select")
        /\ UNCHANGED <<cancelled, tick, streak, lost, starts>>
    BY <1>4 DEF PingDelivered
  <2>2. SyncerKept
    <3>1. /\ syncer' \in Syncer /\ syncer'.pc = "select" /\ syncer'.failures = syncer.failures
      BY <1>0, <2>1, GotoSyncer
    <3>2. BlipUnnoticed'
      BY <1>0, <1>f, <2>1, <3>1 DEF BlipUnnoticed, SignalDue, Signals
    <3> QED
      BY <2>1, <3>1, <3>2 DEF SyncerKept, PingsCounted, SignalDue, CountBehind
  <2> QED
    BY <1>f, <1>q, <2>1, <2>2
<1>5. CASE PingLost
  <2>1. /\ syncer.pc = "ping" /\ ~cancelled /\ lost < MaxLost /\ lost' = lost + 1
        /\ UNCHANGED <<cancelled, tick, streak, starts>>
    BY <1>5 DEF PingLost, AfterLoss
  <2>2. monitor' \in Signals \cup {"new"}
    BY <1>5, <1>f DEF PingLost
  <2> DEFINE pc == IF syncer.attempt = PingAttempts THEN "select" ELSE "delay"
  <2>3. /\ syncer' \in Syncer /\ syncer'.pc = pc
        /\ syncer'.failures = syncer.failures /\ syncer'.signal = syncer.signal
        /\ syncer'.attempt = syncer.attempt
    BY <1>0, <1>5, <2>1, GotoSyncer DEF PingLost, AfterLoss
  <2>4. syncer.attempt <= lost' /\ lost' \in 0 .. MaxLost
    BY <1>0, <1>f, <2>1 DEF PingsCounted
  <2>5. PingsCounted' /\ BlipUnnoticed'
    BY <1>0, <1>f, <2>3, <2>4 DEF PingsCounted, BlipUnnoticed
  <2>6. SignalDue' /\ CountBehind'
    BY <2>1, <2>3 DEF SignalDue, CountBehind
  <2> QED
    BY <2>1, <2>2, <2>3, <2>4, <2>5, <2>6
<1>6. CASE PingCutOff
  <2>1. /\ cancelled /\ Goto("select") /\ UNCHANGED <<cancelled, tick, streak, lost, starts>>
        /\ monitor' \in Signals \cup {"new"}
    BY <1>6, <1>f DEF PingCutOff, AfterLoss
  <2>2. SyncerKept
    BY <1>0, <2>1, GotoSyncer DEF SyncerKept, PingsCounted, SignalDue, CountBehind, BlipUnnoticed
  <2> QED
    BY <1>q, <2>1, <2>2
<1>7. CASE Delay
  <2>1. syncer.pc = "delay" /\ UNCHANGED <<cancelled, tick, monitor, streak, lost, starts>>
    BY <1>7 DEF Delay
  <2>2. CASE cancelled
    <3>1. SyncerKept
      BY <1>0, <1>7, <2>1, <2>2, GotoSyncer
      DEF Delay, SyncerKept, PingsCounted, SignalDue, CountBehind, BlipUnnoticed
    <3> QED
      BY <1>q, <2>1, <3>1
  <2>3. CASE ~cancelled
    <3>1. /\ syncer' = [syncer EXCEPT !.pc = "ping", !.attempt = @ + 1]
          /\ syncer.attempt + 1 \in 0 .. PingAttempts /\ syncer.attempt <= lost
      BY <1>0, <1>f, <1>7, <2>1, <2>3 DEF Delay, PingsCounted
    <3>2. /\ syncer' \in Syncer /\ syncer'.pc = "ping" /\ syncer'.attempt = syncer.attempt + 1
          /\ syncer'.failures = syncer.failures /\ syncer'.signal = syncer.signal
      BY <1>0, <3>1 DEF Syncer
    <3>3. SyncerKept
      BY <1>0, <1>f, <2>1, <3>1, <3>2
      DEF SyncerKept, PingsCounted, SignalDue, CountBehind, BlipUnnoticed
    <3> QED
      BY <1>q, <2>1, <3>3
  <2> QED
    BY <2>2, <2>3
<1>8. CASE PassSucceeds
  <2>1. /\ streak' = 0 /\ Signal("up", 0) /\ UNCHANGED <<cancelled, tick, monitor, lost, starts>>
    BY <1>8 DEF PassSucceeds
  <2>2. 0 \in Streak
    BY <1>0 DEF Streak
  <2>3. /\ syncer' \in Syncer /\ syncer'.pc = "ping" /\ syncer'.failures = 0
        /\ syncer'.signal = "up" /\ syncer'.attempt = 1
    BY <1>0, <2>1, <2>2, SignalSyncer DEF Signals
  <2> QED
    BY <1>0, <2>1, <2>2, <2>3 DEF PingsCounted, SignalDue, CountBehind, BlipUnnoticed
<1>9. CASE PassFails
  <2> DEFINE failures == Count(syncer.failures)
  <2>1. /\ streak' = Count(streak) /\ UNCHANGED <<cancelled, tick, monitor, lost, starts>>
    BY <1>9 DEF PassFails
  <2>2. streak' \in Streak /\ failures \in Streak /\ failures # 0 /\ failures <= streak'
    BY <1>0, <1>f, <2>1, CountType, CountMonotone DEF CountBehind
  <2>3. CASE failures >= AlertAfter
    <3>1. Signal("down", failures)
      BY <1>9, <2>3 DEF PassFails, AlertDue
    <3>2. /\ syncer' \in Syncer /\ syncer'.pc = "ping" /\ syncer'.failures = failures
          /\ syncer'.signal = "down" /\ syncer'.attempt = 1
      BY <1>0, <2>2, <3>1, SignalSyncer DEF Signals
    <3> HIDE DEF failures
    <3> QED
      BY <1>0, <2>1, <2>2, <2>3, <3>2 DEF PingsCounted, SignalDue, CountBehind, BlipUnnoticed
  <2>4. CASE ~(failures >= AlertAfter)
    <3>1. syncer' = [syncer EXCEPT !.pc = "select", !.failures = failures, !.fresh = FALSE]
      BY <1>9, <2>4 DEF PassFails, AlertDue
    <3> HIDE DEF failures
    <3>2. /\ syncer' \in Syncer /\ syncer'.pc = "select" /\ syncer'.failures = failures
      BY <1>0, <2>2, <3>1 DEF Syncer
    <3> QED
      BY <1>0, <2>1, <2>2, <2>4, <3>2 DEF PingsCounted, SignalDue, CountBehind, BlipUnnoticed
  <2> QED
    BY <2>3, <2>4
<1>10. CASE Tick
  <2>1. SyncerKept
    BY <1>0, <1>10 DEF Tick, SyncerKept, PingsCounted, SignalDue, CountBehind, BlipUnnoticed
  <2> QED
    BY <1>q, <1>10, <2>1 DEF Tick
<1>11. CASE Begin
  <2>1. syncer' = [Stopped EXCEPT !.pc = "pass"] /\ UNCHANGED <<monitor, streak, lost>>
    BY <1>11 DEF Begin, StartSync
  <2>2. SyncerKept
    BY <2>1, StoppedKept
  <2>3. starts' \in 0 .. MaxStarts
    BY <1>0, <1>11 DEF Begin, StartSync
  <2>4. tick' \in BOOLEAN /\ cancelled' \in BOOLEAN
    BY <1>11 DEF Begin, StartSync
  <2> QED
    BY <1>q, <2>1, <2>2, <2>3, <2>4
<1>12. CASE Cancel
  <2>1. SyncerKept
    BY <1>0, <1>12 DEF Cancel, SyncerKept, PingsCounted, SignalDue, CountBehind, BlipUnnoticed
  <2> QED
    BY <1>q, <1>12, <2>1 DEF Cancel
<1>13. CASE Kill
  <2>1. syncer' = [Stopped EXCEPT !.pc = "off"]
    BY <1>13 DEF Kill, Stopped
  <2>2. UNCHANGED <<monitor, streak, lost, starts>>
    BY <1>13 DEF Kill
  <2>3. SyncerKept
    BY <2>1, <2>2, StoppedKept
  <2>4. tick' \in BOOLEAN /\ cancelled' \in BOOLEAN
    BY <1>13 DEF Kill
  <2> QED
    BY <1>q, <2>2, <2>3, <2>4
<1>14. CASE UNCHANGED vars
  <2>1. SyncerKept
    BY <1>0, <1>14 DEF vars, SyncerKept, PingsCounted, SignalDue, CountBehind, BlipUnnoticed
  <2> QED
    BY <1>q, <1>14, <2>1 DEF vars
<1> QED
  BY <1>1, <1>2, <1>3, <1>4, <1>5, <1>6, <1>7, <1>8, <1>9, <1>10, <1>11, <1>12, <1>13, <1>14
  DEF Next, Step

LEMMA MonitorInvariant == Spec => []MonitorInv
<1> QED
  BY MonitorInit, MonitorStep, PTL DEF Spec

----------------------------------------------------------------------------
(* Theorems. *)

\* The loop's position, its counts and the monitor keep their types.
THEOREM MonitorTypes == Spec => []TypeOK
<1>1. MonitorInv => TypeOK
  BY DEF MonitorInv
<1> QED
  BY <1>1, MonitorInvariant, PTL

\* Until as many pings as an alert has attempts were lost, the monitor shows the outcome
\* of the last pass whenever no signal is on its way (Pinger.ping).
THEOREM BlipsUnnoticed == Spec => []BlipUnnoticed
<1>1. MonitorInv => BlipUnnoticed
  BY DEF MonitorInv
<1> QED
  BY <1>1, MonitorInvariant, PTL

\* The monitor goes down only when enough passes have failed since the last good one,
\* across restarts (signalFailure).
THEOREM NoFalseAlarm == Spec => AlertsOnStreakOnly
<1>1. MonitorInv /\ [Next]_vars => [monitor' = "down" /\ monitor # "down" => streak >= AlertAfter]_vars
  <2> SUFFICES ASSUME MonitorInv, Next, monitor' = "down", monitor # "down"
               PROVE  streak >= AlertAfter
    OBVIOUS
  <2>1. /\ AlertAfter \in Nat /\ streak \in Nat /\ syncer.failures \in Nat
    BY MonitorAssumption, SyncerFields DEF MonitorInv, TypeOK, Streak, MonitorAssumption
  <2>2. syncer.pc = "ping" /\ syncer.signal = "down"
    BY DEF Next, Step, NextPass, StopSync, PassCutOff, PingDelivered, PingLost, PingCutOff, AfterLoss,
           Delay, PassSucceeds, PassFails, Tick, Begin, StartSync, Cancel, Kill
  <2> QED
    BY <2>1, <2>2 DEF MonitorInv, SignalDue, CountBehind
<1> QED
  BY <1>1, MonitorInvariant, PTL DEF Spec, AlertsOnStreakOnly

=============================================================================
