----------------------------- MODULE SyncMonitor -----------------------------
(***************************************************************************)
(* The loop of the watchlist sync (trakt/sync.go, run and syncAndLog) and  *)
(* the signals it sends to an external monitor (internal/healthcheck).     *)
(* What a pass does is in TraktSync; here it succeeds, fails or is cut off.*)
(***************************************************************************)
EXTENDS Naturals

CONSTANTS
  AlertAfter,    \* failuresBeforeAlert
  PingAttempts,  \* pingAttempts
  MaxStarts,     \* bound on starts of the process
  MaxLost        \* bound on pings that get no answer

ASSUME MonitorAssumption ==
  /\ AlertAfter \in Nat \ {0} /\ PingAttempts \in Nat \ {0}
  /\ MaxStarts \in Nat /\ MaxLost \in Nat

VARIABLES
  cancelled,  \* the context of the process
  syncer,     \* the goroutine of Syncer.run
  tick,       \* a tick waits in the ticker's channel, which holds one
  monitor,    \* what the monitor was told last
  streak,     \* history: failed passes since the last good one, restarts included
  starts,     \* starts so far
  lost        \* pings without an answer so far

vars == <<cancelled, syncer, tick, monitor, streak, starts, lost>>

Signals == {"up", "down"}
\* Counts from AlertAfter on are all alike: the code only compares with it.
Streak == 0 .. AlertAfter
Count(n) == IF n = AlertAfter THEN n ELSE n + 1

\* fresh: no pass of this process has ended yet.
Stopped == [pc |-> "off", failures |-> 0, signal |-> "up", attempt |-> 0, fresh |-> TRUE]
Syncer == [pc : {"off", "pass", "ping", "delay", "select"}, failures : Streak,
           signal : Signals, attempt : 0 .. PingAttempts, fresh : BOOLEAN]

Init ==
  /\ cancelled = FALSE
  /\ syncer = Stopped /\ tick = FALSE
  /\ monitor = "new" /\ streak = 0 /\ starts = 0 /\ lost = 0

----------------------------------------------------------------------------
(* Start, and the loop of run. *)

\* NewSyncer and Start; the first pass comes at once.
StartSync ==
  /\ syncer.pc = "off" /\ starts < MaxStarts
  /\ starts' = starts + 1
  /\ syncer' = [Stopped EXCEPT !.pc = "pass"]
  /\ tick' = FALSE
  /\ UNCHANGED <<monitor, streak, lost>>

Goto(pc) == syncer' = [syncer EXCEPT !.pc = pc]

\* The ticker: a tick that finds another one waiting is dropped.  A pass whose context
\* is cancelled ends long before the next interval.
Tick ==
  /\ syncer.pc # "off" /\ ~cancelled /\ ~tick
  /\ tick' = TRUE
  /\ UNCHANGED <<cancelled, syncer, monitor, streak, lost, starts>>

\* The select at the end of the loop; with both ready it takes either.
NextPass ==
  /\ syncer.pc = "select" /\ tick
  /\ Goto("pass") /\ tick' = FALSE
  /\ UNCHANGED <<cancelled, monitor, streak, lost, starts>>

StopSync ==
  /\ syncer.pc = "select" /\ cancelled
  /\ syncer' = Stopped /\ tick' = FALSE
  /\ UNCHANGED <<cancelled, monitor, streak, lost, starts>>

----------------------------------------------------------------------------
(* syncAndLog. *)

Signal(signal, failures) ==
  syncer' = [syncer EXCEPT !.pc = "ping", !.failures = failures, !.signal = signal,
                           !.attempt = 1, !.fresh = FALSE]

\* Fault, for mutation: a success does not end the streak.
PassSucceedsKeepingCount ==
  /\ syncer.pc = "pass" /\ ~cancelled
  /\ streak' = 0
  /\ Signal("up", syncer.failures)
  /\ UNCHANGED <<cancelled, tick, monitor, lost, starts>>

PassSucceeds ==
  /\ syncer.pc = "pass" /\ ~cancelled
  /\ streak' = 0
  /\ Signal("up", 0)
  /\ UNCHANGED <<cancelled, tick, monitor, lost, starts>>

\* Fault, for mutation: AlertAfter failures do not suffice.
AlertDueLater(failures) == failures > AlertAfter

AlertDue(failures) == failures >= AlertAfter

\* signalFailure.
PassFails ==
  /\ syncer.pc = "pass" /\ ~cancelled
  /\ streak' = Count(streak)
  /\ LET failures == Count(syncer.failures) IN
     IF AlertDue(failures)
     THEN Signal("down", failures)
     ELSE syncer' = [syncer EXCEPT !.pc = "select", !.failures = failures, !.fresh = FALSE]
  /\ UNCHANGED <<cancelled, tick, monitor, lost, starts>>

\* A shutdown is not a failed run: it neither counts nor resets.
PassCutOff ==
  /\ syncer.pc = "pass" /\ cancelled
  /\ Goto("select")
  /\ UNCHANGED <<cancelled, tick, monitor, streak, lost, starts>>

----------------------------------------------------------------------------
(* Pinger.ping. *)

\* Faults, for mutation: a ping without an answer is not sent again, or always.
RetryAlways ==
  /\ syncer.pc = "ping"
  /\ Goto("delay")

GiveUpAtOnce ==
  /\ syncer.pc = "ping"
  /\ Goto("select")

\* After a failed send: the loop ends if the context did, or with the last attempt.
AfterLoss ==
  /\ syncer.pc = "ping"
  /\ Goto(IF cancelled \/ syncer.attempt = PingAttempts THEN "select" ELSE "delay")

PingDelivered ==
  /\ syncer.pc = "ping" /\ ~cancelled
  /\ monitor' = syncer.signal
  /\ Goto("select")
  /\ UNCHANGED <<cancelled, tick, streak, lost, starts>>

\* The ping gets lost, or its answer does.
PingLost ==
  /\ ~cancelled /\ lost < MaxLost
  /\ lost' = lost + 1
  /\ monitor' \in {monitor, syncer.signal}
  /\ AfterLoss
  /\ UNCHANGED <<cancelled, tick, streak, starts>>

\* A request under a cancelled context fails; it may have arrived before.
PingCutOff ==
  /\ cancelled
  /\ monitor' \in {monitor, syncer.signal}
  /\ AfterLoss
  /\ UNCHANGED <<cancelled, tick, streak, lost, starts>>

Delay ==
  /\ syncer.pc = "delay"
  /\ IF cancelled
     THEN Goto("select")
     ELSE syncer' = [syncer EXCEPT !.pc = "ping", !.attempt = @ + 1]
  /\ UNCHANGED <<cancelled, tick, monitor, streak, lost, starts>>

Step ==
  \/ NextPass \/ StopSync \/ PassCutOff
  \/ PingDelivered \/ PingLost \/ PingCutOff \/ Delay

----------------------------------------------------------------------------
(* The process around the loop. *)

\* A start comes with a context of its own, which a signal may have cancelled already.
Begin == StartSync /\ cancelled' \in BOOLEAN

Cancel ==
  /\ ~cancelled
  /\ cancelled' = TRUE
  /\ UNCHANGED <<syncer, tick, monitor, streak, starts, lost>>

\* The process is killed, or has ended; the count of failures was in memory.
Kill ==
  /\ syncer' = Stopped /\ tick' = FALSE /\ cancelled' = FALSE
  /\ UNCHANGED <<monitor, streak, starts, lost>>

Next == Step \/ PassSucceeds \/ PassFails \/ Tick \/ Begin \/ Cancel \/ Kill

Spec == Init /\ [][Next]_vars

(***************************************************************************)
(* Every request of a pass and every ping has a timeout, the delay ends,   *)
(* and the ticker ticks.  Nothing makes a pass succeed or fail, or a ping  *)
(* arrive but the bound on lost ones.                                      *)
(***************************************************************************)
FairSpec == Spec /\ WF_vars(Step) /\ WF_vars(PassSucceeds \/ PassFails) /\ WF_vars(Tick)

----------------------------------------------------------------------------
(* Properties. *)

TypeOK ==
  /\ cancelled \in BOOLEAN
  /\ syncer \in Syncer
  /\ tick \in BOOLEAN
  /\ monitor \in Signals \cup {"new"}
  /\ streak \in Streak
  /\ starts \in 0 .. MaxStarts /\ lost \in 0 .. MaxLost

\* "failures are counted, not reported - the first four in a row are logged and left to
\* the next run, and only the fifth pings" (README.md:114): the monitor goes down only
\* when that many passes have failed since the last good one, whatever restarts,
\* shutdowns and lost pings lie between.
AlertsOnStreakOnly ==
  [][monitor' = "down" /\ monitor # "down" => streak >= AlertAfter]_vars

\* "pings are retried three times so a blip reaching the monitor cannot raise a false
\* alarm" (README.md:118): until as many pings as an alert has attempts were
\* lost, the monitor shows the outcome of the last pass whenever no signal is on
\* its way.
BlipUnnoticed ==
  ~cancelled /\ lost < PingAttempts /\ syncer.pc \in {"pass", "select"} /\ ~syncer.fresh =>
    /\ syncer.failures = 0 => monitor = "up"
    /\ syncer.failures >= AlertAfter => monitor = "down"

\* A sync that keeps failing is reported, and so is its recovery, even if the first
\* signal was lost with all its repetitions: unless the tide turns or the process stops.
MonitorCatchesUp ==
  /\ streak >= AlertAfter ~> monitor = "down" \/ streak = 0 \/ syncer.pc = "off"
  /\ streak = 0 /\ monitor = "down" ~> monitor = "up" \/ streak > 0 \/ syncer.pc = "off"

=============================================================================
