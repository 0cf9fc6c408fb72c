------------------------------- MODULE Service -------------------------------
(***************************************************************************)
(* The process as a whole (cmd/server/main.go, run): the worker pool with  *)
(* its wake-up channel and poll timer, the HTTP server, the watchlist sync *)
(* (SyncMonitor), and how they start and stop together.                    *)
(*                                                                         *)
(* Requests are only counted here: what a row goes through is in           *)
(* RequestQueue.  A step that ends one wait of a goroutine is one action.  *)
(***************************************************************************)
EXTENDS Naturals, FiniteSets

CONSTANTS
  TraktEnabled,                         \* TRAKT_ENABLED
  AlertAfter, PingAttempts, MaxLost,    \* see SyncMonitor
  Workers,      \* the goroutines of the pool (WORKERS)
  Handlers,     \* HTTP calls that can be between their commit and their Notify at a time
  MaxRequests,  \* bound on requests submitted
  MaxStarts,    \* bound on starts of the process
  MaxFaults     \* bound on what fails: a claim, a start, the listener

ASSUME ServiceAssumption ==
  /\ TraktEnabled \in BOOLEAN
  /\ AlertAfter \in Nat \ {0} /\ PingAttempts \in Nat \ {0} /\ MaxLost \in Nat
  /\ IsFiniteSet(Workers) /\ Workers # {}
  /\ Handlers \cap {"sync"} = {}
  /\ MaxRequests \in Nat /\ MaxStarts \in Nat /\ MaxFaults \in Nat

VARIABLES
  cancelled, syncer, tick, monitor, streak, starts, lost   \* see SyncMonitor

VARIABLES
  phase,    \* where run is; "down" when there is no process
  worker,   \* where each worker's loop is
  wake,     \* the channel Notify sends on, which holds one token
  notify,   \* calls, or the sync, that have queued requests and not notified yet
  queue,    \* how many requests are new, due again, backing off, cut off, or submitted
  abrupt,   \* history: the last process ended without waiting for its goroutines
  faults

Sync == INSTANCE SyncMonitor

syncVars == <<cancelled, syncer, tick, monitor, streak, starts, lost>>
mainVars == <<phase, abrupt>>
poolVars == <<worker, wake>>
vars == <<syncVars, mainVars, poolVars, notify, queue, faults>>

\* new: QUEUED and announced by Notify or by a start; due: its backoff is over; later:
\* its backoff runs; cut: in flight with no worker; total: submitted so far.
Kinds == {"new", "due", "later", "cut", "total"}

Claimable == queue.new + queue.due > 0

Init ==
  /\ Sync!Init
  /\ phase = "down" /\ abrupt = FALSE
  /\ worker = [w \in Workers |-> "off"] /\ wake = FALSE
  /\ notify = {} /\ queue = [kind \in Kinds |-> 0]
  /\ faults = 0

Fail == faults < MaxFaults /\ faults' = faults + 1

----------------------------------------------------------------------------
(* Pool.run. *)

Put(w, pc) == worker' = [worker EXCEPT ![w] = pc]

\* Fault, for mutation: a retry that has come due stays scheduled.
TakeCopy(from, to) == queue[from] > 0 /\ queue' = [queue EXCEPT ![to] = @ + 1]

Take(from, to) == queue' = [queue EXCEPT ![from] = @ - 1, ![to] = @ + 1]
TakeOut(from) == queue[from] > 0 /\ queue' = [queue EXCEPT ![from] = @ - 1]

\* ClaimNext, and the look at the context after it.
Claim(w) ==
  /\ worker[w] = "claim" /\ ~cancelled
  /\ \/ Put(w, "busy") /\ (TakeOut("new") \/ TakeOut("due"))
     \/ Put(w, "idle") /\ ~Claimable /\ UNCHANGED queue
  /\ UNCHANGED <<mainVars, wake, notify, faults, syncVars>>

\* The claim fails; the worker logs it and goes to sleep all the same.
ClaimFails(w) ==
  /\ worker[w] = "claim" /\ ~cancelled
  /\ Put(w, "idle") /\ Fail
  /\ UNCHANGED <<mainVars, wake, notify, queue, syncVars>>

\* Fault, for mutation: a claim that fails is slept over, whatever it failed of.
LastClaimSleeps(w) ==
  /\ worker[w] = "claim" /\ cancelled
  /\ Put(w, "idle")
  /\ UNCHANGED <<mainVars, wake, notify, queue, faults, syncVars>>

\* The context is cancelled: the claim failed, or came just before and is left.
LastClaim(w) ==
  /\ worker[w] = "claim" /\ cancelled
  /\ Put(w, "off")
  /\ \/ UNCHANGED queue
     \/ queue.new > 0 /\ Take("new", "cut")
     \/ queue.due > 0 /\ Take("due", "cut")
  /\ UNCHANGED <<mainVars, wake, notify, faults, syncVars>>

\* Fault, for mutation: a worker sleeps after each request.
FinishAndSleep(w) ==
  /\ worker[w] = "busy" /\ ~cancelled
  /\ Put(w, "idle")
  /\ queue' \in {queue, [queue EXCEPT !.later = @ + 1]}
  /\ UNCHANGED <<mainVars, wake, notify, faults, syncVars>>

\* process ends with a request at rest, or with a retry scheduled.
Finish(w) ==
  /\ worker[w] = "busy" /\ ~cancelled
  /\ Put(w, "claim")
  /\ queue' \in {queue, [queue EXCEPT !.later = @ + 1]}
  /\ UNCHANGED <<mainVars, wake, notify, faults, syncVars>>

\* A statement of process fails: it is logged, and the row stays in flight.
FinishFails(w) ==
  /\ worker[w] = "busy" /\ ~cancelled
  /\ Put(w, "claim") /\ Fail
  /\ queue' = [queue EXCEPT !.cut = @ + 1]
  /\ UNCHANGED <<mainVars, wake, notify, syncVars>>

\* process ends under a cancelled context and leaves the row as it is.
CutShort(w) ==
  /\ worker[w] = "busy" /\ cancelled
  /\ Put(w, "claim")
  /\ queue' = [queue EXCEPT !.cut = @ + 1]
  /\ UNCHANGED <<mainVars, wake, notify, faults, syncVars>>

\* From the claim to the select: what is queued and announced now was not seen by
\* the claim, and the worker does not listen yet.
Sleep(w) ==
  /\ worker[w] = "idle"
  /\ Put(w, "sleep")
  /\ UNCHANGED <<mainVars, wake, notify, queue, faults, syncVars>>

\* The three ways out of the select.
Woken(w) ==
  /\ worker[w] = "sleep" /\ wake
  /\ wake' = FALSE
  /\ Put(w, "claim")
  /\ UNCHANGED <<mainVars, notify, queue, faults, syncVars>>

\* Fault, for mutation: no timer, a worker waits to be woken.
PollNever(w) ==
  /\ worker[w] = "sleep" /\ wake
  /\ Put(w, "claim")
  /\ UNCHANGED <<mainVars, wake, notify, queue, faults, syncVars>>

Poll(w) ==
  /\ worker[w] = "sleep"
  /\ Put(w, "claim")
  /\ UNCHANGED <<mainVars, wake, notify, queue, faults, syncVars>>

StopWorker(w) ==
  /\ worker[w] = "sleep" /\ cancelled
  /\ Put(w, "off")
  /\ UNCHANGED <<mainVars, wake, notify, queue, faults, syncVars>>

WorkerStep(w) ==
  \/ Claim(w) \/ LastClaim(w) \/ Finish(w) \/ CutShort(w) \/ Sleep(w)
  \/ Woken(w) \/ Poll(w) \/ StopWorker(w)

WorkerFault(w) == ClaimFails(w) \/ FinishFails(w)

\* The time in next_attempt_at passes.
RetryDue ==
  /\ queue.later > 0
  /\ Take("later", "due")
  /\ UNCHANGED <<mainVars, poolVars, notify, faults, syncVars>>

----------------------------------------------------------------------------
(* Whoever queues requests: first the transaction, then Notify. *)

\* A batch, a retry or the movies of a watchlist pass.
Enqueue(who) ==
  \E n \in 1 .. MaxRequests - queue.total :
    /\ queue' = [queue EXCEPT !.new = @ + n, !.total = @ + n]
    /\ notify' = notify \cup {who}

\* A call the server took while it was serving; nothing stops one that outlives the ten
\* seconds echo.Shutdown waits, until the process ends.
CommitCall(h) ==
  /\ phase \notin {"down", "boot"} /\ h \notin notify
  /\ Enqueue(h)
  /\ UNCHANGED <<mainVars, poolVars, faults, syncVars>>

\* CreateTraktRequests in SyncOnce.
CommitPass ==
  /\ syncer.pc = "pass" /\ "sync" \notin notify
  /\ ~cancelled
  /\ Enqueue("sync")
  /\ UNCHANGED <<mainVars, poolVars, faults, syncVars>>

\* Fault, for mutation: without a listening worker the token is not left behind.
WakeListener == wake' = (wake \/ \E w \in Workers : worker[w] = "sleep")

\* Pool.Notify: a second token is dropped.
Wake == wake' = TRUE

Notify(who) == who \in notify /\ notify' = notify \ {who} /\ Wake

NotifyCall(h) == Notify(h) /\ UNCHANGED <<mainVars, worker, queue, faults, syncVars>>

\* The end of a pass, which has queued movies or has not; between the commit and the
\* end of SyncOnce nothing can fail.
NotifyPass ==
  /\ Notify("sync")
  /\ Sync!PassSucceeds \/ Sync!PassCutOff
  /\ UNCHANGED <<mainVars, worker, queue, faults>>

EndPass ==
  /\ "sync" \notin notify
  /\ Sync!PassSucceeds \/ Sync!PassFails
  /\ UNCHANGED <<mainVars, poolVars, notify, queue, faults>>

\* The sync's other steps.
SyncStep ==
  /\ "sync" \notin notify
  /\ Sync!Step
  /\ UNCHANGED <<mainVars, poolVars, notify, queue, faults>>

SyncTick == Sync!Tick /\ UNCHANGED <<mainVars, poolVars, notify, queue, faults>>

----------------------------------------------------------------------------
(* run. *)

\* Recover, and Pool.Start.
Start ==
  /\ phase = "down" /\ starts < MaxStarts
  /\ phase' = "boot" /\ abrupt' = FALSE
  /\ worker' = [w \in Workers |-> "claim"]
  /\ queue' = [queue EXCEPT !.new = @ + queue.cut, !.cut = 0]
  /\ UNCHANGED <<wake, notify, faults, syncVars>>

\* The sync starts, if it is enabled, and then the server.
Serve ==
  /\ phase = "boot" /\ phase' = "serving"
  /\ IF TraktEnabled THEN Sync!StartSync /\ UNCHANGED cancelled ELSE UNCHANGED syncVars
  /\ UNCHANGED <<abrupt, poolVars, notify, queue, faults>>

\* The process is gone with everything in it; what was in flight is cut off.
Die ==
  /\ phase' = "down" /\ abrupt' = TRUE
  /\ queue' = [queue EXCEPT !.cut = @ + Cardinality({w \in Workers : worker[w] = "busy"})]
  /\ worker' = [w \in Workers |-> "off"] /\ wake' = FALSE
  /\ notify' = {}
  /\ Sync!Kill

\* A client or the server cannot be built: run returns with the pool started.
BootFails == phase = "boot" /\ Fail /\ Die

Crash == phase # "down" /\ Fail /\ Die

\* SIGINT or SIGTERM.
Terminate ==
  /\ phase # "down"
  /\ Sync!Cancel
  /\ UNCHANGED <<mainVars, poolVars, notify, queue, faults>>

Advance(from, to) ==
  /\ phase = from /\ phase' = to
  /\ UNCHANGED <<syncVars, abrupt, poolVars, notify, queue>>

\* The listener fails: Server.Start returns the error.
ListenFails == Advance("serving", "pool") /\ Fail

BeginShutdown == cancelled /\ Advance("serving", "closing") /\ UNCHANGED faults

\* echo.Shutdown returns when the calls in progress have ended, or after ten seconds.
EndShutdown == Advance("closing", "pool") /\ UNCHANGED faults

PoolWait == (\A w \in Workers : worker[w] = "off") /\ Advance("pool", "sync") /\ UNCHANGED faults

\* Fault, for mutation: run does not wait for the sync.
ExitAtOnce ==
  /\ phase = "sync" /\ phase' = "down"
  /\ cancelled' = FALSE /\ wake' = FALSE
  /\ notify' = {}
  /\ UNCHANGED <<abrupt, worker, queue, faults, syncer, tick, monitor, streak, starts, lost>>

\* Syncer.Wait; then the store is closed, and calls still open end with the process.
Exit ==
  /\ phase = "sync" /\ phase' = "down"
  /\ syncer.pc = "off" /\ Sync!Kill
  /\ wake' = FALSE
  /\ notify' = {}
  /\ UNCHANGED <<abrupt, worker, queue, faults>>

SyncLoop == SyncStep \/ EndPass \/ NotifyPass

MainStep == Serve \/ BeginShutdown \/ EndShutdown \/ PoolWait \/ Exit

Next ==
  \/ \E w \in Workers : WorkerStep(w) \/ WorkerFault(w)
  \/ \E h \in Handlers : CommitCall(h) \/ NotifyCall(h)
  \/ CommitPass \/ SyncLoop \/ SyncTick \/ RetryDue
  \/ Start \/ MainStep \/ BootFails \/ Crash \/ Terminate \/ ListenFails

Spec == Init /\ [][Next]_vars

(***************************************************************************)
(* An attempt is bounded by its timeout, the poll timer fires, a pass and  *)
(* a ping end, Notify never blocks, and run goes on as soon as what it     *)
(* waits for is over.  Nothing makes a call, a signal or a fault come, and *)
(* nothing here depends on a call that has committed to notify in time.    *)
(***************************************************************************)
Fairness ==
  /\ \A w \in Workers : WF_vars(WorkerStep(w))
  /\ WF_vars(SyncLoop) /\ WF_vars(MainStep)

FairSpec == Spec /\ Fairness

----------------------------------------------------------------------------
(* Properties. *)

TypeOK ==
  /\ Sync!TypeOK
  /\ phase \in {"down", "boot", "serving", "closing", "pool", "sync"}
  /\ abrupt \in BOOLEAN
  /\ worker \in [Workers -> {"off", "claim", "busy", "idle", "sleep"}]
  /\ wake \in BOOLEAN
  /\ notify \subseteq Handlers \cup {"sync"}
  /\ queue \in [Kinds -> 0 .. MaxRequests]
  /\ faults \in 0 .. MaxFaults

\* "Notify() makes new work visible immediately" (worker.go:32): new requests that
\* have been announced are never left to the poll timer of sleeping workers; a token
\* waits for one, or some worker looks at the queue before it sleeps.  A claim
\* that fails may swallow the token.
NoLostWakeUp ==
  queue.new > 0 /\ notify = {} /\ phase # "down" /\ ~cancelled /\ faults = 0 =>
    wake \/ \E w \in Workers : worker[w] \in {"claim", "busy"}

\* Work that can be claimed gets a worker, also when its token was dropped or swallowed
\* and when nothing but the passing of a backoff made it claimable.  (That each row
\* has its turn is RequestQueue's: rows are only counted here.)
WorkGetsAWorker ==
  Claimable ~> ~Claimable \/ (\E w \in Workers : worker[w] = "busy") \/ cancelled \/ phase = "down"

\* When run returns after its waits, no worker and no sync uses the store it closes
\* (main.go:106), in whatever order the signal found them.
StoreOutlivesUsers ==
  phase = "down" /\ ~abrupt => syncer.pc = "off" /\ \A w \in Workers : worker[w] = "off"

\* A signal ends the process: each goroutine notices it from wherever it is, even
\* if the server had failed before (main.go:108) and run waits for the pool alone.
ShutdownEnds == cancelled ~> phase = "down"

\* The loop of the sync meets in the process only what SyncMonitor allows for: its context
\* and its end come as they do there, so what is shown of it alone holds here.
SyncAsAlone == Sync!Spec

=============================================================================
