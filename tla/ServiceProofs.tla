---------------------------- MODULE ServiceProofs ----------------------------
(* The pool and run, for any number of workers, handlers and requests, and  *)
(* the sync's loop in the process as an instance of SyncMonitor.            *)
EXTENDS Service, FiniteSetTheorems, TLAPS

Alone == INSTANCE SyncMonitorProofs

Busy == {w \in Workers : worker[w] = "busy"}

PoolTypes ==
  /\ phase \in {"down", "boot", "serving", "closing", "pool", "sync"}
  /\ abrupt \in BOOLEAN
  /\ worker \in [Workers -> {"off", "claim", "busy", "idle", "sleep"}]
  /\ wake \in BOOLEAN
  /\ notify \subseteq Handlers \cup {"sync"}
  /\ faults \in 0 .. MaxFaults

\* No request is counted twice: each that was submitted is in one of the queue's parts,
\* in the hands of a worker, or at rest.
QueueCounted ==
  /\ queue \in [Kinds -> Nat]
  /\ queue.new + queue.due + queue.later + queue.cut + Cardinality(Busy) <= queue.total
  /\ queue.total <= MaxRequests

\* Where run has waited for the pool, or has not started it, no worker runs; without a
\* process the sync does not run either.
Waited ==
  /\ phase \in {"down", "sync"} => \A w \in Workers : worker[w] = "off"
  /\ phase = "down" => syncer.pc = "off"

PoolInv == PoolTypes /\ QueueCounted /\ Waited /\ NoLostWakeUp

----------------------------------------------------------------------------
(* Helpers. *)

LEMMA BusyFinite == IsFiniteSet(Busy) /\ Cardinality(Busy) \in Nat
<1>1. Busy \subseteq Workers
  BY DEF Busy
<1> QED
  BY <1>1, ServiceAssumption, FS_Subset, FS_CardinalityType DEF ServiceAssumption

\* A worker's step counts in the set of busy workers.
LEMMA PutBusy ==
  ASSUME PoolTypes, NEW w \in Workers,
         NEW pc \in {"off", "claim", "busy", "idle", "sleep"}, Put(w, pc)
  PROVE  /\ worker' \in [Workers -> {"off", "claim", "busy", "idle", "sleep"}]
         /\ worker'[w] = pc /\ \A v \in Workers \ {w} : worker'[v] = worker[v]
         /\ Cardinality(Busy)' \in Nat
         /\ worker[w] # "busy" /\ pc # "busy" => Cardinality(Busy)' = Cardinality(Busy)
         /\ worker[w] # "busy" /\ pc = "busy" => Cardinality(Busy)' = Cardinality(Busy) + 1
         /\ worker[w] = "busy" /\ pc # "busy" => Cardinality(Busy)' = Cardinality(Busy) - 1
<1>1. /\ worker' \in [Workers -> {"off", "claim", "busy", "idle", "sleep"}]
      /\ worker'[w] = pc /\ \A v \in Workers \ {w} : worker'[v] = worker[v]
  BY DEF PoolTypes, Put
<1>2. IsFiniteSet(Busy) /\ Cardinality(Busy) \in Nat
  BY BusyFinite
<1>3. IsFiniteSet(Busy') /\ Cardinality(Busy)' \in Nat
  <2>1. Busy' \subseteq Workers
    BY DEF Busy
  <2> QED
    BY <2>1, ServiceAssumption, FS_Subset, FS_CardinalityType DEF ServiceAssumption
<1>4. ASSUME worker[w] # "busy", pc # "busy" PROVE Cardinality(Busy)' = Cardinality(Busy)
  <2>1. Busy' = Busy
    BY <1>1, <1>4 DEF Busy
  <2> QED
    BY <2>1
<1>5. ASSUME worker[w] # "busy", pc = "busy" PROVE Cardinality(Busy)' = Cardinality(Busy) + 1
  <2>1. Busy' = Busy \cup {w} /\ w \notin Busy
    BY <1>1, <1>5 DEF Busy
  <2> QED
    BY <1>2, <2>1, FS_AddElement
<1>6. ASSUME worker[w] = "busy", pc # "busy" PROVE Cardinality(Busy)' = Cardinality(Busy) - 1
  <2>1. Busy' = Busy \ {w} /\ w \in Busy
    BY <1>1, <1>6 DEF Busy
  <2> QED
    BY <1>2, <2>1, FS_RemoveElement
<1> QED
  BY <1>1, <1>3, <1>4, <1>5, <1>6

----------------------------------------------------------------------------

LEMMA PoolInit == Init => PoolInv
<1> SUFFICES ASSUME Init PROVE PoolInv
  OBVIOUS
<1> USE ServiceAssumption DEF ServiceAssumption, Init
<1>1. PoolTypes
  <2>1. 0 \in 0 .. MaxFaults
    OBVIOUS
  <2> QED
    BY <2>1 DEF PoolTypes
<1>2. QueueCounted
  <2>1. Busy = {}
    BY DEF Busy
  <2>2. Cardinality(Busy) = 0
    BY <2>1, FS_EmptySet
  <2> QED
    BY <2>2 DEF QueueCounted, Kinds
<1>3. Waited
  BY DEF Waited, Sync!Init, Sync!Stopped
<1>4. NoLostWakeUp
  BY DEF NoLostWakeUp
<1> QED
  BY <1>1, <1>2, <1>3, <1>4 DEF PoolInv

----------------------------------------------------------------------------
(* Steps of a worker. *)

\* No step of a worker's loop starts a stopped worker.
LEMMA WorkerKeepsWaited ==
  ASSUME PoolInv, NEW w \in Workers, WorkerStep(w) \/ WorkerFault(w)
  PROVE  Waited'
<1>1. worker[w] # "off" /\ phase' = phase /\ syncer' = syncer
  BY DEF WorkerStep, WorkerFault, Claim, ClaimFails, FinishFails,
         LastClaim, Finish, CutShort, Sleep, Woken, Poll, StopWorker,
         mainVars, syncVars
<1> QED
  BY <1>1 DEF PoolInv, Waited

LEMMA WorkerKeepsTypes ==
  ASSUME PoolInv, NEW w \in Workers, WorkerStep(w) \/ WorkerFault(w)
  PROVE  PoolTypes'
<1>1. \E pc \in {"off", "claim", "busy", "idle", "sleep"} : Put(w, pc)
  BY DEF WorkerStep, WorkerFault, Claim, ClaimFails, FinishFails,
         LastClaim, Finish, CutShort, Sleep, Woken, Poll, StopWorker
<1>2. worker' \in [Workers -> {"off", "claim", "busy", "idle", "sleep"}]
  BY <1>1, PutBusy DEF PoolInv
<1>3. UNCHANGED <<phase, abrupt, notify>> /\ wake' \in BOOLEAN
  BY DEF WorkerStep, WorkerFault, Claim, ClaimFails, FinishFails,
         LastClaim, Finish, CutShort, Sleep, Woken, Poll, StopWorker,
         mainVars, PoolInv, PoolTypes
<1>4. faults' \in 0 .. MaxFaults
  BY ServiceAssumption
  DEF WorkerStep, WorkerFault, Claim, ClaimFails, FinishFails,
      LastClaim, Finish, CutShort, Sleep, Woken, Poll, StopWorker,
      Fail, PoolInv, PoolTypes, ServiceAssumption
<1> QED
  BY <1>2, <1>3, <1>4 DEF PoolInv, PoolTypes

\* A request leaves the queue for a worker's hands and comes back, or comes to rest.
LEMMA WorkerKeepsCount ==
  ASSUME PoolInv, NEW w \in Workers, WorkerStep(w) \/ WorkerFault(w)
  PROVE  QueueCounted'
<1> USE BusyFinite DEF PoolInv
<1>0. /\ queue \in [Kinds -> Nat] /\ MaxRequests \in Nat
      /\ queue["new"] \in Nat /\ queue["due"] \in Nat /\ queue["later"] \in Nat
      /\ queue["cut"] \in Nat /\ queue["total"] \in Nat
  BY ServiceAssumption DEF QueueCounted, Kinds, ServiceAssumption
<1>1. CASE Put(w, "busy") /\ worker[w] = "claim" /\ (TakeOut("new") \/ TakeOut("due"))
  <2>1. Cardinality(Busy)' = Cardinality(Busy) + 1
    BY <1>1, PutBusy
  <2> QED
    BY <1>0, <1>1, <2>1 DEF QueueCounted, TakeOut, Kinds
<1>2. CASE /\ \E pc \in {"off", "claim", "idle", "sleep"} : Put(w, pc)
           /\ worker[w] # "busy" /\ UNCHANGED queue
  <2>1. Cardinality(Busy)' = Cardinality(Busy)
    BY <1>2, PutBusy
  <2> QED
    BY <1>0, <1>2, <2>1 DEF QueueCounted
<1>3. CASE /\ Put(w, "off") /\ worker[w] # "busy"
           /\ \/ queue.new > 0 /\ Take("new", "cut")
              \/ queue.due > 0 /\ Take("due", "cut")
  <2>1. Cardinality(Busy)' = Cardinality(Busy)
    BY <1>3, PutBusy
  <2> QED
    BY <1>0, <1>3, <2>1 DEF QueueCounted, Take, Kinds
<1>4. CASE /\ Put(w, "claim") /\ worker[w] = "busy"
           /\ \/ queue' = queue
              \/ queue' = [queue EXCEPT !.later = @ + 1]
              \/ queue' = [queue EXCEPT !.cut = @ + 1]
  <2>1. Cardinality(Busy)' = Cardinality(Busy) - 1
    BY <1>4, PutBusy
  <2> QED
    BY <1>0, <1>4, <2>1 DEF QueueCounted, Kinds
<1> QED
  BY <1>1, <1>2, <1>3, <1>4
  DEF WorkerStep, WorkerFault, Claim, ClaimFails, FinishFails,
      LastClaim, Finish, CutShort, Sleep, Woken, Poll, StopWorker

LEMMA WorkerKeepsWake ==
  ASSUME PoolInv, NEW w \in Workers, WorkerStep(w) \/ WorkerFault(w)
  PROVE  NoLostWakeUp'
<1> USE DEF PoolInv
<1>0. /\ queue["new"] \in Nat /\ queue["due"] \in Nat /\ faults \in Nat
      /\ worker \in [Workers -> {"off", "claim", "busy", "idle", "sleep"}]
  BY ServiceAssumption DEF QueueCounted, PoolTypes, Kinds, ServiceAssumption
<1>1. CASE cancelled
  <2>1. cancelled'
    BY <1>1 DEF WorkerStep, WorkerFault, Claim, ClaimFails, FinishFails,
                LastClaim, Finish, CutShort, Sleep, Woken, Poll, StopWorker,
         syncVars
  <2> QED
    BY <2>1 DEF NoLostWakeUp
<1>2. CASE Put(w, "claim") \/ Put(w, "busy")
  <2>1. worker'[w] \in {"claim", "busy"}
    BY <1>2, PutBusy
  <2> QED
    BY <2>1 DEF NoLostWakeUp
<1>3. CASE Claim(w) /\ Put(w, "idle") /\ ~Claimable /\ UNCHANGED queue
  <2>1. queue'["new"] = 0
    BY <1>0, <1>3 DEF Claimable
  <2> QED
    BY <2>1 DEF NoLostWakeUp
<1>4. CASE WorkerFault(w)
  <2>1. faults' # 0
    BY <1>0, <1>4 DEF WorkerFault, ClaimFails, FinishFails, Fail
  <2> QED
    BY <2>1 DEF NoLostWakeUp
<1>5. CASE Sleep(w)
  <2>1. /\ worker[w] = "idle" /\ UNCHANGED <<queue, notify, faults, phase, cancelled, wake>>
        /\ \A v \in Workers \ {w} : worker'[v] = worker[v]
    BY <1>5, PutBusy DEF Sleep, mainVars, syncVars
  <2> QED
    BY <2>1 DEF NoLostWakeUp
<1> QED
  BY <1>1, <1>2, <1>3, <1>4, <1>5
  DEF WorkerStep, Claim, LastClaim, Finish, CutShort, Woken, Poll, StopWorker

----------------------------------------------------------------------------
(* Steps of those who queue requests, and the passing of a backoff. *)

LEMMA EnqueueKeeps ==
  ASSUME PoolInv, NEW who \in Handlers \cup {"sync"}, Enqueue(who),
         UNCHANGED <<mainVars, poolVars, faults, syncVars>>
  PROVE  PoolInv'
<1> USE DEF PoolInv
<1>1. /\ queue \in [Kinds -> Nat] /\ MaxRequests \in Nat /\ Cardinality(Busy) \in Nat
      /\ queue["new"] \in Nat /\ queue["due"] \in Nat /\ queue["later"] \in Nat
      /\ queue["cut"] \in Nat /\ queue["total"] \in Nat
  BY ServiceAssumption, BusyFinite DEF QueueCounted, Kinds, ServiceAssumption
<1>2. PICK n \in 1 .. MaxRequests - queue["total"] :
        queue' = [queue EXCEPT !.new = @ + n, !.total = @ + n]
  BY DEF Enqueue
<1>3. n \in Nat /\ queue["total"] + n <= MaxRequests
  BY <1>1, <1>2
<1>4. UNCHANGED Busy
  BY DEF Busy, poolVars
<1>5. QueueCounted'
  <2>1. /\ queue' \in [Kinds -> Nat]
        /\ queue'["new"] = queue["new"] + n /\ queue'["total"] = queue["total"] + n
        /\ queue'["due"] = queue["due"] /\ queue'["later"] = queue["later"]
        /\ queue'["cut"] = queue["cut"]
    <3> DEFINE q == [queue EXCEPT !.new = @ + n]
    <3>1. /\ q \in [Kinds -> Nat] /\ q["new"] = queue["new"] + n
          /\ \A kind \in Kinds \ {"new"} : q[kind] = queue[kind]
      BY <1>1, <1>3 DEF Kinds
    <3>2. queue' = [q EXCEPT !.total = @ + n]
      BY <1>1, <1>2 DEF Kinds
    <3> HIDE DEF q
    <3> QED
      BY <1>1, <1>3, <3>1, <3>2 DEF Kinds
  <2> QED
    BY <1>1, <1>3, <1>4, <2>1 DEF QueueCounted
<1>6. notify' = notify \cup {who}
  BY DEF Enqueue
<1>7. PoolTypes'
  BY <1>6 DEF PoolTypes, mainVars, poolVars
<1>8. Waited'
  BY DEF Waited, mainVars, poolVars, syncVars
<1>9. NoLostWakeUp'
  BY <1>6 DEF NoLostWakeUp
<1> QED
  BY <1>5, <1>7, <1>8, <1>9

LEMMA RetryDueKeeps ==
  ASSUME PoolInv, RetryDue
  PROVE  PoolInv'
<1> USE DEF PoolInv, RetryDue, mainVars, poolVars, syncVars
<1>1. /\ queue \in [Kinds -> Nat] /\ MaxRequests \in Nat /\ Cardinality(Busy) \in Nat
      /\ queue["new"] \in Nat /\ queue["due"] \in Nat /\ queue["later"] \in Nat
      /\ queue["cut"] \in Nat /\ queue["total"] \in Nat
  BY ServiceAssumption, BusyFinite DEF QueueCounted, Kinds, ServiceAssumption
<1>2. UNCHANGED Busy
  BY DEF Busy
<1>3. QueueCounted'
  BY <1>1, <1>2 DEF QueueCounted, Take, Kinds
<1>4. PoolTypes' /\ Waited'
  BY DEF PoolTypes, Waited
<1>5. queue'["new"] = queue["new"]
  BY <1>1 DEF Take, Kinds
<1>6. NoLostWakeUp'
  BY <1>5 DEF NoLostWakeUp
<1> QED
  BY <1>3, <1>4, <1>6

\* What leaves the workers, the queue and run alone, and no token behind.
LEMMA OthersKeep ==
  ASSUME PoolInv, UNCHANGED <<mainVars, worker, queue>>,
         syncer.pc = "off" => syncer'.pc = "off",
         faults' = faults, notify' \subseteq notify,
         \/ wake' = TRUE
         \/ wake' = wake /\ notify' = notify /\ (cancelled' \/ cancelled' = cancelled)
  PROVE  PoolInv'
<1> USE DEF PoolInv, mainVars
<1>1. UNCHANGED Busy
  BY DEF Busy
<1>2. PoolTypes'
  BY DEF PoolTypes
<1>3. QueueCounted'
  BY <1>1 DEF QueueCounted
<1>4. Waited'
  BY DEF Waited
<1>5. NoLostWakeUp'
  BY DEF NoLostWakeUp
<1> QED
  BY <1>2, <1>3, <1>4, <1>5

LEMMA NotifyKeeps ==
  ASSUME PoolInv, NEW h \in Handlers, NotifyCall(h)
  PROVE  PoolInv'
BY OthersKeep DEF NotifyCall, Notify, Wake, syncVars

\* No step of the sync's loop but its start leaves "off".
LEMMA SyncStays ==
  ASSUME Sync!Step \/ Sync!PassSucceeds \/ Sync!PassFails \/ Sync!Tick \/ Sync!Cancel
  PROVE  /\ syncer.pc = "off" => syncer'.pc = "off"
         /\ cancelled' \/ cancelled' = cancelled
<1>1. CASE Sync!Tick \/ Sync!Cancel
  BY <1>1 DEF Sync!Tick, Sync!Cancel
<1>2. CASE Sync!PassSucceeds \/ Sync!PassFails
  BY <1>2 DEF Sync!PassSucceeds, Sync!PassFails
<1>3. CASE Sync!Step
  <2>1. CASE Sync!StopSync
    BY <2>1 DEF Sync!StopSync
  <2>2. CASE Sync!NextPass \/ Sync!PassCutOff \/ Sync!Delay
    BY <2>2 DEF Sync!NextPass, Sync!PassCutOff, Sync!Delay, Sync!Goto
  <2>3. CASE Sync!PingDelivered \/ Sync!PingLost \/ Sync!PingCutOff
    BY <2>3 DEF Sync!PingDelivered, Sync!PingLost, Sync!PingCutOff, Sync!AfterLoss
  <2> QED
    BY <1>3, <2>1, <2>2, <2>3 DEF Sync!Step
<1> QED
  BY <1>1, <1>2, <1>3

LEMMA SyncKeeps ==
  ASSUME PoolInv, SyncLoop \/ SyncTick \/ Terminate
  PROVE  PoolInv'
<1>1. CASE NotifyPass
  <2>1. Sync!PassSucceeds \/ Sync!Step
    BY <1>1 DEF NotifyPass, Sync!Step
  <2> QED
    BY <1>1, <2>1, SyncStays, OthersKeep DEF NotifyPass, Notify, Wake
<1>2. CASE EndPass \/ SyncStep \/ SyncTick \/ Terminate
  BY <1>2, SyncStays, OthersKeep DEF EndPass, SyncStep, SyncTick, Terminate, poolVars
<1> QED
  BY <1>1, <1>2 DEF SyncLoop

----------------------------------------------------------------------------
(* Steps of run. *)

LEMMA StartKeeps ==
  ASSUME PoolInv, Start
  PROVE  PoolInv'
<1> USE DEF PoolInv, Start
<1>1. /\ queue \in [Kinds -> Nat] /\ MaxRequests \in Nat /\ Cardinality(Busy) \in Nat
      /\ queue["new"] \in Nat /\ queue["due"] \in Nat /\ queue["later"] \in Nat
      /\ queue["cut"] \in Nat /\ queue["total"] \in Nat
  BY ServiceAssumption, BusyFinite DEF QueueCounted, Kinds, ServiceAssumption
<1>2. Busy' = {}
  BY DEF Busy
<1>3. Cardinality(Busy)' = 0
  BY <1>2, FS_EmptySet
<1>4. QueueCounted'
  <2>1. /\ queue' \in [Kinds -> Nat]
        /\ queue'["new"] = queue["new"] + queue["cut"] /\ queue'["cut"] = 0
        /\ queue'["due"] = queue["due"] /\ queue'["later"] = queue["later"]
        /\ queue'["total"] = queue["total"]
    <3> DEFINE q == [queue EXCEPT !.new = @ + queue.cut]
    <3>1. /\ q \in [Kinds -> Nat] /\ q["new"] = queue["new"] + queue["cut"]
          /\ \A kind \in Kinds \ {"new"} : q[kind] = queue[kind]
      BY <1>1 DEF Kinds
    <3>2. queue' = [q EXCEPT !.cut = 0]
      BY <1>1 DEF Kinds
    <3> HIDE DEF q
    <3> QED
      BY <1>1, <3>1, <3>2 DEF Kinds
  <2> QED
    BY <1>1, <1>3, <2>1 DEF QueueCounted
<1>5. PoolTypes' /\ Waited'
  BY DEF PoolTypes, Waited
<1>6. NoLostWakeUp'
  BY ServiceAssumption DEF NoLostWakeUp, ServiceAssumption
<1> QED
  BY <1>4, <1>5, <1>6

\* Requests in the hands of workers are cut off with the process.
LEMMA DieKeeps ==
  ASSUME PoolInv, Die, Fail
  PROVE  PoolInv'
<1> USE DEF PoolInv, Die
<1>1. /\ queue \in [Kinds -> Nat] /\ MaxRequests \in Nat /\ Cardinality(Busy) \in Nat
      /\ queue["new"] \in Nat /\ queue["due"] \in Nat /\ queue["later"] \in Nat
      /\ queue["cut"] \in Nat /\ queue["total"] \in Nat
  BY ServiceAssumption, BusyFinite DEF QueueCounted, Kinds, ServiceAssumption
<1>2. Busy' = {}
  BY DEF Busy
<1>3. Cardinality(Busy)' = 0
  BY <1>2, FS_EmptySet
<1>4. queue' = [queue EXCEPT !.cut = @ + Cardinality(Busy)]
  BY DEF Busy
<1>5. QueueCounted'
  BY <1>1, <1>3, <1>4 DEF QueueCounted, Kinds
<1>6. faults' \in 0 .. MaxFaults
  BY ServiceAssumption DEF Fail, PoolTypes, ServiceAssumption
<1>7. PoolTypes'
  BY <1>6 DEF PoolTypes
<1>8. Waited'
  BY DEF Waited, Sync!Kill, Sync!Stopped
<1>9. NoLostWakeUp'
  BY DEF NoLostWakeUp
<1> QED
  BY <1>5, <1>7, <1>8, <1>9

\* run goes on, with the workers and the queue as they are.
LEMMA RunKeeps ==
  ASSUME PoolInv, UNCHANGED <<worker, queue>>,
         \/ Serve \/ ListenFails \/ BeginShutdown \/ EndShutdown \/ PoolWait \/ Exit
  PROVE  PoolInv'
<1> USE DEF PoolInv, mainVars, poolVars
<1>1. UNCHANGED Busy
  BY DEF Busy
<1>2. QueueCounted'
  BY <1>1 DEF QueueCounted
<1>3. CASE Serve
  <2>1. PoolTypes' /\ Waited'
    BY <1>3 DEF Serve, PoolTypes, Waited
  <2>2. phase # "down" /\ cancelled' = cancelled /\ UNCHANGED <<wake, notify, faults>>
    BY <1>3 DEF Serve, syncVars
  <2>3. NoLostWakeUp'
    BY <2>2 DEF NoLostWakeUp
  <2> QED
    BY <1>2, <2>1, <2>3
<1>4. CASE ListenFails \/ BeginShutdown \/ EndShutdown \/ PoolWait
  <2>1. /\ phase' \in {"pool", "closing", "sync"} /\ UNCHANGED <<abrupt, wake, notify, cancelled, syncer>>
        /\ phase' = "sync" => \A w \in Workers : worker[w] = "off"
        /\ phase # "down"
    BY <1>4 DEF ListenFails, BeginShutdown, EndShutdown, PoolWait, Advance, syncVars
  <2>2. faults' \in 0 .. MaxFaults /\ (faults' = 0 => faults = 0)
    BY <1>4, ServiceAssumption
    DEF ListenFails, BeginShutdown, EndShutdown, PoolWait, Fail, PoolTypes, ServiceAssumption
  <2>3. PoolTypes' /\ Waited'
    BY <2>1, <2>2 DEF PoolTypes, Waited
  <2>4. NoLostWakeUp'
    BY <2>1, <2>2 DEF NoLostWakeUp
  <2> QED
    BY <1>2, <2>3, <2>4
<1>5. CASE Exit
  <2>1. PoolTypes'
    BY <1>5 DEF Exit, PoolTypes
  <2>2. Waited'
    BY <1>5 DEF Exit, Waited, Sync!Kill, Sync!Stopped
  <2>3. NoLostWakeUp'
    BY <1>5 DEF Exit, NoLostWakeUp
  <2> QED
    BY <1>2, <2>1, <2>2, <2>3
<1> QED
  BY <1>3, <1>4, <1>5

LEMMA PoolStep == PoolInv /\ [Next]_vars => PoolInv'
<1> SUFFICES ASSUME PoolInv, [Next]_vars PROVE PoolInv'
  OBVIOUS
<1>1. ASSUME NEW w \in Workers, WorkerStep(w) \/ WorkerFault(w) PROVE PoolInv'
  BY <1>1, WorkerKeepsTypes, WorkerKeepsCount, WorkerKeepsWaited, WorkerKeepsWake DEF PoolInv
<1>2. ASSUME NEW h \in Handlers, CommitCall(h) PROVE PoolInv'
  BY <1>2, EnqueueKeeps DEF CommitCall
<1>3. ASSUME NEW h \in Handlers, NotifyCall(h) PROVE PoolInv'
  BY <1>3, NotifyKeeps
<1>4. CASE CommitPass
  BY <1>4, EnqueueKeeps DEF CommitPass
<1>5. CASE SyncLoop \/ SyncTick \/ Terminate
  BY <1>5, SyncKeeps
<1>6. CASE RetryDue
  BY <1>6, RetryDueKeeps
<1>7. CASE Start
  BY <1>7, StartKeeps
<1>8. CASE MainStep \/ ListenFails
  <2>1. UNCHANGED <<worker, queue>>
    BY <1>8 DEF MainStep, Serve, ListenFails, BeginShutdown, EndShutdown, PoolWait, Exit, Advance, poolVars
  <2> QED
    BY <1>8, <2>1, RunKeeps DEF MainStep
<1>9. CASE BootFails \/ Crash
  BY <1>9, DieKeeps DEF BootFails, Crash
<1>10. CASE UNCHANGED vars
  BY <1>10, OthersKeep DEF vars, mainVars, poolVars, syncVars
<1> QED
  BY <1>1, <1>2, <1>3, <1>4, <1>5, <1>6, <1>7, <1>8, <1>9, <1>10 DEF Next

LEMMA PoolInvariant == Spec => []PoolInv
<1> QED
  BY PoolInit, PoolStep, PTL DEF Spec

----------------------------------------------------------------------------
(* The sync's loop in the process. *)

ContextType == cancelled \in BOOLEAN

LEMMA SyncLoopStep ==
  ASSUME SyncLoop \/ SyncTick \/ Terminate
  PROVE  Sync!Next
BY DEF SyncLoop, SyncTick, Terminate, NotifyPass, EndPass, SyncStep, Sync!Next, Sync!Step

LEMMA RunSyncStep ==
  ASSUME ContextType, Start \/ MainStep \/ BootFails \/ Crash \/ ListenFails
  PROVE  Sync!Next \/ UNCHANGED syncVars
<1>1. CASE Serve
  BY <1>1 DEF Serve, Sync!Next, Sync!Begin, ContextType
<1>2. CASE Exit \/ BootFails \/ Crash
  BY <1>2 DEF Exit, BootFails, Crash, Die, Sync!Next
<1>3. CASE Start \/ ListenFails \/ BeginShutdown \/ EndShutdown \/ PoolWait
  BY <1>3 DEF Start, ListenFails, BeginShutdown, EndShutdown, PoolWait, Advance
<1> QED
  BY <1>1, <1>2, <1>3 DEF MainStep

LEMMA PoolSyncStep ==
  ASSUME \/ \E w \in Workers : WorkerStep(w) \/ WorkerFault(w)
         \/ \E h \in Handlers : CommitCall(h) \/ NotifyCall(h)
         \/ CommitPass \/ RetryDue
  PROVE  UNCHANGED syncVars
BY DEF WorkerStep, WorkerFault, Claim, ClaimFails, FinishFails,
       LastClaim, Finish, CutShort, Sleep, Woken, Poll, StopWorker,
       CommitCall, NotifyCall, CommitPass, RetryDue

\* Every step of the process is a step of the sync's loop, or none.
LEMMA StepOfSync == ContextType /\ [Next]_vars => [Sync!Next]_syncVars
<1> SUFFICES ASSUME ContextType, Next PROVE Sync!Next \/ UNCHANGED syncVars
  BY DEF vars
<1> QED
  BY SyncLoopStep, RunSyncStep, PoolSyncStep DEF Next

LEMMA ContextTyped == Spec => []ContextType
<1>1. Init => ContextType
  BY DEF Init, Sync!Init, ContextType
<1>2. ContextType /\ [Next]_vars => ContextType'
  <2> SUFFICES ASSUME ContextType, Sync!Next \/ UNCHANGED syncVars PROVE ContextType'
    BY StepOfSync
  <2>1. CASE UNCHANGED syncVars
    BY <2>1 DEF syncVars, ContextType
  <2>2. CASE Sync!Next
    BY <2>2
    DEF ContextType, Sync!Next, Sync!Step, Sync!NextPass, Sync!StopSync, Sync!PassCutOff,
        Sync!PingDelivered, Sync!PingLost, Sync!PingCutOff, Sync!Delay, Sync!PassSucceeds,
        Sync!PassFails, Sync!Tick, Sync!Begin, Sync!Cancel, Sync!Kill
  <2> QED
    BY <2>1, <2>2
<1> QED
  BY <1>1, <1>2, PTL DEF Spec

\* What the proofs about SyncMonitor assume of its constants.
LEMMA MonitorConstants ==
  /\ AlertAfter \in Nat \ {0} /\ PingAttempts \in Nat \ {0}
  /\ MaxStarts \in Nat /\ MaxLost \in Nat
BY ServiceAssumption DEF ServiceAssumption

\* SyncMonitor as its own proofs instantiate it is SyncMonitor.
LEMMA SameLoop == Sync!Spec => Alone!Spec
<1>1. Sync!Init => Alone!Init
  BY DEF Sync!Init, Alone!Init, Sync!Stopped, Alone!Stopped
<1>2. [Sync!Next]_(Sync!vars) => [Alone!Next]_(Alone!vars)
  BY DEF Sync!vars, Alone!vars, Sync!Next, Alone!Next,
    Sync!Step, Sync!NextPass, Sync!StopSync, Sync!PassCutOff, Sync!PingDelivered, Sync!PingLost,
    Sync!PingCutOff, Sync!AfterLoss, Sync!Delay, Sync!PassSucceeds, Sync!PassFails, Sync!Tick,
    Sync!Begin, Sync!StartSync, Sync!Cancel, Sync!Kill, Sync!Goto, Sync!Signal, Sync!AlertDue,
    Sync!Count, Sync!Stopped,
    Alone!Step, Alone!NextPass, Alone!StopSync, Alone!PassCutOff, Alone!PingDelivered, Alone!PingLost,
    Alone!PingCutOff, Alone!AfterLoss, Alone!Delay, Alone!PassSucceeds, Alone!PassFails, Alone!Tick,
    Alone!Begin, Alone!StartSync, Alone!Cancel, Alone!Kill, Alone!Goto, Alone!Signal, Alone!AlertDue,
    Alone!Count, Alone!Stopped
<1> QED
  BY <1>1, <1>2, PTL DEF Sync!Spec, Alone!Spec

----------------------------------------------------------------------------
(* Theorems. *)

\* The sync's loop meets in the process only what SyncMonitor allows for, in its context,
\* its start and its end (main.go, run).
THEOREM SyncRefined == Spec => SyncAsAlone
<1>1. Init => Sync!Init
  BY DEF Init
<1>2. ContextType /\ [Next]_vars => [Sync!Next]_(Sync!vars)
  BY StepOfSync DEF Sync!vars, syncVars
<1> QED
  BY <1>1, <1>2, ContextTyped, PTL DEF Spec, SyncAsAlone, Sync!Spec

\* So in the process too the monitor shows the outcome of the last pass, until as many
\* pings as an alert has attempts were lost (Pinger.ping).
THEOREM BlipsUnnoticedInService == Spec => []Sync!BlipUnnoticed
<1>1. Alone!BlipUnnoticed <=> Sync!BlipUnnoticed
  BY DEF Alone!BlipUnnoticed, Sync!BlipUnnoticed
<1> QED
  BY <1>1, SyncRefined, SameLoop, MonitorConstants, Alone!BlipsUnnoticed, PTL DEF SyncAsAlone

\* Types of the process, its pool and its queue, and of the sync within.
THEOREM ServiceTypes == Spec => []TypeOK
<1>1. Alone!TypeOK => Sync!TypeOK
  BY DEF Alone!TypeOK, Sync!TypeOK, Alone!Syncer, Sync!Syncer, Alone!Streak, Sync!Streak,
         Alone!Signals, Sync!Signals
<1>2. PoolInv /\ Sync!TypeOK => TypeOK
  <2> SUFFICES ASSUME PoolInv, Sync!TypeOK PROVE TypeOK
    OBVIOUS
  <2>1. queue \in [Kinds -> 0 .. MaxRequests]
    <3>1. /\ MaxRequests \in Nat /\ Cardinality(Busy) \in Nat
          /\ queue["new"] \in Nat /\ queue["due"] \in Nat /\ queue["later"] \in Nat
          /\ queue["cut"] \in Nat /\ queue["total"] \in Nat
      BY ServiceAssumption, BusyFinite DEF PoolInv, QueueCounted, Kinds, ServiceAssumption
    <3>2. \A kind \in Kinds : queue[kind] \in 0 .. MaxRequests
      BY <3>1 DEF PoolInv, QueueCounted, Kinds
    <3> QED
      BY <3>2 DEF PoolInv, QueueCounted
  <2> QED
    BY <2>1 DEF PoolInv, PoolTypes, TypeOK
<1> QED
  BY <1>1, <1>2, PoolInvariant, SyncRefined, SameLoop, MonitorConstants, Alone!MonitorTypes, PTL DEF SyncAsAlone

\* New requests that have been announced are never left to the poll timer (Pool.Notify).
THEOREM WakeUpsArrive == Spec => []NoLostWakeUp
<1>1. PoolInv => NoLostWakeUp
  BY DEF PoolInv
<1> QED
  BY <1>1, PoolInvariant, PTL

\* When run returns, no worker and no sync uses the store it closes.
THEOREM StoreClosedLast == Spec => []StoreOutlivesUsers
<1>1. PoolInv => StoreOutlivesUsers
  BY DEF PoolInv, Waited, StoreOutlivesUsers
<1> QED
  BY <1>1, PoolInvariant, PTL

=============================================================================
