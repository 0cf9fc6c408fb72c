-------------------------- MODULE RequestQueueWork --------------------------
(* Who works on a request, how often, and when it is left alone; and, from  *)
(* that, that the queue implements RequestLifecycle.                        *)
EXTENDS RequestQueueFiles, RequestQueueLifecycle

(* No stranded request: NoStrandedRequest is inductive as it stands.  A step *)
(* either moves no row into SEARCHING or FOUND and no worker off such a row, *)
(* or is one of the three worker steps below, or starts the process.         *)

HandsKept ==
  /\ mode' = "running" /\ faults' = 0 => mode = "running" /\ faults = 0
  /\ \A r \in Requests :
       rows'[r].status \in InFlight =>
         /\ rows[r].status \in InFlight
         /\ \A w \in Workers : Holds(w, r) => task'[w].pc # "idle" /\ task'[w].req = r

LEMMA HandsStep == NoStrandedRequest /\ HandsKept => NoStrandedRequest'
  BY DEF NoStrandedRequest, HandsKept, Holds

LEMMA StrandedStep == TypeOK /\ NoStrandedRequest /\ [Next]_vars => NoStrandedRequest'
<1> SUFFICES ASSUME TypeOK, NoStrandedRequest, [Next]_vars PROVE NoStrandedRequest'
  OBVIOUS
<1>1. ASSUME NEW batch \in (SUBSET Requests) \ {{}}, NEW query \in [batch -> Queries],
             NEW force \in BOOLEAN, NEW tick \in {0, 1}, CreateBatch(batch, query, force, tick)
      PROVE  NoStrandedRequest'
  <2>1. ASSUME NEW r \in Requests
        PROVE  rows'[r] = rows[r] \/ rows'[r].status \notin InFlight
    BY <1>1, AdmitStatusType DEF CreateBatch, NewRow, InFlight
  <2> QED
    BY <1>1, <2>1, HandsStep DEF CreateBatch, HandsKept, Holds
<1>2. ASSUME NEW w \in Workers, Claim(w) PROVE NoStrandedRequest'
  <2> PICK r \in Requests :
        /\ Record(r, Claimed(rows[r]))
        /\ Move(w, "search", r, rows[r].attempt + 1, None)
    BY <1>2 DEF Claim
  <2>1. \A x \in Requests \ {r} : rows'[x] = rows[x]
    BY ClaimedRow, RecordStep DEF TypeOK
  <2>2. /\ \A v \in Workers \ {w} : task'[v] = task[v]
        /\ task'[w].pc = "search" /\ task'[w].req = r
    <3>1. rows[r].attempt + 1 \in Nat
      BY DEF TypeOK, Row
    <3> QED
      BY <3>1, MoveStep DEF TypeOK
  <2>3. /\ UNCHANGED <<mode, faults>>
        /\ task[w].pc = "idle"
    BY <1>2 DEF Claim
  <2> QED
    BY <2>1, <2>2, <2>3 DEF NoStrandedRequest, Holds
<1>3. ASSUME NEW w \in Workers, NEW release \in Releases, MarkFound(w, release)
      PROVE  NoStrandedRequest'
  <2> DEFINE r == task[w].req
  <2>1. r \in Requests /\ task[w].attempt \in Nat
    BY <1>3, BusyTask DEF MarkFound, TypeOK
  <2>2. \A x \in Requests \ {r} : rows'[x] = rows[x]
    BY <1>3, <2>1, FoundRow, RecordStep DEF MarkFound, TypeOK
  <2>3. ~Exists(r) => rows'[r].status \notin InFlight
    BY <1>3, <2>1 DEF MarkFound, Record, Exists, Live
  <2>4. /\ \A v \in Workers \ {w} : task'[v] = task[v]
        /\ Exists(r) => task'[w].pc # "idle" /\ task'[w].req = r
    BY <1>3, <2>1, MoveStep, DropStep DEF MarkFound, TypeOK
  <2>5. UNCHANGED <<mode, faults>>
    BY <1>3 DEF MarkFound
  <2> QED
    BY <2>1, <2>2, <2>3, <2>4, <2>5 DEF NoStrandedRequest, Holds
<1>4. ASSUME NEW w \in Workers, CreateTemp(w) \/ Rename(w) PROVE NoStrandedRequest'
  <2>1. task[w].req \in Requests /\ task[w].attempt \in Nat /\ task[w].release \in Releases
    BY <1>4, BusyTask DEF CreateTemp, Rename, TypeOK
  <2>2. /\ \A v \in Workers \ {w} : task'[v] = task[v]
        /\ task'[w].pc # "idle" /\ task'[w].req = task[w].req
    BY <1>4, <2>1, MoveStep DEF CreateTemp, Rename, TypeOK
  <2> QED
    BY <1>4, <2>2, HandsStep DEF CreateTemp, Rename, HandsKept, Holds
<1>5. ASSUME NEW w \in Workers, MarkDownloaded(w) \/ HandleError(w) PROVE NoStrandedRequest'
  <2> DEFINE r == task[w].req
  <2>1. r \in Requests
    BY <1>5, BusyTask DEF MarkDownloaded, HandleError, ErrorsOf, TypeOK
  <2>2. /\ \A x \in Requests \ {r} : rows'[x] = rows[x]
        /\ rows'[r].status \notin InFlight
    <3>1. CASE MarkDownloaded(w)
      <4>1. task[w].release \in Releases
        BY <3>1, BusyTask DEF MarkDownloaded, TypeOK
      <4>2. Filename(r, task[w].release) \in Paths
        BY <2>1, <4>1, FilenameOwn
      <4> QED
        BY <2>1, <3>1, <4>2, DownloadedRow, RecordStep
        DEF MarkDownloaded, TypeOK, InFlight, Exists, Live
    <3>2. CASE HandleError(w)
      <4> PICK err \in ErrorsOf(task[w].pc) :
            Record(r, AfterError(rows[r], err, task[w].attempt))
        BY <3>2 DEF HandleError
      <4> QED
        BY <2>1, AfterErrorRow, RecordStep DEF TypeOK, InFlight, Exists, Live
    <3> QED
      BY <1>5, <3>1, <3>2
  <2>3. /\ \A v \in Workers \ {w} : task'[v] = task[v]
        /\ UNCHANGED <<mode, faults>>
    BY <1>5, DropStep DEF MarkDownloaded, HandleError, TypeOK
  <2> HIDE DEF r
  <2>4. ASSUME NEW x \in Requests, rows'[x].status \in InFlight
        PROVE  /\ rows[x].status \in InFlight
               /\ \A v \in Workers : Holds(v, x) => task'[v].pc # "idle" /\ task'[v].req = x
    <3>1. x # r /\ rows'[x] = rows[x]
      BY <2>2, <2>4
    <3> QED
      BY <2>3, <2>4, <3>1 DEF Holds, r
  <2> QED
    BY <2>3, <2>4, HandsStep DEF HandsKept
<1>6. ASSUME NEW w \in Workers, LoseOutcome(w) PROVE NoStrandedRequest'
  <2>1. faults' # 0
    BY <1>6 DEF LoseOutcome, TypeOK
  <2> QED
    BY <2>1 DEF NoStrandedRequest
<1>7. ASSUME NEW w \in Workers, Abandon(w) PROVE NoStrandedRequest'
  BY <1>7 DEF Abandon, NoStrandedRequest
<1>8. ASSUME NEW o \in Operators, BeginCall(o) \/ CheckRetry(o) PROVE NoStrandedRequest'
  BY <1>8, BeginCallStep, HandsStep DEF CheckRetry, HandsKept, Holds
<1>9. ASSUME NEW o \in Operators, WriteRetry(o) \/ WriteCancel(o) \/ WriteDelete(o)
      PROVE  NoStrandedRequest'
  <2> DEFINE r == call[o].req
  <2>1. /\ r \in Requests /\ call[o].status \in {"QUEUED", "DUPLICATE"}
        /\ call[o].query \in Queries \cup {None} /\ call[o].force \in BOOLEAN
    BY <1>9, BusyCall DEF WriteRetry, WriteCancel, WriteDelete, TypeOK
  <2>2. PICK row \in Row : row.status \notin InFlight /\ Record(r, row)
    <3>1. CASE WriteRetry(o)
      <4> DEFINE row == Reset(rows[r], call[o].status, call[o].query, call[o].force)
      <4>1. row \in Row /\ row.status \notin InFlight
        BY <2>1, ResetRow DEF TypeOK, InFlight
      <4> QED
        BY <3>1, <4>1 DEF WriteRetry
    <3>2. CASE WriteCancel(o)
      <4>1. Closed(rows[r], "CANCELLED") \in Row /\ Closed(rows[r], "CANCELLED").status \notin InFlight
        BY <2>1, ClosedRow DEF TypeOK, InFlight, Live, Terminal
      <4> QED
        BY <3>2, <4>1 DEF WriteCancel
    <3>3. CASE WriteDelete(o)
      <4>1. NoRow("DELETED") \in Row /\ NoRow("DELETED").status \notin InFlight
        BY NoRowType DEF Statuses, InFlight
      <4> QED
        BY <3>3, <4>1 DEF WriteDelete
    <3> QED
      BY <1>9, <3>1, <3>2, <3>3
  <2>3. \A x \in Requests : rows'[x] = rows[x] \/ rows'[x].status \notin InFlight
    BY <2>1, <2>2, RecordStep DEF TypeOK
  <2>4. UNCHANGED <<mode, task, faults>>
    BY <1>9 DEF WriteRetry, WriteCancel, WriteDelete
  <2> QED
    BY <2>3, <2>4, HandsStep DEF HandsKept, Holds
<1>10. ASSUME NEW o \in Operators, RemoveTorrentFile(o) \/ LoseCall(o) PROVE NoStrandedRequest'
  BY <1>10, HandsStep DEF RemoveTorrentFile, LoseCall, HandsKept, Holds, TypeOK
<1>11. CASE Start
  <2>1. \A r \in Requests : rows'[r].status \notin InFlight
    BY <1>11, RequeuedRow DEF Start, TypeOK, InFlight
  <2> QED
    BY <2>1 DEF NoStrandedRequest
<1>12. CASE Shutdown \/ Exit \/ Crash
  BY <1>12 DEF Shutdown, Exit, Crash, NoStrandedRequest
<1>13. ASSUME NEW r \in Requests, RetryDue(r) PROVE NoStrandedRequest'
  <2>1. \A x \in Requests : rows'[x].status = rows[x].status
    BY <1>13, RetryTimePassedRow, RecordStep DEF RetryDue, TypeOK
  <2> QED
    BY <1>13, <2>1, HandsStep DEF RetryDue, HandsKept, Holds
<1>14. ASSUME NEW path \in Paths, Consume(path) PROVE NoStrandedRequest'
  BY <1>14, HandsStep DEF Consume, HandsKept, Holds
<1>15. CASE UNCHANGED vars
  BY <1>15, HandsStep DEF vars, HandsKept, Holds
<1> QED
  BY <1>1, <1>2, <1>3, <1>4, <1>5, <1>6, <1>7, <1>8, <1>9, <1>10, <1>11, <1>12, <1>13,
     <1>14, <1>15
  DEF Next, Submit, WorkerStep, OperatorStep

\* While the process runs and no write has failed, every row in SEARCHING or FOUND is
\* in the hands of a worker, whatever the calls did to it in the meantime.
THEOREM NothingStranded == Spec => []NoStrandedRequest
<1>1. Init => NoStrandedRequest
  BY DEF Init, NoStrandedRequest
<1> QED
  BY <1>1, TypeInit, TypeStep, StrandedStep, PTL DEF Spec

----------------------------------------------------------------------------
(* One worker per request, and the budget of attempts.                      *)
(*                                                                          *)
(* Neither is inductive.  That a claim finds nobody on the row needs "held  *)
(* only in flight"; that a re-queued row has an attempt left needs the      *)
(* worker's copy of attempt_count to equal the row's, and the stop that     *)
(* preceded a re-queueing restart to be counted already; and that a call    *)
(* whose check still holds meets no worker needs what it checked.           *)

RowWork(r) ==
  /\ Exists(r) =>
       \A w \in Workers : Holds(w, r) =>
         /\ rows[r].status \in InFlight
         /\ rows[r].attempt = task[w].attempt
         /\ \A v \in Workers : Holds(v, r) => v = w
  /\ rows[r].attempt <= MaxAttempts + stops
  /\ rows[r].status = "QUEUED" \/ (rows[r].status \in InFlight /\ mode # "running") =>
       rows[r].attempt < MaxAttempts + stops

CallWork(o) ==
  /\ call[o].pc \in {"check", "retry"} => call[o].seen \in Retryable
  /\ call[o].pc = "cancel" => call[o].seen \in Cancellable

WorkInv ==
  /\ \A r \in Requests \ raced : RowWork(r)
  /\ \A o \in Operators : CallWork(o)
  /\ mode = "down" => \A w \in Workers : task[w].pc = "idle"

LEMMA WorkInit == Init => WorkInv
<1> SUFFICES ASSUME Init PROVE WorkInv
  OBVIOUS
<1>1. \A r \in Requests : rows[r].status = "FRESH" /\ rows[r].attempt = 0
  BY NoRowType DEF Init, Statuses
<1>2. /\ \A w \in Workers : task[w].pc = "idle"
      /\ \A o \in Operators : call[o].pc = "idle"
      /\ stops = 0
  BY DEF Init, Idle, Quiet
<1> QED
  BY <1>1, <1>2, QueueAssumption
  DEF WorkInv, RowWork, CallWork, Holds, QueueAssumption, InFlight

(* Steps that change neither the status nor the count of a row, and by which *)
(* a worker keeps its request or drops it.                                   *)

WorkKept ==
  /\ UNCHANGED <<mode, raced, stops>>
  /\ \A r \in Requests : rows'[r].status = rows[r].status /\ rows'[r].attempt = rows[r].attempt
  /\ \A w \in Workers :
       \/ task'[w].pc = "idle"
       \/ /\ task[w].pc # "idle" /\ task'[w].pc # "idle"
          /\ task'[w].req = task[w].req /\ task'[w].attempt = task[w].attempt
  /\ \A o \in Operators : call'[o].pc = "idle" \/ call'[o] = call[o]

LEMMA WorkKeptStep == WorkInv /\ WorkKept => WorkInv'
<1> SUFFICES ASSUME WorkInv, WorkKept PROVE WorkInv'
  OBVIOUS
<1>1. ASSUME NEW r \in Requests \ raced' PROVE RowWork(r)'
  <2>1. RowWork(r)
    BY <1>1 DEF WorkInv, WorkKept
  <2>2. /\ rows'[r].status = rows[r].status /\ rows'[r].attempt = rows[r].attempt
        /\ mode' = mode /\ stops' = stops
    BY DEF WorkKept
  <2>3. ASSUME NEW w \in Workers, Holds(w, r)'
        PROVE  Holds(w, r) /\ task'[w].attempt = task[w].attempt
    BY <2>3 DEF WorkKept, Holds
  <2> QED
    BY <2>1, <2>2, <2>3 DEF RowWork, Exists
<1>2. ASSUME NEW o \in Operators PROVE CallWork(o)'
  BY DEF WorkInv, WorkKept, CallWork
<1>3. mode' = "down" => \A w \in Workers : task'[w].pc = "idle"
  BY DEF WorkInv, WorkKept
<1> QED
  BY <1>1, <1>2, <1>3 DEF WorkInv

(* Steps on one request r.  The others are as before if no worker takes one *)
(* of them up.                                                              *)

OthersKept(r) ==
  /\ UNCHANGED <<mode, stops>>
  /\ \A x \in Requests \ {r} :
       /\ rows'[x] = rows[x]
       /\ \A w \in Workers :
            Holds(w, x)' => Holds(w, x) /\ task'[w].attempt = task[w].attempt

LEMMA OthersStep ==
  ASSUME NEW r \in Requests, OthersKept(r), NEW x \in Requests \ {r}, RowWork(x)
  PROVE  RowWork(x)'
<1>1. rows'[x] = rows[x] /\ mode' = mode /\ stops' = stops
  BY DEF OthersKept
<1>2. ASSUME NEW w \in Workers, Holds(w, x)'
      PROVE  Holds(w, x) /\ task'[w].attempt = task[w].attempt
  BY <1>2 DEF OthersKept
<1> QED
  BY <1>1, <1>2 DEF RowWork, Exists

LEMMA WorkStep == TypeOK /\ DiskInv /\ WorkInv /\ [Next]_vars => WorkInv'
<1> SUFFICES ASSUME TypeOK, DiskInv, WorkInv, [Next]_vars PROVE WorkInv'
  OBVIOUS
<1>0. MaxAttempts \in Nat /\ MaxAttempts > 0 /\ stops \in Nat
  BY QueueAssumption DEF QueueAssumption, TypeOK
<1>1. ASSUME NEW batch \in (SUBSET Requests) \ {{}}, NEW query \in [batch -> Queries],
             NEW force \in BOOLEAN, NEW tick \in {0, 1}, CreateBatch(batch, query, force, tick)
      PROVE  WorkInv'
  <2>1. UNCHANGED <<mode, task, call, raced, stops>>
    BY <1>1 DEF CreateBatch
  <2>2. ASSUME NEW r \in Requests \ raced' PROVE RowWork(r)'
    <3>1. CASE r \in batch
      <4>1. rows[r].status = "FRESH"
        BY <1>1, <3>1 DEF CreateBatch
      <4>2. \A w \in Workers : ~Holds(w, r)
        BY <4>1 DEF DiskInv, Holds
      <4>3. rows'[r].status \in {"QUEUED", "DUPLICATE"} /\ rows'[r].attempt = 0
        BY <1>1, <3>1, AdmitStatusType DEF CreateBatch, NewRow
      <4> QED
        BY <1>0, <2>1, <4>2, <4>3 DEF RowWork, Holds
    <3>2. CASE r \notin batch
      <4>1. rows'[r] = rows[r]
        BY <1>1, <3>2 DEF CreateBatch
      <4> QED
        BY <2>1, <2>2, <4>1 DEF WorkInv, RowWork, Holds, Exists
    <3> QED
      BY <3>1, <3>2
  <2> QED
    BY <2>1, <2>2 DEF WorkInv, CallWork
<1>2. ASSUME NEW w \in Workers, Claim(w) PROVE WorkInv'
  <2> PICK r \in Requests :
        /\ OldestDue(r)
        /\ Record(r, Claimed(rows[r]))
        /\ Move(w, "search", r, rows[r].attempt + 1, None)
    BY <1>2 DEF Claim
  <2>1. UNCHANGED <<mode, call, raced, stops>> /\ mode = "running" /\ task[w].pc = "idle"
    BY <1>2 DEF Claim
  <2>2. rows[r].attempt \in Nat
    BY DEF TypeOK, Row
  <2>3. /\ \A x \in Requests \ {r} : rows'[x] = rows[x]
        /\ rows[r].status = "QUEUED"
        /\ rows'[r].status = "SEARCHING" /\ rows'[r].attempt = rows[r].attempt + 1
    BY ClaimedRow, RecordStep DEF TypeOK, OldestDue, Due, Exists, Live
  <2>4. /\ \A v \in Workers \ {w} : task'[v] = task[v]
        /\ task'[w].pc = "search" /\ task'[w].req = r
        /\ task'[w].attempt = rows[r].attempt + 1
    BY <2>2, MoveStep DEF TypeOK
  <2>5. OthersKept(r)
    BY <2>1, <2>3, <2>4 DEF OthersKept, Holds
  <2>6. ASSUME r \notin raced PROVE RowWork(r)'
    <3>1. RowWork(r)
      BY <2>6 DEF WorkInv
    <3>2. \A v \in Workers : ~Holds(v, r)
      BY <2>3, <3>1 DEF RowWork, Exists, Live, InFlight
    <3>3. \A v \in Workers : Holds(v, r)' => v = w
      BY <2>4, <3>2 DEF Holds
    <3>4. rows[r].attempt < MaxAttempts + stops
      BY <2>3, <3>1 DEF RowWork
    <3> QED
      BY <1>0, <2>1, <2>2, <2>3, <2>4, <3>3, <3>4 DEF RowWork, InFlight
  <2> QED
    BY <2>1, <2>5, <2>6, OthersStep DEF WorkInv, CallWork
<1>3. ASSUME NEW w \in Workers, NEW release \in Releases, MarkFound(w, release) PROVE WorkInv'
  <2>1. UNCHANGED <<mode, call, raced, stops>> /\ mode = "running" /\ task[w].pc = "search"
    BY <1>3 DEF MarkFound
  <2> PICK r \in Requests : r = task[w].req
    BY <2>1, BusyTask DEF TypeOK
  <2>2. task[w].attempt \in Nat
    BY <2>1, BusyTask DEF TypeOK
  <2>3. /\ \A x \in Requests \ {r} : rows'[x] = rows[x]
        /\ Exists(r) => rows'[r].status = "FOUND" /\ rows'[r].attempt = rows[r].attempt
        /\ ~Exists(r) => rows'[r] = rows[r]
    BY <1>3, <2>2, FoundRow, RecordStep DEF MarkFound, TypeOK
  <2>4. /\ \A v \in Workers \ {w} : task'[v] = task[v]
        /\ \/ task'[w].pc = "idle"
           \/ task'[w].pc = "fetch" /\ task'[w].req = r /\ task'[w].attempt = task[w].attempt
    BY <1>3, <2>2, MoveStep, DropStep DEF MarkFound, TypeOK
  <2>5. OthersKept(r)
    BY <2>1, <2>3, <2>4 DEF OthersKept, Holds
  <2>6. ASSUME r \notin raced PROVE RowWork(r)'
    <3>1. RowWork(r) /\ Holds(w, r)
      BY <2>1, <2>2, <2>6 DEF WorkInv, Holds
    <3>2. \A v \in Workers : Holds(v, r)' => Holds(v, r) /\ task'[v].attempt = task[v].attempt
      BY <2>1, <2>4 DEF Holds
    <3>3. CASE Exists(r)
      <4> QED
        BY <2>1, <2>3, <3>1, <3>2, <3>3 DEF RowWork, InFlight
    <3>4. CASE ~Exists(r)
      BY <2>1, <2>3, <3>1, <3>4 DEF RowWork, Exists
    <3> QED
      BY <3>3, <3>4
  <2> QED
    BY <2>1, <2>2, <2>5, <2>6, OthersStep DEF WorkInv, CallWork
<1>4. ASSUME NEW w \in Workers, CreateTemp(w) \/ Rename(w) PROVE WorkInv'
  <2>1. task[w].req \in Requests /\ task[w].attempt \in Nat /\ task[w].release \in Releases
    BY <1>4, BusyTask DEF CreateTemp, Rename, TypeOK
  <2>2. /\ \A v \in Workers \ {w} : task'[v] = task[v]
        /\ task[w].pc # "idle" /\ task'[w].pc # "idle"
        /\ task'[w].req = task[w].req /\ task'[w].attempt = task[w].attempt
    BY <1>4, <2>1, MoveStep DEF CreateTemp, Rename, TypeOK
  <2> QED
    BY <1>4, <2>2, WorkKeptStep DEF CreateTemp, Rename, WorkKept
<1>5. ASSUME NEW w \in Workers, MarkDownloaded(w) \/ HandleError(w) PROVE WorkInv'
  <2>1. UNCHANGED <<mode, call, raced, stops>> /\ mode = "running" /\ task[w].pc # "idle"
    BY <1>5 DEF MarkDownloaded, HandleError, ErrorsOf
  <2> PICK r \in Requests : r = task[w].req
    BY <2>1, BusyTask DEF TypeOK
  <2>2. task[w].attempt \in Nat
    BY <2>1, BusyTask DEF TypeOK
  <2>3. /\ \A x \in Requests \ {r} : rows'[x] = rows[x]
        /\ ~Exists(r) => rows'[r] = rows[r]
        /\ Exists(r) =>
             /\ rows'[r].attempt = rows[r].attempt
             /\ rows'[r].status \notin InFlight
             /\ rows'[r].status = "QUEUED" => ~Exhausted(task[w].attempt)
    <3>1. CASE MarkDownloaded(w)
      <4>1. Filename(r, task[w].release) \in Paths
        BY <2>2, <3>1, BusyTask, FilenameOwn DEF MarkDownloaded, TypeOK
      <4> QED
        BY <2>2, <3>1, <4>1, DownloadedRow, RecordStep DEF MarkDownloaded, TypeOK, InFlight
    <3>2. CASE HandleError(w)
      <4> PICK err \in ErrorsOf(task[w].pc) :
            Record(r, AfterError(rows[r], err, task[w].attempt))
        BY <3>2 DEF HandleError
      <4> QED
        BY <2>2, AfterErrorRow, RecordStep DEF TypeOK, InFlight
    <3> QED
      BY <1>5, <3>1, <3>2
  <2>4. /\ \A v \in Workers \ {w} : task'[v] = task[v]
        /\ task'[w].pc = "idle"
    BY <1>5, DropStep DEF MarkDownloaded, HandleError, TypeOK
  <2>5. OthersKept(r)
    BY <2>1, <2>3, <2>4 DEF OthersKept, Holds
  <2>6. ASSUME r \notin raced PROVE RowWork(r)'
    <3>1. RowWork(r) /\ Holds(w, r)
      BY <2>1, <2>2, <2>6 DEF WorkInv, Holds
    <3>2. CASE Exists(r)
      <4>1. rows[r].attempt = task[w].attempt /\ \A v \in Workers : Holds(v, r) => v = w
        BY <3>1, <3>2 DEF RowWork
      <4>2. \A v \in Workers : ~Holds(v, r)'
        BY <2>4, <4>1 DEF Holds
      <4>3. rows'[r].status = "QUEUED" => rows'[r].attempt < MaxAttempts
        BY <1>0, <2>2, <2>3, <3>2, <4>1 DEF Exhausted
      <4>4. rows'[r].attempt <= MaxAttempts + stops /\ rows'[r].status \notin InFlight
        BY <2>3, <3>1, <3>2 DEF RowWork
      <4>5. rows'[r].attempt \in Nat
        BY <2>2, <2>3, <3>2, <4>1
      <4> QED
        BY <1>0, <2>1, <4>2, <4>3, <4>4, <4>5 DEF RowWork
    <3>3. CASE ~Exists(r)
      <4> QED
        BY <2>1, <2>3, <3>1, <3>3 DEF RowWork, Exists
    <3> QED
      BY <3>2, <3>3
  <2> QED
    BY <2>1, <2>2, <2>5, <2>6, OthersStep DEF WorkInv, CallWork
<1>6. ASSUME NEW w \in Workers, LoseOutcome(w) \/ Abandon(w) PROVE WorkInv'
  <2>1. /\ \A v \in Workers \ {w} : task'[v] = task[v]
        /\ task'[w].pc = "idle"
    BY <1>6, DropStep DEF LoseOutcome, Abandon, TypeOK
  <2> QED
    BY <1>6, <2>1, WorkKeptStep DEF LoseOutcome, Abandon, WorkKept
<1>7. ASSUME NEW o \in Operators, BeginCall(o) PROVE WorkInv'
  <2>1. /\ UNCHANGED <<mode, rows, task, raced, stops>>
        /\ \A p \in Operators \ {o} : call'[p] = call[p]
    BY <1>7, BeginCallStep
  <2>2. CallWork(o)'
    BY <1>7, BeginCallStep DEF CallWork
  <2> QED
    BY <2>1, <2>2 DEF WorkInv, RowWork, CallWork, Holds, Exists
<1>8. ASSUME NEW o \in Operators, CheckRetry(o) PROVE WorkInv'
  <2>1. /\ UNCHANGED <<mode, rows, task, raced, stops>>
        /\ \A p \in Operators \ {o} : call'[p] = call[p]
        /\ call[o].pc = "check" /\ call'[o].pc = "retry" /\ call'[o].seen = call[o].seen
    BY <1>8, AdmitStatusType, AdvanceCall, PutStep DEF CheckRetry, TypeOK
  <2> QED
    BY <2>1 DEF WorkInv, RowWork, CallWork, Holds, Exists
<1>9. ASSUME NEW o \in Operators, WriteRetry(o) \/ WriteCancel(o) PROVE WorkInv'
  <2> PICK r \in Requests : r = call[o].req
    BY <1>9, BusyCall DEF WriteRetry, WriteCancel, TypeOK
  <2>1. /\ call[o].status \in {"QUEUED", "DUPLICATE"}
        /\ call[o].query \in Queries \cup {None} /\ call[o].force \in BOOLEAN
    BY <1>9, BusyCall DEF WriteRetry, WriteCancel, TypeOK
  <2>2. /\ \A x \in Requests \ {r} : rows'[x] = rows[x]
        /\ ~Exists(r) => rows'[r] = rows[r]
        /\ Exists(r) =>
             /\ rows'[r].status \notin InFlight
             /\ \/ rows'[r].attempt = 0
                \/ rows'[r].attempt = rows[r].attempt /\ rows'[r].status # "QUEUED"
    <3>1. CASE WriteRetry(o)
      <4> DEFINE row == Reset(rows[r], call[o].status, call[o].query, call[o].force)
      <4>0. rows[r] \in Row
        BY DEF TypeOK
      <4>1. row \in Row /\ row.attempt = 0 /\ row.status = call[o].status
        BY <2>1, <4>0, ResetRow
      <4>2. Record(r, row)
        BY <3>1 DEF WriteRetry
      <4> HIDE DEF row
      <4> QED
        BY <2>1, <4>1, <4>2, RecordStep DEF TypeOK, InFlight
    <3>2. CASE WriteCancel(o)
      BY <2>1, <3>2, ClosedRow, RecordStep DEF WriteCancel, TypeOK, InFlight, Live, Terminal
    <3> QED
      BY <1>9, <3>1, <3>2
  <2>3. /\ \A p \in Operators \ {o} : call'[p] = call[p]
        /\ call'[o].pc = "idle"
        /\ UNCHANGED <<mode, task, stops>>
        /\ raced' = IF Overtaken(call[o]) THEN raced \cup {r} ELSE raced
        /\ call[o].seen \in Retryable \cup Cancellable
    BY <1>9, EndCallStep DEF WriteRetry, WriteCancel, NoteRace, TypeOK, WorkInv, CallWork
  <2>4. OthersKept(r)
    BY <2>2, <2>3 DEF OthersKept, Holds
  <2>5. ASSUME r \notin raced' PROVE RowWork(r)'
    <3>1. RowWork(r) /\ ~Overtaken(call[o])
      BY <2>1, <2>3, <2>5 DEF WorkInv
    <3>2. CASE Exists(r)
      <4>1. rows[r].status \notin InFlight
        BY <2>3, <3>1, <3>2 DEF Overtaken, Retryable, Cancellable, InFlight
      <4>2. \A w \in Workers : ~Holds(w, r)'
        BY <2>3, <3>1, <3>2, <4>1 DEF RowWork, Holds
      <4>3. rows'[r].attempt <= MaxAttempts + stops
        BY <1>0, <2>2, <3>1, <3>2 DEF RowWork
      <4> QED
        BY <1>0, <2>2, <2>3, <3>2, <4>2, <4>3 DEF RowWork
    <3>3. CASE ~Exists(r)
      <4> QED
        BY <2>2, <2>3, <3>1, <3>3 DEF RowWork, Exists, Holds
    <3> QED
      BY <3>2, <3>3
  <2>6. \A p \in Operators : CallWork(p)'
    BY <2>3 DEF WorkInv, CallWork
  <2>7. \A x \in Requests \ raced' : RowWork(x)'
    BY <2>1, <2>3, <2>4, <2>5, OthersStep DEF WorkInv
  <2> QED
    BY <2>3, <2>6, <2>7 DEF WorkInv
<1>10. ASSUME NEW o \in Operators, WriteDelete(o) PROVE WorkInv'
  <2> PICK r \in Requests : r = call[o].req
    BY <1>10, BusyCall DEF WriteDelete, TypeOK
  <2>1. call[o].status \in {"QUEUED", "DUPLICATE"}
    BY <1>10, BusyCall DEF WriteDelete, TypeOK
  <2>2. /\ \A x \in Requests \ {r} : rows'[x] = rows[x]
        /\ rows'[r] = rows[r] \/ (rows'[r].status = "DELETED" /\ rows'[r].attempt = 0)
    BY <1>10, <2>1, NoRowType, RecordStep DEF WriteDelete, TypeOK, Statuses
  <2>3. /\ \A p \in Operators \ {o} : call'[p] = call[p]
        /\ call'[o].pc \in {"idle", "unlink"}
        /\ UNCHANGED <<mode, task, raced, stops>>
    BY <1>10, <2>1, AdvanceCall, PutStep, EndCallStep DEF WriteDelete, TypeOK
  <2>4. OthersKept(r)
    BY <2>2, <2>3 DEF OthersKept, Holds
  <2>5. ASSUME r \notin raced PROVE RowWork(r)'
    <3>1. RowWork(r)
      BY <2>1, <2>5 DEF WorkInv
    <3>2. "DELETED" \notin Live \cup InFlight
      BY DEF Live, InFlight, Terminal
    <3> QED
      BY <1>0, <2>2, <2>3, <3>1, <3>2 DEF RowWork, Exists, Holds
  <2>6. \A p \in Operators : CallWork(p)'
    BY <2>3 DEF WorkInv, CallWork
  <2> QED
    BY <2>1, <2>3, <2>4, <2>5, <2>6, OthersStep DEF WorkInv
<1>11. ASSUME NEW o \in Operators, RemoveTorrentFile(o) \/ LoseCall(o) PROVE WorkInv'
  <2>1. /\ \A p \in Operators \ {o} : call'[p] = call[p]
        /\ call'[o].pc = "idle"
    BY <1>11, EndCallStep DEF RemoveTorrentFile, LoseCall, TypeOK
  <2> QED
    BY <1>11, <2>1, WorkKeptStep DEF RemoveTorrentFile, LoseCall, WorkKept
<1>12. CASE Start
  <2>1. ASSUME NEW r \in Requests \ raced' PROVE RowWork(r)'
    <3>1. RowWork(r) /\ mode = "down" /\ stops' = stops
      BY <1>12, <2>1 DEF Start, WorkInv
    <3>2. \A w \in Workers : ~Holds(w, r)'
      BY <1>12, <3>1 DEF Start, WorkInv, Holds
    <3>3. /\ rows'[r].attempt = rows[r].attempt /\ rows'[r].status \notin InFlight
          /\ rows'[r].status = "QUEUED" => rows[r].status \in InFlight \cup {"QUEUED"}
      BY <1>12, RequeuedRow DEF Start, TypeOK, InFlight
    <3> QED
      BY <3>1, <3>2, <3>3 DEF RowWork
  <2> QED
    BY <1>12, <2>1 DEF Start, WorkInv, CallWork
<1>13. CASE Shutdown \/ Crash
  <2>1. /\ stops' = stops + 1 /\ UNCHANGED <<rows, raced>>
        /\ task' = task \/ \A w \in Workers : task'[w].pc = "idle"
        /\ call' = call \/ \A o \in Operators : call'[o].pc = "idle"
        /\ mode' = "down" => \A w \in Workers : task'[w].pc = "idle"
    BY <1>13 DEF Shutdown, Crash, Idle, Quiet
  <2>2. ASSUME NEW r \in Requests \ raced' PROVE RowWork(r)'
    <3>1. RowWork(r) /\ rows[r].attempt \in Nat
      BY <2>1, <2>2 DEF WorkInv, TypeOK, Row
    <3>2. rows[r].attempt < MaxAttempts + stops'
      BY <1>0, <2>1, <3>1 DEF RowWork
    <3>3. \A w \in Workers : Holds(w, r)' => Holds(w, r) /\ task'[w] = task[w]
      BY <2>1 DEF Holds
    <3>4. rows'[r] = rows[r]
      BY <2>1
    <3>5. rows[r].attempt <= MaxAttempts + stops'
      BY <1>0, <2>1, <3>1, <3>2
    <3> QED
      BY <3>1, <3>2, <3>3, <3>4, <3>5 DEF RowWork, Exists
  <2>3. \A o \in Operators : CallWork(o)'
    BY <2>1 DEF WorkInv, CallWork
  <2> QED
    BY <2>1, <2>2, <2>3 DEF WorkInv
<1>14. CASE Exit
  <2>1. /\ mode = "stopping" /\ UNCHANGED <<rows, task, raced, stops>>
        /\ \A w \in Workers : task'[w].pc = "idle"
        /\ \A o \in Operators : call'[o].pc = "idle"
    BY <1>14 DEF Exit, Quiet
  <2> QED
    BY <2>1 DEF WorkInv, RowWork, CallWork, Holds, Exists
<1>15. ASSUME NEW r \in Requests, RetryDue(r) PROVE WorkInv'
  <2>1. \A x \in Requests : rows'[x].status = rows[x].status /\ rows'[x].attempt = rows[x].attempt
    BY <1>15, RetryTimePassedRow, RecordStep DEF RetryDue, TypeOK
  <2> QED
    BY <1>15, <2>1, WorkKeptStep DEF RetryDue, WorkKept
<1>16. ASSUME NEW path \in Paths, Consume(path) PROVE WorkInv'
  BY <1>16, WorkKeptStep DEF Consume, WorkKept
<1>17. CASE UNCHANGED vars
  BY <1>17, WorkKeptStep DEF vars, WorkKept
<1> QED
  BY <1>1, <1>2, <1>3, <1>4, <1>5, <1>6, <1>7, <1>8, <1>9, <1>10, <1>11, <1>12, <1>13,
     <1>14, <1>15, <1>16, <1>17
  DEF Next, Submit, WorkerStep, OperatorStep

LEMMA WorkCorrect == Spec => [](TypeOK /\ DiskInv /\ WorkInv)
  BY TypeInit, TypeStep, DiskInit, DiskStep, WorkInit, WorkStep, PTL DEF Spec

\* At most one worker is on a request, and only while it is SEARCHING or FOUND, unless
\* a call has overwritten the row on an outdated check.
THEOREM OneWorkerAtATime == Spec => []OneWorkerPerRequest
<1>1. TypeOK /\ WorkInv => OneWorkerPerRequest
  BY DEF WorkInv, RowWork, OneWorkerPerRequest
<1> QED
  BY <1>1, WorkCorrect, PTL

\* The attempts spent on a request never exceed the budget by more than the restarts.
THEOREM AttemptsBounded == Spec => []AttemptBudget
<1>1. WorkInv => AttemptBudget
  BY DEF WorkInv, RowWork, AttemptBudget
<1> QED
  BY <1>1, WorkCorrect, PTL

----------------------------------------------------------------------------
(* A terminal status is left only by the operator.                          *)

\* A worker that records an outcome finds its row in flight, or overwritten in a race.
LEMMA WorkerRests ==
  ASSUME TypeOK, WorkInv, NEW w \in Workers, task[w].pc # "idle", raced' = raced,
         NEW row \in Row, Record(task[w].req, row)
  PROVE  Rests
<1> PICK r \in Requests : r = task[w].req
  BY BusyTask DEF TypeOK
<1>1. \A x \in Requests \ {r} : rows'[x] = rows[x]
  BY RecordStep DEF TypeOK
<1>2. r \in raced \/ rows[r].status \notin Terminal
  <2>1. CASE r \notin raced /\ Exists(r)
    BY <2>1 DEF WorkInv, RowWork, Holds, InFlight, Terminal
  <2>2. CASE ~Exists(r)
    BY <2>2 DEF Exists, Live
  <2> QED
    BY <2>1, <2>2
<1> QED
  BY <1>1, <1>2 DEF Rests

LEMMA RestsStep == TypeOK /\ DiskInv /\ WorkInv /\ [Next]_vars => Rests
<1> SUFFICES ASSUME TypeOK, DiskInv, WorkInv, [Next]_vars PROVE Rests
  OBVIOUS
<1>0. ASSUME rows' = rows PROVE Rests
  BY <1>0 DEF Rests
<1>1. ASSUME NEW batch \in (SUBSET Requests) \ {{}}, NEW query \in [batch -> Queries],
             NEW force \in BOOLEAN, NEW tick \in {0, 1}, CreateBatch(batch, query, force, tick)
      PROVE  Rests
  BY <1>1 DEF CreateBatch, Rests, Terminal
<1>2. ASSUME NEW w \in Workers, Claim(w) PROVE Rests
  <2> PICK r \in Requests : OldestDue(r) /\ Record(r, Claimed(rows[r]))
    BY <1>2 DEF Claim
  <2>1. \A x \in Requests \ {r} : rows'[x] = rows[x]
    BY ClaimedRow, RecordStep DEF TypeOK
  <2>2. rows[r].status = "QUEUED"
    BY DEF OldestDue, Due
  <2> QED
    BY <2>1, <2>2 DEF Rests, Terminal
<1>3. ASSUME NEW w \in Workers, NEW release \in Releases, MarkFound(w, release) PROVE Rests
  <2>1. task[w].pc # "idle" /\ task[w].req \in Requests /\ raced' = raced
    BY <1>3, BusyTask DEF MarkFound, TypeOK
  <2>2. Found(rows[task[w].req]) \in Row
    BY <2>1, FoundRow DEF TypeOK
  <2> QED
    BY <1>3, <2>1, <2>2, WorkerRests DEF MarkFound
<1>4. ASSUME NEW w \in Workers, CreateTemp(w) \/ Rename(w) \/ LoseOutcome(w) \/ Abandon(w)
      PROVE  Rests
  BY <1>0, <1>4 DEF CreateTemp, Rename, LoseOutcome, Abandon
<1>5. ASSUME NEW w \in Workers, MarkDownloaded(w) PROVE Rests
  <2>1. /\ task[w].pc # "idle" /\ task[w].req \in Requests /\ raced' = raced
        /\ task[w].release \in Releases
    BY <1>5, BusyTask DEF MarkDownloaded, TypeOK
  <2>2. rows[task[w].req] \in Row /\ Filename(task[w].req, task[w].release) \in Paths
    BY <2>1, FilenameOwn DEF TypeOK
  <2>3. Downloaded(rows[task[w].req], Filename(task[w].req, task[w].release)) \in Row
    BY <2>2, DownloadedRow
  <2> QED
    BY <1>5, <2>1, <2>3, WorkerRests DEF MarkDownloaded
<1>6. ASSUME NEW w \in Workers, HandleError(w) PROVE Rests
  <2> PICK err \in ErrorsOf(task[w].pc) :
        Record(task[w].req, AfterError(rows[task[w].req], err, task[w].attempt))
    BY <1>6 DEF HandleError
  <2>1. task[w].pc # "idle" /\ raced' = raced
    BY <1>6 DEF HandleError, ErrorsOf
  <2>2. task[w].req \in Requests /\ task[w].attempt \in Nat
    BY <2>1, BusyTask DEF TypeOK
  <2>3. AfterError(rows[task[w].req], err, task[w].attempt) \in Row
    BY <2>2, AfterErrorRow DEF TypeOK
  <2> QED
    BY <2>1, <2>3, WorkerRests
<1>7. ASSUME NEW o \in Operators, BeginCall(o) \/ CheckRetry(o) PROVE Rests
  BY <1>0, <1>7, BeginCallStep DEF CheckRetry
<1>8. ASSUME NEW o \in Operators, WriteRetry(o) \/ WriteCancel(o) PROVE Rests
  <2>1. call[o].pc # "idle" /\ call'[o].pc = "idle"
    BY <1>8, EndCallStep DEF WriteRetry, WriteCancel, TypeOK
  <2> QED
    BY <2>1 DEF Rests
<1>9. ASSUME NEW o \in Operators, WriteDelete(o) PROVE Rests
  <2>1. call[o].req \in Requests /\ call[o].status \in {"QUEUED", "DUPLICATE"}
    BY <1>9, BusyCall DEF WriteDelete, TypeOK
  <2>2. call[o].pc = "delete" /\ call'[o].pc \in {"idle", "unlink"}
    BY <1>9, <2>1, AdvanceCall, PutStep, EndCallStep DEF WriteDelete, TypeOK
  <2> QED
    BY <2>2 DEF Rests
<1>10. ASSUME NEW o \in Operators, RemoveTorrentFile(o) \/ LoseCall(o) PROVE Rests
  BY <1>0, <1>10 DEF RemoveTorrentFile, LoseCall
<1>11. CASE Start
  BY <1>11, RequeuedRow DEF Start, TypeOK, Rests, InFlight, Terminal
<1>12. CASE Shutdown \/ Exit \/ Crash
  BY <1>0, <1>12 DEF Shutdown, Exit, Crash
<1>13. ASSUME NEW r \in Requests, RetryDue(r) PROVE Rests
  <2>1. \A x \in Requests : rows'[x].status = rows[x].status
    BY <1>13, RetryTimePassedRow, RecordStep DEF RetryDue, TypeOK
  <2> QED
    BY <2>1 DEF Rests
<1>14. ASSUME NEW path \in Paths, Consume(path) PROVE Rests
  BY <1>0, <1>14 DEF Consume
<1>15. CASE UNCHANGED vars
  BY <1>0, <1>15 DEF vars
<1> QED
  BY <1>1, <1>2, <1>3, <1>4, <1>5, <1>6, <1>7, <1>8, <1>9, <1>10, <1>11, <1>12, <1>13,
     <1>14, <1>15
  DEF Next, Submit, WorkerStep, OperatorStep

\* No worker and no restart takes a request out of a terminal status: its status changes
\* only in a step that ends a call of the operator, or after a race.
THEOREM OperatorEndsRest == Spec => TerminalRests
<1>1. TypeOK /\ DiskInv /\ WorkInv /\ [Next]_vars => [Rests]_vars
  BY RestsStep
<1> QED
  BY <1>1, WorkCorrect, PTL DEF Spec, TerminalRests

----------------------------------------------------------------------------
(* The life of a request.  A step of the queue is looked at request by     *)
(* request: Lives(r) is what RequestLifecycle allows one request.          *)

Lives(r) == Lifecycle!Step(r) \/ (Phase'[r] = Phase[r] /\ Tries'[r] = Tries[r])

\* What the mapping makes of a row nobody has overwritten in a race.
LEMMA PhaseOfRow ==
  ASSUME NEW r \in Requests
  PROVE  /\ r \notin raced => Phase[r] = PhaseOf(rows[r]) /\ Tries[r] = rows[r].attempt
         /\ r \in raced => Phase[r] = "void" /\ Tries[r] = 0
BY DEF Phase, Tries

LEMMA PhaseOfRowNext ==
  ASSUME NEW r \in Requests
  PROVE  /\ r \notin raced' => Phase'[r] = PhaseOf(rows'[r]) /\ Tries'[r] = rows'[r].attempt
         /\ r \in raced' => Phase'[r] = "void" /\ Tries'[r] = 0
BY DEF Phase, Tries

LEMMA Phases ==
  ASSUME NEW row \in Row
  PROVE  /\ row.status = "FRESH" => PhaseOf(row) = "none"
         /\ row.status = "QUEUED" => PhaseOf(row) = "waiting"
         /\ row.status \in InFlight => PhaseOf(row) = "working"
         /\ row.status = "DELETED" => PhaseOf(row) = "gone"
         /\ row.status \in Terminal => PhaseOf(row) = row.status
         /\ row.status \in Live \cup {"FRESH", "DELETED"}
BY DEF PhaseOf, Row, Live, InFlight, Terminal

\* A row that keeps its status and its count stays where it is.
LEMMA LivesOn ==
  ASSUME NEW r \in Requests, raced' = raced,
         rows'[r].status = rows[r].status, rows'[r].attempt = rows[r].attempt
  PROVE  Lives(r)
<1>1. PhaseOf(rows'[r]) = PhaseOf(rows[r])
  BY DEF PhaseOf
<1> QED
  BY <1>1, PhaseOfRow, PhaseOfRowNext DEF Lives

\* A request whose row was overwritten in a race stays void.
LEMMA LivesVoid ==
  ASSUME NEW r \in Requests, r \in raced, r \in raced'
  PROVE  Lives(r)
BY PhaseOfRow, PhaseOfRowNext DEF Lives

\* What is left to show of a step that writes the row of one request.
LEMMA LivesByStatus ==
  ASSUME NEW r \in Requests, r \notin raced, r \notin raced', rows[r] \in Row, rows'[r] \in Row,
         \/ /\ rows[r].status = "FRESH" /\ rows'[r].status \in {"QUEUED", "DUPLICATE"}
            /\ rows'[r].attempt = 0
         \/ /\ rows[r].status = "QUEUED" /\ rows'[r].status = "SEARCHING"
            /\ rows[r].attempt < MaxAttempts + MaxStops /\ rows'[r].attempt = rows[r].attempt + 1
         \/ /\ rows[r].status \in InFlight
            /\ rows'[r].status \in InFlight \cup {"QUEUED", "DOWNLOADED", "NOT_FOUND", "FAILED"}
            /\ rows'[r].attempt = rows[r].attempt
         \/ /\ rows[r].status = "QUEUED" /\ rows'[r].status = "CANCELLED"
            /\ rows'[r].attempt = rows[r].attempt
         \/ /\ rows[r].status \in Retryable /\ rows'[r].status \in {"QUEUED", "DUPLICATE"}
            /\ rows'[r].attempt = 0
         \/ /\ rows[r].status \in Live /\ rows'[r].status = "DELETED" /\ rows'[r].attempt = 0
  PROVE  Lives(r)
<1> DEFINE p == rows[r].status
           q == rows'[r].status
<1>1. /\ Phase[r] = PhaseOf(rows[r]) /\ Tries[r] = rows[r].attempt
      /\ Phase'[r] = PhaseOf(rows'[r]) /\ Tries'[r] = rows'[r].attempt
  BY PhaseOfRow, PhaseOfRowNext
<1>2. /\ p = "FRESH" => Phase[r] = "none"
      /\ p = "QUEUED" => Phase[r] = "waiting"
      /\ p \in InFlight => Phase[r] = "working"
      /\ p \in Terminal => Phase[r] = p
  BY <1>1, Phases
<1>3. /\ q = "QUEUED" => Phase'[r] = "waiting"
      /\ q \in InFlight => Phase'[r] = "working"
      /\ q = "DELETED" => Phase'[r] = "gone"
      /\ q \in Terminal => Phase'[r] = q
  BY <1>1, Phases
<1>4. Terminal = Lifecycle!AtRest /\ Retryable = Lifecycle!Revivable
  BY DEF Terminal, Retryable, Lifecycle!AtRest, Lifecycle!Revivable
<1>5. CASE p = "FRESH" /\ q \in {"QUEUED", "DUPLICATE"} /\ rows'[r].attempt = 0
  <2>1. Lifecycle!Order(r)
    BY <1>1, <1>2, <1>3, <1>5 DEF Lifecycle!Order, Lifecycle!Moves, Terminal
  <2> QED
    BY <2>1 DEF Lives, Lifecycle!Step
<1>6. CASE /\ p = "QUEUED" /\ q = "SEARCHING"
           /\ rows[r].attempt < MaxAttempts + MaxStops /\ rows'[r].attempt = rows[r].attempt + 1
  <2>1. Lifecycle!TakeUp(r)
    BY <1>1, <1>2, <1>3, <1>6 DEF Lifecycle!TakeUp, Lifecycle!Moves, InFlight
  <2> QED
    BY <2>1 DEF Lives, Lifecycle!Step
<1>7. CASE /\ p \in InFlight /\ q \in InFlight \cup {"QUEUED", "DOWNLOADED", "NOT_FOUND", "FAILED"}
           /\ rows'[r].attempt = rows[r].attempt
  <2>1. CASE q \in InFlight
    BY <1>1, <1>2, <1>3, <1>7, <2>1 DEF Lives
  <2>2. CASE q = "QUEUED"
    <3>1. Lifecycle!PutBack(r)
      BY <1>1, <1>2, <1>3, <1>7, <2>2 DEF Lifecycle!PutBack, Lifecycle!Moves
    <3> QED
      BY <3>1 DEF Lives, Lifecycle!Step
  <2>3. CASE q \in {"DOWNLOADED", "NOT_FOUND", "FAILED"}
    <3>1. Lifecycle!Finish(r)
      BY <1>1, <1>2, <1>3, <1>7, <2>3 DEF Lifecycle!Finish, Lifecycle!Moves, Terminal
    <3> QED
      BY <3>1 DEF Lives, Lifecycle!Step
  <2> QED
    BY <1>7, <2>1, <2>2, <2>3
<1>8. CASE p = "QUEUED" /\ q = "CANCELLED" /\ rows'[r].attempt = rows[r].attempt
  <2>1. Lifecycle!Cancel(r)
    BY <1>1, <1>2, <1>3, <1>8 DEF Lifecycle!Cancel, Lifecycle!Moves, Terminal
  <2> QED
    BY <2>1 DEF Lives, Lifecycle!Step
<1>9. CASE p \in Retryable /\ q \in {"QUEUED", "DUPLICATE"} /\ rows'[r].attempt = 0
  <2>1. Phase[r] \in Lifecycle!Revivable
    BY <1>2, <1>4, <1>9 DEF Retryable, Terminal
  <2>2. Lifecycle!Reorder(r)
    BY <1>1, <1>3, <1>9, <2>1 DEF Lifecycle!Reorder, Lifecycle!Moves, Terminal
  <2> QED
    BY <2>2 DEF Lives, Lifecycle!Step
<1>10. CASE p \in Live /\ q = "DELETED" /\ rows'[r].attempt = 0
  <2>1. Phase[r] \in {"waiting", "working"} \cup Lifecycle!AtRest
    BY <1>2, <1>4, <1>10 DEF Live
  <2>2. Lifecycle!Remove(r)
    BY <1>1, <1>3, <1>10, <2>1 DEF Lifecycle!Remove, Lifecycle!Moves
  <2> QED
    BY <2>2 DEF Lives, Lifecycle!Step
<1> QED
  BY <1>5, <1>6, <1>7, <1>8, <1>9, <1>10

\* A call that overwrites a row on an outdated check makes the request void.
LEMMA LivesOvertaken ==
  ASSUME NEW r \in Requests, r \notin raced, r \in raced', rows[r] \in Row, Exists(r)
  PROVE  Lives(r)
<1>1. Phase[r] = PhaseOf(rows[r]) /\ Phase'[r] = "void" /\ Tries'[r] = 0
  BY PhaseOfRow, PhaseOfRowNext
<1>2. Phase[r] \notin {"none", "gone"}
  BY <1>1, Phases DEF Exists, Live, Terminal
<1>3. Lifecycle!Overtake(r)
  BY <1>1, <1>2 DEF Lifecycle!Overtake, Lifecycle!Moves
<1> QED
  BY <1>3 DEF Lives, Lifecycle!Step

\* The budget of the mapping covers the restarts there can be.
StopsBounded == stops <= MaxStops

LEMMA StopsStep == TypeOK /\ StopsBounded /\ [Next]_vars => StopsBounded'
<1> SUFFICES ASSUME TypeOK, StopsBounded, [Next]_vars PROVE StopsBounded'
  OBVIOUS
<1>1. CASE Shutdown \/ Crash
  BY <1>1, QueueAssumption DEF Shutdown, Crash, StopsBounded, TypeOK, QueueAssumption
<1>2. ASSUME stops' = stops PROVE StopsBounded'
  BY <1>2 DEF StopsBounded
<1>3. CASE Submit \/ Start \/ Exit
  BY <1>2, <1>3 DEF Submit, CreateBatch, Start, Exit
<1>4. ASSUME NEW w \in Workers, WorkerStep(w) \/ LoseOutcome(w) PROVE StopsBounded'
  <2>1. CASE Claim(w) \/ CreateTemp(w) \/ Rename(w) \/ MarkDownloaded(w) \/ Abandon(w)
    BY <1>2, <2>1 DEF Claim, CreateTemp, Rename, MarkDownloaded, Abandon
  <2>2. CASE \E release \in Releases : MarkFound(w, release)
    BY <1>2, <2>2 DEF MarkFound
  <2>3. CASE HandleError(w) \/ LoseOutcome(w)
    BY <1>2, <2>3 DEF HandleError, LoseOutcome
  <2> QED
    BY <1>4, <2>1, <2>2, <2>3 DEF WorkerStep
<1>5. ASSUME NEW o \in Operators, BeginCall(o) \/ OperatorStep(o) \/ LoseCall(o) PROVE StopsBounded'
  <2>1. CASE BeginCall(o)
    BY <1>2, <2>1 DEF BeginCall, BeginRetry, BeginCancel, BeginDelete, Begin
  <2>2. CASE CheckRetry(o) \/ WriteRetry(o) \/ WriteCancel(o)
    BY <1>2, <2>2 DEF CheckRetry, WriteRetry, WriteCancel
  <2>3. CASE WriteDelete(o) \/ RemoveTorrentFile(o) \/ LoseCall(o)
    BY <1>2, <2>3 DEF WriteDelete, RemoveTorrentFile, LoseCall
  <2> QED
    BY <1>5, <2>1, <2>2, <2>3 DEF OperatorStep
<1>6. CASE (\E r \in Requests : RetryDue(r)) \/ (\E path \in Paths : Consume(path))
  BY <1>2, <1>6 DEF RetryDue, Consume
<1>7. CASE UNCHANGED vars
  BY <1>2, <1>7 DEF vars
<1> QED
  BY <1>1, <1>3, <1>4, <1>5, <1>6, <1>7 DEF Next

\* A worker that records an outcome finds its row in flight, gone, or overwritten in a race.
LEMMA LivesByWorker ==
  ASSUME TypeOK, TypeOK', WorkInv, NEW w \in Workers, task[w].pc # "idle", raced' = raced,
         NEW row \in Row, Record(task[w].req, row),
         row.status \in InFlight \cup {"QUEUED", "DOWNLOADED", "NOT_FOUND", "FAILED"},
         row.attempt = rows[task[w].req].attempt
  PROVE  \A x \in Requests : Lives(x)
<1> PICK r \in Requests : r = task[w].req
  BY BusyTask DEF TypeOK
<1>1. /\ \A x \in Requests \ {r} : rows'[x] = rows[x]
      /\ rows'[r] = IF Exists(r) THEN row ELSE rows[r]
  BY RecordStep DEF TypeOK
<1>2. \A x \in Requests \ {r} : Lives(x)
  BY <1>1, LivesOn
<1>3. CASE r \in raced
  BY <1>2, <1>3, LivesVoid
<1>4. CASE r \notin raced /\ Exists(r)
  <2>1. rows[r].status \in InFlight
    BY <1>4 DEF WorkInv, RowWork, Holds
  <2>2. Lives(r)
    BY <1>1, <1>4, <2>1, LivesByStatus DEF TypeOK
  <2> QED
    BY <1>2, <2>2
<1>5. CASE ~Exists(r)
  BY <1>1, <1>2, <1>5, LivesOn
<1> QED
  BY <1>3, <1>4, <1>5

\* A call writes a row it was allowed to write when it looked.
LEMMA LivesByCall ==
  ASSUME TypeOK, TypeOK', WorkInv, NEW o \in Operators, WriteRetry(o) \/ WriteCancel(o)
  PROVE  \A x \in Requests : Lives(x)
<1> DEFINE r == call[o].req
           row == IF call[o].pc = "retry"
                  THEN Reset(rows[r], call[o].status, call[o].query, call[o].force)
                  ELSE Closed(rows[r], "CANCELLED")
<1>1. /\ r \in Requests /\ call[o].status \in {"QUEUED", "DUPLICATE"}
      /\ call[o].query \in Queries \cup {None} /\ call[o].force \in BOOLEAN
      /\ call[o].pc \in {"retry", "cancel"}
  BY BusyCall DEF WriteRetry, WriteCancel, TypeOK
<1>2. rows[r] \in Row
  BY <1>1 DEF TypeOK
<1>3. /\ row \in Row
      /\ call[o].pc = "retry" => row.status \in {"QUEUED", "DUPLICATE"} /\ row.attempt = 0
      /\ call[o].pc = "cancel" => row.status = "CANCELLED" /\ row.attempt = rows[r].attempt
  <2>1. CASE call[o].pc = "retry"
    <3>1. row = Reset(rows[r], call[o].status, call[o].query, call[o].force)
      BY <2>1
    <3> QED
      BY <1>1, <1>2, <2>1, <3>1, ResetRow
  <2>2. CASE call[o].pc = "cancel"
    <3>1. row = Closed(rows[r], "CANCELLED") /\ "CANCELLED" \in Live
      BY <2>2 DEF Live, Terminal
    <3> QED
      BY <1>2, <2>2, <3>1, ClosedRow
  <2> QED
    BY <1>1, <2>1, <2>2
<1>4. Record(r, row) /\ raced' = IF Exists(r) /\ rows[r].status # call[o].seen THEN raced \cup {r} ELSE raced
  BY DEF WriteRetry, WriteCancel, NoteRace, Overtaken
<1>5. /\ call[o].pc = "retry" => call[o].seen \in Retryable
      /\ call[o].pc = "cancel" => call[o].seen = "QUEUED"
  BY DEF WorkInv, CallWork, Cancellable
<1> HIDE DEF row, r
<1>6. /\ \A x \in Requests \ {r} : rows'[x] = rows[x]
      /\ rows'[r] = IF Exists(r) THEN row ELSE rows[r]
  BY <1>1, <1>3, <1>4, RecordStep DEF TypeOK
<1>7. ASSUME NEW x \in Requests \ {r} PROVE Lives(x)
  <2>1. CASE x \in raced
    BY <1>4, <2>1, LivesVoid
  <2>2. CASE x \notin raced
    <3>1. x \notin raced'
      BY <1>4, <2>2
    <3>2. Phase'[x] = Phase[x] /\ Tries'[x] = Tries[x]
      BY <1>6, <2>2, <3>1, PhaseOfRow, PhaseOfRowNext
    <3> QED
      BY <3>2 DEF Lives
  <2> QED
    BY <2>1, <2>2
<1>8. Lives(r)
  <2>1. CASE r \in raced
    BY <1>1, <1>4, <2>1, LivesVoid
  <2>2. CASE r \notin raced /\ r \in raced'
    BY <1>1, <1>2, <1>4, <2>2, LivesOvertaken
  <2>3. CASE r \notin raced' /\ Exists(r)
    <3>1. r \notin raced /\ rows[r].status = call[o].seen
      BY <1>4, <2>3
    <3>2. rows'[r] = row
      BY <1>6, <2>3
    <3> QED
      BY <1>1, <1>2, <1>3, <1>5, <2>3, <3>1, <3>2, LivesByStatus
  <2>4. CASE r \notin raced' /\ ~Exists(r)
    <3>1. raced' = raced
      BY <1>4, <2>4
    <3> QED
      BY <1>1, <1>6, <2>4, <3>1, LivesOn
  <2> QED
    BY <2>1, <2>2, <2>3, <2>4
<1> QED
  BY <1>1, <1>7, <1>8

LEMMA LivesByDelete ==
  ASSUME TypeOK, TypeOK', NEW o \in Operators, WriteDelete(o)
  PROVE  \A x \in Requests : Lives(x)
<1> DEFINE r == call[o].req
<1>1. r \in Requests /\ Record(r, NoRow("DELETED")) /\ raced' = raced
  BY BusyCall DEF WriteDelete, TypeOK
<1>2. NoRow("DELETED") \in Row /\ NoRow("DELETED").status = "DELETED" /\ NoRow("DELETED").attempt = 0
  BY NoRowType DEF Statuses
<1> HIDE DEF r
<1>3. /\ \A x \in Requests \ {r} : rows'[x] = rows[x]
      /\ rows'[r] = IF Exists(r) THEN NoRow("DELETED") ELSE rows[r]
  BY <1>1, <1>2, RecordStep DEF TypeOK
<1>4. CASE r \in raced
  BY <1>1, <1>3, <1>4, LivesOn, LivesVoid
<1>5. CASE r \notin raced /\ Exists(r)
  <2>1. Lives(r)
    BY <1>1, <1>2, <1>3, <1>5, LivesByStatus DEF TypeOK, Exists
  <2> QED
    BY <1>1, <1>3, <2>1, LivesOn
<1>6. CASE ~Exists(r)
  BY <1>1, <1>3, <1>6, LivesOn
<1> QED
  BY <1>4, <1>5, <1>6

\* Whatever the queue does, each request takes a step of its life, or none.
LEMMA LifeStep ==
  TypeOK /\ DiskInv /\ WorkInv /\ StopsBounded /\ [Next]_vars => \A x \in Requests : Lives(x)
<1> SUFFICES ASSUME TypeOK, DiskInv, WorkInv, StopsBounded, [Next]_vars
             PROVE  \A x \in Requests : Lives(x)
  OBVIOUS
<1>0. TypeOK'
  BY TypeStep
<1>1. ASSUME UNCHANGED <<rows, raced>> PROVE \A x \in Requests : Lives(x)
  BY <1>1, LivesOn
<1>2. ASSUME NEW batch \in (SUBSET Requests) \ {{}}, NEW query \in [batch -> Queries],
             NEW force \in BOOLEAN, NEW tick \in {0, 1}, CreateBatch(batch, query, force, tick)
      PROVE  \A x \in Requests : Lives(x)
  <2>0. raced' = raced
    BY <1>2 DEF CreateBatch
  <2> TAKE x \in Requests
  <2>1. CASE x \in batch
    <3>1. rows[x].status = "FRESH"
      BY <1>2, <2>1 DEF CreateBatch
    <3>2. rows'[x].status \in {"QUEUED", "DUPLICATE"} /\ rows'[x].attempt = 0
      BY <1>2, <2>1, AdmitStatusType DEF CreateBatch, NewRow
    <3> QED
      BY <1>0, <2>0, <3>1, <3>2, LivesByStatus, LivesVoid DEF TypeOK
  <2>2. CASE x \notin batch
    <3>1. rows'[x] = rows[x]
      BY <1>2, <2>2 DEF CreateBatch
    <3> QED
      BY <2>0, <3>1, LivesOn
  <2> QED
    BY <2>1, <2>2
<1>3. ASSUME NEW w \in Workers, Claim(w) PROVE \A x \in Requests : Lives(x)
  <2> PICK r \in Requests : OldestDue(r) /\ Record(r, Claimed(rows[r]))
    BY <1>3 DEF Claim
  <2>1. /\ \A x \in Requests \ {r} : rows'[x] = rows[x]
        /\ rows[r].status = "QUEUED"
        /\ rows'[r].status = "SEARCHING" /\ rows'[r].attempt = rows[r].attempt + 1
    BY ClaimedRow, RecordStep DEF TypeOK, OldestDue, Due, Exists, Live
  <2>2. raced' = raced
    BY <1>3 DEF Claim
  <2>3. Lives(r)
    <3>1. CASE r \in raced
      BY <2>2, <3>1, LivesVoid
    <3>2. CASE r \notin raced
      <4>1. rows[r].attempt < MaxAttempts + stops
        BY <2>1, <3>2 DEF WorkInv, RowWork
      <4>2. /\ rows[r].attempt \in Nat /\ stops \in Nat /\ stops <= MaxStops
            /\ MaxAttempts \in Nat /\ MaxStops \in Nat
        BY QueueAssumption DEF TypeOK, Row, StopsBounded, QueueAssumption
      <4>3. rows[r].attempt < MaxAttempts + MaxStops
        BY <4>1, <4>2
      <4> QED
        BY <1>0, <2>1, <2>2, <3>2, <4>3, LivesByStatus DEF TypeOK
    <3> QED
      BY <3>1, <3>2
  <2> QED
    BY <2>1, <2>2, <2>3, LivesOn
<1>4. ASSUME NEW w \in Workers, NEW release \in Releases, MarkFound(w, release)
      PROVE  \A x \in Requests : Lives(x)
  <2>1. task[w].pc # "idle" /\ task[w].req \in Requests /\ raced' = raced
    BY <1>4, BusyTask DEF MarkFound, TypeOK
  <2>2. /\ Found(rows[task[w].req]) \in Row /\ Found(rows[task[w].req]).status = "FOUND"
        /\ Found(rows[task[w].req]).attempt = rows[task[w].req].attempt
    BY <2>1, FoundRow DEF TypeOK
  <2> QED
    BY <1>0, <1>4, <2>1, <2>2, LivesByWorker DEF MarkFound, InFlight
<1>5. ASSUME NEW w \in Workers, CreateTemp(w) \/ Rename(w) \/ LoseOutcome(w) \/ Abandon(w)
      PROVE  \A x \in Requests : Lives(x)
  BY <1>1, <1>5 DEF CreateTemp, Rename, LoseOutcome, Abandon
<1>6. ASSUME NEW w \in Workers, MarkDownloaded(w) PROVE \A x \in Requests : Lives(x)
  <2> DEFINE row == Downloaded(rows[task[w].req], Filename(task[w].req, task[w].release))
  <2>1. /\ task[w].pc # "idle" /\ task[w].req \in Requests /\ raced' = raced
        /\ task[w].release \in Releases /\ Record(task[w].req, row)
    BY <1>6, BusyTask DEF MarkDownloaded, TypeOK
  <2>2. rows[task[w].req] \in Row /\ Filename(task[w].req, task[w].release) \in Paths
    BY <2>1, FilenameOwn DEF TypeOK
  <2>3. row \in Row /\ row.status = "DOWNLOADED" /\ row.attempt = rows[task[w].req].attempt
    BY <2>2, DownloadedRow
  <2> HIDE DEF row
  <2> QED
    BY <1>0, <2>1, <2>3, LivesByWorker
<1>7. ASSUME NEW w \in Workers, HandleError(w) PROVE \A x \in Requests : Lives(x)
  <2> PICK err \in ErrorsOf(task[w].pc) :
        Record(task[w].req, AfterError(rows[task[w].req], err, task[w].attempt))
    BY <1>7 DEF HandleError
  <2> DEFINE row == AfterError(rows[task[w].req], err, task[w].attempt)
  <2>1. task[w].pc # "idle" /\ raced' = raced /\ Record(task[w].req, row)
    BY <1>7 DEF HandleError, ErrorsOf
  <2>2. rows[task[w].req] \in Row
    BY <2>1, BusyTask DEF TypeOK
  <2>3. /\ row \in Row /\ row.status \in {"NOT_FOUND", "FAILED", "QUEUED"}
        /\ row.attempt = rows[task[w].req].attempt
    BY <2>2, AfterErrorRow
  <2> HIDE DEF row
  <2> QED
    BY <1>0, <2>1, <2>3, LivesByWorker
<1>8. ASSUME NEW o \in Operators, BeginCall(o) \/ CheckRetry(o) PROVE \A x \in Requests : Lives(x)
  <2>1. CASE BeginCall(o)
    BY <1>1, <2>1 DEF BeginCall, BeginRetry, BeginCancel, BeginDelete, Begin
  <2>2. CASE CheckRetry(o)
    BY <1>1, <2>2 DEF CheckRetry
  <2> QED
    BY <1>8, <2>1, <2>2
<1>9. ASSUME NEW o \in Operators, RemoveTorrentFile(o) \/ LoseCall(o)
      PROVE  \A x \in Requests : Lives(x)
  BY <1>1, <1>9 DEF RemoveTorrentFile, LoseCall
<1>10. CASE Start
  <2>1. raced' = raced /\ \A r \in Requests : rows'[r] = Requeued(rows[r])
    BY <1>10 DEF Start
  <2> TAKE x \in Requests
  <2>2. /\ rows[x] \in Row /\ rows'[x] \in Row /\ rows'[x].attempt = rows[x].attempt
        /\ rows'[x].status = IF rows[x].status \in InFlight THEN "QUEUED" ELSE rows[x].status
    BY <2>1, RequeuedRow DEF TypeOK
  <2>3. CASE rows[x].status \in InFlight
    BY <2>1, <2>2, <2>3, LivesByStatus, LivesVoid
  <2>4. CASE rows[x].status \notin InFlight
    BY <2>1, <2>2, <2>4, LivesOn
  <2> QED
    BY <2>3, <2>4
<1>11. CASE Shutdown \/ Exit \/ Crash
  BY <1>1, <1>11 DEF Shutdown, Exit, Crash
<1>12. ASSUME NEW r \in Requests, RetryDue(r) PROVE \A x \in Requests : Lives(x)
  <2>1. /\ raced' = raced
        /\ \A x \in Requests : rows'[x].status = rows[x].status /\ rows'[x].attempt = rows[x].attempt
    BY <1>12, RetryTimePassedRow, RecordStep DEF RetryDue, TypeOK
  <2> QED
    BY <2>1, LivesOn
<1>13. ASSUME NEW path \in Paths, Consume(path) PROVE \A x \in Requests : Lives(x)
  BY <1>1, <1>13 DEF Consume
<1>14. CASE UNCHANGED vars
  BY <1>1, <1>14 DEF vars
<1> QED
  BY <1>2, <1>3, <1>4, <1>5, <1>6, <1>7, <1>8, <1>9, <1>10, <1>11, <1>12, <1>13, <1>14,
     <1>0, LivesByCall, LivesByDelete
  DEF Next, Submit, WorkerStep, OperatorStep

\* The queue, with its workers, calls, races, crashes and restarts, keeps for each request
\* what RequestLifecycle promises: the order of its statuses and a bound on its attempts.
THEOREM QueueImplementsLifecycle == Spec => ImplementsLifecycle
<1>1. Init => StopsBounded
  BY QueueAssumption DEF Init, StopsBounded, QueueAssumption
<1>2. Init => Lifecycle!Init
  <2> SUFFICES ASSUME Init PROVE Lifecycle!Init
    OBVIOUS
  <2>1. \A r \in Requests : rows[r].status = "FRESH" /\ rows[r].attempt = 0 /\ r \notin raced
    BY NoRowType DEF Init, Statuses
  <2>2. \A r \in Requests : PhaseOf(rows[r]) = "none"
    BY <2>1, TypeInit, Phases DEF TypeOK
  <2> QED
    BY <2>1, <2>2 DEF Lifecycle!Init, Phase, Tries
<1>3. TypeOK /\ DiskInv /\ WorkInv /\ StopsBounded /\ [Next]_vars => [Lifecycle!Next]_(Lifecycle!vars)
  <2> SUFFICES ASSUME TypeOK, DiskInv, WorkInv, StopsBounded, [Next]_vars PROVE Lifecycle!Next
    OBVIOUS
  <2>1. \A x \in Requests : Lives(x)
    BY LifeStep
  <2> QED
    BY <2>1 DEF Lifecycle!Next, Lives
<1> QED
  BY <1>1, <1>2, <1>3, WorkCorrect, StopsStep, PTL DEF Spec, ImplementsLifecycle, Lifecycle!Spec

=============================================================================
