---------------------------- MODULE RequestQueue ----------------------------
(***************************************************************************)
(* The queue of movie requests: the SQLite table "requests", the worker    *)
(* pool that drains it, the operator's HTTP calls on its rows, and the     *)
(* directory the .torrent files are saved in.                              *)
(*                                                                         *)
(* The store has one connection (storage/store.go), so a statement, or a   *)
(* transaction, is one atomic step.  What is NOT atomic is anything longer:*)
(* Retry, Cancel and Delete read the row in one statement and write it in  *)
(* another, and a worker holds a copy of its row across a search and a     *)
(* download.  Each such statement is a step of its own here.               *)
(***************************************************************************)
EXTENDS Naturals, FiniteSets

CONSTANTS
  Requests,        \* the ids storage.NewID can draw; an id is drawn once
  Workers,         \* the goroutines of the pool (WORKERS)
  Operators,       \* HTTP calls that can be in progress at a time
  Queries,         \* normalized search queries
  Releases,        \* releases the trackers may offer for a request
  None,            \* no request, no query, no release
  DuplicateCheck,  \* DUPLICATE_CHECK_ENABLED
  Watched,         \* whether a download client watches TORRENT_FILES_DIR
  MaxAttempts,     \* RETRY_MAX_ATTEMPTS
  MaxCalls,        \* bound on the operator's calls
  MaxStops,        \* bound on crashes and shutdowns
  MaxFaults        \* bound on failed writes to the database or the disk

ASSUME QueueAssumption ==
  /\ IsFiniteSet(Workers)
  /\ None \notin Requests \cup Queries \cup Releases
  /\ DuplicateCheck \in BOOLEAN /\ Watched \in BOOLEAN
  /\ MaxAttempts \in Nat \ {0}
  /\ MaxCalls \in Nat /\ MaxStops \in Nat /\ MaxFaults \in Nat

VARIABLES
  mode,    \* the process: "down", "running", or "stopping" once ctx is cancelled
  rows,    \* the table: request id -> row
  clock,   \* the second the latest batch was created in
  task,    \* what each worker is doing
  call,    \* what each operator's HTTP call is doing
  files,   \* the .torrent files in TORRENT_FILES_DIR
  taken,   \* the files a download client has moved out of the directory
  litter,  \* temporary files left behind by a process that died
  raced,   \* history: rows written by a call whose check no longer held
  calls,   \* operator calls made so far
  stops,   \* crashes and shutdowns so far
  faults   \* failed writes so far

vars == <<mode, rows, clock, task, call, files, taken, litter, raced, calls, stops, faults>>

----------------------------------------------------------------------------
(* Rows. *)

InFlight == {"SEARCHING", "FOUND"}
Terminal == {"DOWNLOADED", "NOT_FOUND", "FAILED", "DUPLICATE", "CANCELLED"}
\* Fault, for mutation: a request may be cancelled while it is being searched.
CancellableWhileSearching == {"QUEUED", "SEARCHING"}
Cancellable == {"QUEUED"}            \* and NEW, which no code path assigns
Retryable == {"FAILED", "NOT_FOUND", "CANCELLED", "DUPLICATE"}
Live == {"QUEUED"} \cup InFlight \cup Terminal

\* Faults, for mutation: the parts of the name swapped; a name without the id.
FilenameSwapped(r, release) == <<release, r>>
FilenameWithoutId(r, release) == <<None, release>>

\* The file name ends in the request id.
Filename(r, release) == <<r, release>>
Paths == Requests \X Releases
NoPath == <<>>

\* next stands for next_attempt_at: NULL, in the future, or in the past.
Row == [status : Live \cup {"FRESH", "DELETED"}, attempt : Nat,
        next : {"null", "future", "past"}, force : BOOLEAN,
        query : Queries \cup {None}, path : Paths \cup {NoPath}, created : Nat]

NewRow(status, force, query, created) ==
  [status |-> status, attempt |-> 0, next |-> "null", force |-> force,
   query |-> query, path |-> NoPath, created |-> created]

NoRow(status) == NewRow(status, FALSE, None, 0)

Exists(r) == rows[r].status \in Live

\* Another request with this query has been downloaded.
DuplicateOf(query, r) ==
  \E x \in Requests \ {r} : rows[x].status = "DOWNLOADED" /\ rows[x].query = query

AdmitStatus(query, force, r) ==
  IF DuplicateCheck /\ ~force /\ DuplicateOf(query, r) THEN "DUPLICATE" ELSE "QUEUED"

(* The UPDATE statements of store.go, as functions of the row they change. *)

Claimed(row) == [row EXCEPT !.status = "SEARCHING", !.attempt = @ + 1]
Found(row) == [row EXCEPT !.status = "FOUND"]
Downloaded(row, path) == [row EXCEPT !.status = "DOWNLOADED", !.next = "null", !.path = path]
\* next_attempt_at becomes NULL: MarkNotFound, MarkFailed, Cancel, RequeueInFlight.
Closed(row, status) == [row EXCEPT !.status = status, !.next = "null"]
Rescheduled(row) == [row EXCEPT !.status = "QUEUED", !.next = "future"]
Reset(row, status, query, force) ==
  [row EXCEPT !.status = status, !.query = query, !.force = force,
              !.attempt = 0, !.next = "null"]
RetryTimePassed(row) == [row EXCEPT !.next = "past"]

\* An UPDATE or DELETE ... WHERE id = ? has no effect, and reports ErrNotFound,
\* when the row is gone.
Record(r, row) == IF Exists(r) THEN rows' = [rows EXCEPT ![r] = row] ELSE UNCHANGED rows

----------------------------------------------------------------------------
(* Workers and calls. *)

Idle == [pc |-> "idle", req |-> None, attempt |-> 0, release |-> None]
Task ==
  {Idle}
  \cup [pc : {"search"}, req : Requests, attempt : Nat, release : {None}]
  \cup [pc : {"fetch", "temp", "saved"}, req : Requests, attempt : Nat, release : Releases]

\* A call keeps what it read of the row and what it is going to write.
Quiet == [pc |-> "idle", req |-> None, seen |-> "FRESH", path |-> NoPath,
          query |-> None, force |-> FALSE, status |-> "QUEUED"]
Call ==
  {Quiet}
  \cup [pc : {"check", "retry", "cancel", "delete", "unlink"}, req : Requests,
        seen : Live, path : Paths \cup {NoPath}, query : Queries \cup {None},
        force : BOOLEAN, status : {"QUEUED", "DUPLICATE"}]

Holds(w, r) == task[w].pc # "idle" /\ task[w].req = r

Init ==
  /\ mode = "down"
  /\ rows = [r \in Requests |-> NoRow("FRESH")]
  /\ clock = 0
  /\ task = [w \in Workers |-> Idle]
  /\ call = [o \in Operators |-> Quiet]
  /\ files = {} /\ taken = {} /\ litter = 0 /\ raced = {}
  /\ calls = 0 /\ stops = 0 /\ faults = 0

----------------------------------------------------------------------------
(* Submission: CreateBatch, and CreateTraktRequests for the same rows.     *)
(* A web batch never repeats a query; a watchlist may.  All rows of a      *)
(* batch share one created_at, which is in whole seconds, so two batches   *)
(* may share one as well.                                                  *)

CreateBatch(batch, query, force, tick) ==
  /\ mode # "down"
  /\ \A r \in batch : rows[r].status = "FRESH"
  /\ clock' = clock + tick
  /\ rows' = [r \in Requests |->
       IF r \in batch
       THEN NewRow(AdmitStatus(query[r], force, r), force, query[r], clock + tick)
       ELSE rows[r]]
  /\ UNCHANGED <<mode, task, call, files, taken, litter, raced, calls, stops, faults>>

Submit ==
  \E batch \in (SUBSET Requests) \ {{}}, force \in BOOLEAN, tick \in {0, 1} :
    \E query \in [batch -> Queries] : CreateBatch(batch, query, force, tick)

----------------------------------------------------------------------------
(* The worker.  A step that follows a long wait (a search, a download)     *)
(* together with the one statement that records its outcome is one action. *)

\* Fault, for mutation: ClaimNext takes only rows without a next_attempt_at.
DueOnlyIfUnscheduled(r) == rows[r].status = "QUEUED" /\ rows[r].next = "null"

Due(r) == rows[r].status = "QUEUED" /\ rows[r].next # "future"

OldestDue(r) == Due(r) /\ \A x \in Requests : Due(x) => rows[r].created <= rows[x].created

Move(w, pc, r, attempt, release) ==
  task' = [task EXCEPT ![w] = [pc |-> pc, req |-> r, attempt |-> attempt, release |-> release]]

Drop(w) == task' = [task EXCEPT ![w] = Idle]

\* ClaimNext: the worker's copy carries the incremented attempt_count.
Claim(w) ==
  /\ mode = "running" /\ task[w].pc = "idle"
  /\ \E r \in Requests :
       /\ OldestDue(r)
       /\ Record(r, Claimed(rows[r]))
       /\ Move(w, "search", r, rows[r].attempt + 1, None)
  /\ UNCHANGED <<mode, clock, call, files, taken, litter, raced, calls, stops, faults>>

\* The search chose a release; MarkFound is not conditional on the status.
MarkFound(w, release) ==
  LET r == task[w].req IN
  /\ mode = "running" /\ task[w].pc = "search"
  /\ Record(r, Found(rows[r]))
  /\ IF Exists(r)
     THEN Move(w, "fetch", r, task[w].attempt, release)
     ELSE Drop(w)
  /\ UNCHANGED <<mode, clock, call, files, taken, litter, raced, calls, stops, faults>>

\* Download, first half: the content has arrived and the temporary file exists.
CreateTemp(w) ==
  /\ mode # "down" /\ task[w].pc = "fetch"
  /\ Move(w, "temp", task[w].req, task[w].attempt, task[w].release)
  /\ UNCHANGED <<mode, rows, clock, call, files, taken, litter, raced, calls, stops, faults>>

\* Download, second half: written, synced and renamed into place.  Neither half
\* looks at the context once the content is in memory.
Rename(w) ==
  LET path == Filename(task[w].req, task[w].release) IN
  /\ mode # "down" /\ task[w].pc = "temp"
  /\ Move(w, "saved", task[w].req, task[w].attempt, task[w].release)
  /\ files' = files \cup {path}
  /\ taken' = taken \ {path}
  /\ UNCHANGED <<mode, rows, clock, call, litter, raced, calls, stops, faults>>

MarkDownloaded(w) ==
  LET r == task[w].req IN
  /\ mode = "running" /\ task[w].pc = "saved"
  /\ Record(r, Downloaded(rows[r], Filename(r, task[w].release)))
  /\ Drop(w)
  /\ UNCHANGED <<mode, clock, call, files, taken, litter, raced, calls, stops, faults>>

\* The errors each stage of process can end in.  A failed write of the temporary
\* file is a plain error, hence permanent; the deferred Remove deletes the file.
ErrorsOf(pc) ==
  CASE pc = "search" -> {"no_results", "permanent", "transient"}
    [] pc = "fetch" -> {"permanent", "transient"}
    [] pc = "temp" -> {"permanent"}
    [] OTHER -> {}

\* Fault, for mutation: one attempt too many.
ExhaustedLate(attempt) == attempt > MaxAttempts

Exhausted(attempt) == attempt >= MaxAttempts

\* handleError: MarkNotFound, MarkFailed or ScheduleRetry, decided on the
\* worker's copy of attempt_count.
AfterError(row, err, attempt) ==
  IF err = "no_results" THEN Closed(row, "NOT_FOUND")
  ELSE IF err = "permanent" \/ Exhausted(attempt) THEN Closed(row, "FAILED")
  ELSE Rescheduled(row)

HandleError(w) ==
  LET r == task[w].req IN
  /\ mode = "running"
  /\ \E err \in ErrorsOf(task[w].pc) : Record(r, AfterError(rows[r], err, task[w].attempt))
  /\ Drop(w)
  /\ UNCHANGED <<mode, clock, call, files, taken, litter, raced, calls, stops, faults>>

\* The statement that should record an outcome fails: it is logged, and the
\* worker moves on to the next request.
LoseOutcome(w) ==
  /\ mode = "running" /\ task[w].pc # "idle"
  /\ faults < MaxFaults
  /\ faults' = faults + 1
  /\ Drop(w)
  /\ UNCHANGED <<mode, rows, clock, call, files, taken, litter, raced, calls, stops>>

\* ctx is cancelled: searches, fetches and statements fail, handleError leaves the row.
Abandon(w) ==
  /\ mode = "stopping" /\ task[w].pc # "idle"
  /\ Drop(w)
  /\ UNCHANGED <<mode, rows, clock, call, files, taken, litter, raced, calls, stops, faults>>

WorkerStep(w) ==
  \/ Claim(w)
  \/ \E release \in Releases : MarkFound(w, release)
  \/ CreateTemp(w)
  \/ Rename(w)
  \/ MarkDownloaded(w)
  \/ HandleError(w)
  \/ Abandon(w)

----------------------------------------------------------------------------
(* The operator's calls: handleRetry, handleCancel, handleDelete, and the  *)
(* items of handleBatchAction one after the other.  The first step is the  *)
(* Get; a row that is gone or in the wrong status ends the call there.     *)

Advance(c, pc, status) == [c EXCEPT !.pc = pc, !.status = status]

Put(o, c) == call' = [call EXCEPT ![o] = c]

EndCall(o) == Put(o, Quiet)

Begin(o, r, pc, query, force) ==
  /\ mode # "down" /\ call[o].pc = "idle" /\ calls < MaxCalls
  /\ calls' = calls + 1
  /\ Put(o, [pc |-> pc, req |-> r, seen |-> rows[r].status, path |-> rows[r].path,
             query |-> query, force |-> force, status |-> "QUEUED"])
  /\ UNCHANGED <<mode, rows, clock, task, files, taken, litter, raced, stops, faults>>

\* edit is the replacement query of the NOT_FOUND edit flow, or None.
BeginRetry(o, r, edit, force) ==
  /\ rows[r].status \in Retryable
  /\ Begin(o, r, "check", IF edit = None THEN rows[r].query ELSE edit,
           IF force THEN TRUE ELSE rows[r].force)

BeginCancel(o, r) ==
  /\ rows[r].status \in Cancellable
  /\ Begin(o, r, "cancel", rows[r].query, rows[r].force)

BeginDelete(o, r) ==
  /\ Exists(r)
  /\ Begin(o, r, "delete", rows[r].query, rows[r].force)

\* Retry's duplicate lookup, a statement of its own.
CheckRetry(o) ==
  LET c == call[o] IN
  /\ c.pc = "check"
  /\ Put(o, Advance(c, "retry", AdmitStatus(c.query, c.force, c.req)))
  /\ UNCHANGED <<mode, rows, clock, task, files, taken, litter, raced, calls, stops, faults>>

\* The status the call was allowed on has changed since its Get.
Overtaken(c) == Exists(c.req) /\ rows[c.req].status # c.seen

NoteRace(c) == raced' = IF Overtaken(c) THEN raced \cup {c.req} ELSE raced

WriteRetry(o) ==
  LET c == call[o] IN
  /\ c.pc = "retry"
  /\ Record(c.req, Reset(rows[c.req], c.status, c.query, c.force))
  /\ NoteRace(c)
  /\ EndCall(o)
  /\ UNCHANGED <<mode, clock, task, files, taken, litter, calls, stops, faults>>

WriteCancel(o) ==
  LET c == call[o] IN
  /\ c.pc = "cancel"
  /\ Record(c.req, Closed(rows[c.req], "CANCELLED"))
  /\ NoteRace(c)
  /\ EndCall(o)
  /\ UNCHANGED <<mode, clock, task, files, taken, litter, calls, stops, faults>>

\* DELETE FROM requests; the path comes from the Get, not from the DELETE.
WriteDelete(o) ==
  LET c == call[o] IN
  /\ c.pc = "delete"
  /\ Record(c.req, NoRow("DELETED"))
  /\ IF Exists(c.req) /\ c.path # NoPath
     THEN Put(o, Advance(c, "unlink", c.status))
     ELSE EndCall(o)
  /\ UNCHANGED <<mode, clock, task, files, taken, litter, raced, calls, stops, faults>>

\* removeTorrentFile: a file that is gone already is not an error.
RemoveTorrentFile(o) ==
  /\ call[o].pc = "unlink"
  /\ files' = files \ {call[o].path}
  /\ EndCall(o)
  /\ UNCHANGED <<mode, rows, clock, task, taken, litter, raced, calls, stops, faults>>

\* A statement fails, or the client goes away and the request context with it:
\* the call ends where it is.  The unlink needs no context but may fail too.
LoseCall(o) ==
  /\ call[o].pc # "idle"
  /\ IF call[o].pc = "unlink"
     THEN faults < MaxFaults /\ faults' = faults + 1
     ELSE UNCHANGED faults
  /\ EndCall(o)
  /\ UNCHANGED <<mode, rows, clock, task, files, taken, litter, raced, calls, stops>>

OperatorStep(o) ==
  \/ CheckRetry(o)
  \/ WriteRetry(o)
  \/ WriteCancel(o)
  \/ WriteDelete(o)
  \/ RemoveTorrentFile(o)

BeginCall(o) ==
  \E r \in Requests :
    \/ \E edit \in Queries \cup {None}, force \in BOOLEAN : BeginRetry(o, r, edit, force)
    \/ BeginCancel(o, r)
    \/ BeginDelete(o, r)

----------------------------------------------------------------------------
(* The process and its surroundings. *)

\* Faults, for mutation: FOUND forgotten; FAILED taken along.
RequeuedSearching(row) == IF row.status = "SEARCHING" THEN Closed(row, "QUEUED") ELSE row
RequeuedFailed(row) ==
  IF row.status \in InFlight \cup {"FAILED"} THEN Closed(row, "QUEUED") ELSE row

\* RequeueInFlight keeps attempt_count.
Requeued(row) == IF row.status \in InFlight THEN Closed(row, "QUEUED") ELSE row

\* Fault, for mutation: the temporary files are not cleaned up.
StartWithoutCleaning ==
  /\ mode = "down"
  /\ mode' = "running"
  /\ rows' = [r \in Requests |-> Requeued(rows[r])]
  /\ UNCHANGED <<clock, task, call, files, taken, litter, raced, calls, stops, faults>>

\* Start-up: Recover (RequeueInFlight, then cleanTempFiles), then Start.
Start ==
  /\ mode = "down"
  /\ mode' = "running"
  /\ rows' = [r \in Requests |-> Requeued(rows[r])]
  /\ \/ litter' = 0 /\ UNCHANGED faults
     \/ faults < MaxFaults /\ faults' = faults + 1 /\ UNCHANGED litter
  /\ UNCHANGED <<clock, task, call, files, taken, raced, calls, stops>>

\* SIGTERM cancels the context.
Shutdown ==
  /\ mode = "running" /\ stops < MaxStops
  /\ mode' = "stopping"
  /\ stops' = stops + 1
  /\ UNCHANGED <<rows, clock, task, call, files, taken, litter, raced, calls, faults>>

\* The pool has stopped; calls still open after the grace period end with the process.
Exit ==
  /\ mode = "stopping"
  /\ \A w \in Workers : task[w].pc = "idle"
  /\ mode' = "down"
  /\ call' = [o \in Operators |-> Quiet]
  /\ UNCHANGED <<rows, clock, task, files, taken, litter, raced, calls, stops, faults>>

Crash ==
  /\ mode # "down" /\ stops < MaxStops
  /\ mode' = "down"
  /\ stops' = stops + 1
  /\ litter' = litter + Cardinality({w \in Workers : task[w].pc = "temp"})
  /\ task' = [w \in Workers |-> Idle]
  /\ call' = [o \in Operators |-> Quiet]
  /\ UNCHANGED <<rows, clock, files, taken, raced, calls, faults>>

\* The time in next_attempt_at passes, whether or not the process is up.
RetryDue(r) ==
  /\ rows[r].status = "QUEUED" /\ rows[r].next = "future"
  /\ Record(r, RetryTimePassed(rows[r]))
  /\ UNCHANGED <<mode, clock, task, call, files, taken, litter, raced, calls, stops, faults>>

\* A download client that watches the directory picks a file up.
Consume(path) ==
  /\ Watched /\ path \in files
  /\ files' = files \ {path}
  /\ taken' = taken \cup {path}
  /\ UNCHANGED <<mode, rows, clock, task, call, litter, raced, calls, stops, faults>>

Next ==
  \/ Submit
  \/ \E w \in Workers : WorkerStep(w) \/ LoseOutcome(w)
  \/ \E o \in Operators : BeginCall(o) \/ OperatorStep(o) \/ LoseCall(o)
  \/ Start \/ Shutdown \/ Exit \/ Crash
  \/ \E r \in Requests : RetryDue(r)
  \/ \E path \in Paths : Consume(path)

Spec == Init /\ [][Next]_vars

(***************************************************************************)
(* Every attempt ends, because process bounds it with a timeout; an idle   *)
(* worker polls every two seconds even if no Notify reaches it; a handler  *)
(* runs to its end; the clock advances; and the container is restarted     *)
(* (restart: unless-stopped).  Nothing obliges an operator, a download     *)
(* client, a signal or a fault to come.                                    *)
(***************************************************************************)
Fairness ==
  /\ \A w \in Workers : WF_vars(WorkerStep(w))
  /\ \A o \in Operators : WF_vars(OperatorStep(o))
  /\ \A r \in Requests : WF_vars(RetryDue(r))
  /\ WF_vars(Start) /\ WF_vars(Exit)

FairSpec == Spec /\ Fairness

----------------------------------------------------------------------------
(* Properties. *)

\* Every variable keeps its type: the columns of storage/store.go's schema,
\* the local variables of process and of the handlers.
TypeOK ==
  /\ mode \in {"down", "running", "stopping"}
  /\ rows \in [Requests -> Row]
  /\ clock \in Nat
  /\ task \in [Workers -> Task]
  /\ call \in [Operators -> Call]
  /\ files \subseteq Paths /\ taken \subseteq Paths
  /\ litter \in Nat
  /\ raced \subseteq Requests
  /\ calls \in Nat /\ stops \in Nat /\ faults \in Nat

\* A DOWNLOADED row names a file that is in the directory, unless a download
\* client took it (model.go: "terminal: the .torrent file is on disk").  In
\* particular deleting one request never removes the file of another
\* (media.go, Filename), whatever the interleaving of calls and workers.
DownloadedOnDisk ==
  \A r \in Requests :
    rows[r].status = "DOWNLOADED" => rows[r].path \in files \cup taken

\* While the process runs and no write has failed, a row in SEARCHING or FOUND is
\* in the hands of a worker: no request is left in a status ClaimNext passes
\* over (worker.go, Recover; model.go: FOUND is "never a resting state").
NoStrandedRequest ==
  mode = "running" /\ faults = 0 =>
    \A r \in Requests : rows[r].status \in InFlight => \E w \in Workers : Holds(w, r)

\* A request whose row no call has overwritten on an outdated check is worked on by
\* at most one worker, and only while it is SEARCHING or FOUND: the atomic
\* claim of ClaimNext with the status checks of Retry and Cancel.
OneWorkerPerRequest ==
  \A r \in Requests \ raced, w \in Workers :
    Exists(r) /\ Holds(w, r) =>
      /\ rows[r].status \in InFlight
      /\ \A v \in Workers : Holds(v, r) => v = w

\* A request is attempted at most MaxAttempts times between two orders of the
\* operator, plus once for each restart, which re-queues a row in flight with
\* the count it had (handleError, RequeueInFlight).
AttemptBudget ==
  \A r \in Requests \ raced : rows[r].attempt <= MaxAttempts + stops

\* No temporary file outlives a restart whose clean-up succeeded, and none is
\* left behind by a download that ended in an error (Download, cleanTempFiles).
NoLitter == mode = "running" /\ faults = 0 => litter = 0

\* The status of a row nobody wrote in a race leaves Terminal only with a call.
Rests ==
  \A r \in Requests \ raced' :
    rows[r].status \in Terminal /\ rows'[r].status # rows[r].status => call' # call

\* A terminal status is left only by a call of the operator: neither a worker nor a
\* restart picks the request up again (model.go, Terminal), unless a call had
\* overwritten the row on an outdated check.
TerminalRests == [][Rests]_vars

\* Every queued request comes to rest, or is deleted, when no write fails: none waits
\* forever behind others, on a backoff nobody ends, or in a status no worker claims.
EverySubmissionSettles ==
  \A r \in Requests :
    rows[r].status = "QUEUED" ~>
      (rows[r].status \in Terminal \cup {"DELETED"} \/ faults > 0)

\* What the documentation says and the code does not keep (see README, findings).

\* Deleting a request removes its .torrent file (jobs.html:110, store.go:520): once nobody
\* works on a deleted request any more, no file of it is in the directory.
DeleteLeavesNoFile ==
  \A r \in Requests :
    /\ rows[r].status = "DELETED"
    /\ \A w \in Workers : ~Holds(w, r)
    /\ \A o \in Operators : call[o].pc = "unlink" => call[o].req # r
    => \A release \in Releases : Filename(r, release) \notin files

=============================================================================
