------------------------- MODULE RequestQueueFiles --------------------------
(* Type correctness of RequestQueue for any number of requests, workers and *)
(* calls and whatever the bounds, with the lemmas on values and steps that  *)
(* every later proof cites; and that the rows and the directory agree: a    *)
(* downloaded request keeps its file, and no temporary file stays behind.   *)
EXTENDS RequestQueue, FiniteSetTheorems, TLAPS

Statuses == Live \cup {"FRESH", "DELETED"}

----------------------------------------------------------------------------
(* Lemmas about the values of the model. *)

\* A row that has just been created, or deleted, is a row.
LEMMA NewRowType ==
  ASSUME NEW status \in Statuses, NEW force \in BOOLEAN,
         NEW query \in Queries \cup {None}, NEW created \in Nat
  PROVE  /\ NewRow(status, force, query, created) \in Row
         /\ NewRow(status, force, query, created).status = status
         /\ NewRow(status, force, query, created).path = NoPath
         /\ NewRow(status, force, query, created).attempt = 0
<1> DEFINE row == NewRow(status, force, query, created)
<1>1. row \in Row
  <2>1. CASE force = TRUE
    BY <2>1 DEF NewRow, Row, Statuses
  <2>2. CASE force = FALSE
    BY <2>2 DEF NewRow, Row, Statuses
  <2> QED
    BY <2>1, <2>2
<1>2. row.status = status /\ row.path = NoPath /\ row.attempt = 0
  BY DEF NewRow
<1> QED
  BY <1>1, <1>2

LEMMA NoRowType ==
  ASSUME NEW status \in Statuses
  PROVE  /\ NoRow(status) \in Row
         /\ NoRow(status).status = status
         /\ NoRow(status).path = NoPath
         /\ NoRow(status).attempt = 0
  BY DEF NoRow, NewRow, Row, Statuses

\* The status a submission or a retry gives a row is QUEUED or DUPLICATE.
LEMMA AdmitStatusType ==
  \A query, force, r : AdmitStatus(query, force, r) \in {"QUEUED", "DUPLICATE"}
  BY DEF AdmitStatus

\* What each UPDATE of the workers assigns and leaves alone.
LEMMA ClaimedRow ==
  ASSUME NEW row \in Row
  PROVE  /\ Claimed(row) \in Row
         /\ Claimed(row).status = "SEARCHING"
         /\ Claimed(row).attempt = row.attempt + 1
         /\ Claimed(row).path = row.path
<1>1. row.attempt + 1 \in Nat
  BY DEF Row
<1>2. Claimed(row) \in Row
  BY <1>1 DEF Claimed, Row, Live, InFlight
<1>3. Claimed(row).status = "SEARCHING" /\ Claimed(row).path = row.path
  BY DEF Claimed, Row
<1>4. Claimed(row).attempt = row.attempt + 1
  BY DEF Claimed, Row
<1> QED
  BY <1>2, <1>3, <1>4

LEMMA FoundRow ==
  ASSUME NEW row \in Row
  PROVE  /\ Found(row) \in Row
         /\ Found(row).status = "FOUND"
         /\ Found(row).attempt = row.attempt
         /\ Found(row).path = row.path
  BY DEF Found, Row, Live, InFlight

LEMMA DownloadedRow ==
  ASSUME NEW row \in Row, NEW path \in Paths
  PROVE  /\ Downloaded(row, path) \in Row
         /\ Downloaded(row, path).status = "DOWNLOADED"
         /\ Downloaded(row, path).attempt = row.attempt
         /\ Downloaded(row, path).path = path
  BY DEF Downloaded, Row, Live, Terminal

LEMMA ClosedRow ==
  ASSUME NEW row \in Row, NEW status \in Live
  PROVE  /\ Closed(row, status) \in Row
         /\ Closed(row, status).status = status
         /\ Closed(row, status).attempt = row.attempt
         /\ Closed(row, status).path = row.path
  BY DEF Closed, Row

LEMMA RescheduledRow ==
  ASSUME NEW row \in Row
  PROVE  /\ Rescheduled(row) \in Row
         /\ Rescheduled(row).status = "QUEUED"
         /\ Rescheduled(row).attempt = row.attempt
         /\ Rescheduled(row).path = row.path
  BY DEF Rescheduled, Row, Live

\* handleError closes the row, or re-queues it if attempts are left.
LEMMA AfterErrorRow ==
  ASSUME NEW row \in Row, NEW err, NEW attempt
  PROVE  /\ AfterError(row, err, attempt) \in Row
         /\ AfterError(row, err, attempt).status \in {"NOT_FOUND", "FAILED", "QUEUED"}
         /\ AfterError(row, err, attempt).status = "QUEUED" => ~Exhausted(attempt)
         /\ AfterError(row, err, attempt).attempt = row.attempt
         /\ AfterError(row, err, attempt).path = row.path
<1>1. {"NOT_FOUND", "FAILED"} \subseteq Live
  BY DEF Live, Terminal
<1> QED
  BY <1>1, ClosedRow, RescheduledRow DEF AfterError

\* What the calls and a restart assign.
LEMMA ResetRow ==
  ASSUME NEW row \in Row, NEW status \in {"QUEUED", "DUPLICATE"},
         NEW query \in Queries \cup {None}, NEW force \in BOOLEAN
  PROVE  /\ Reset(row, status, query, force) \in Row
         /\ Reset(row, status, query, force).status = status
         /\ Reset(row, status, query, force).attempt = 0
         /\ Reset(row, status, query, force).path = row.path
  BY DEF Reset, Row, Live, Terminal

LEMMA RetryTimePassedRow ==
  ASSUME NEW row \in Row
  PROVE  /\ RetryTimePassed(row) \in Row
         /\ RetryTimePassed(row).status = row.status
         /\ RetryTimePassed(row).attempt = row.attempt
         /\ RetryTimePassed(row).path = row.path
  BY DEF RetryTimePassed, Row

LEMMA RequeuedRow ==
  ASSUME NEW row \in Row
  PROVE  /\ Requeued(row) \in Row
         /\ Requeued(row).status = IF row.status \in InFlight THEN "QUEUED" ELSE row.status
         /\ Requeued(row).attempt = row.attempt
         /\ Requeued(row).path = row.path
  BY ClosedRow DEF Requeued, Live

\* A worker that is not idle has a request, and a release once it has chosen one.
LEMMA BusyTask ==
  ASSUME NEW t \in Task, t.pc # "idle"
  PROVE  /\ t.pc \in {"search", "fetch", "temp", "saved"}
         /\ t.req \in Requests /\ t.attempt \in Nat
         /\ t.pc # "search" => t.release \in Releases
  BY DEF Task, Idle

\* A call that is not over has a request and what it read of the row.
LEMMA BusyCall ==
  ASSUME NEW c \in Call, c.pc # "idle"
  PROVE  /\ c.pc \in {"check", "retry", "cancel", "delete", "unlink"}
         /\ c.req \in Requests /\ c.path \in Paths \cup {NoPath}
         /\ c.seen \in Live /\ c.query \in Queries \cup {None}
         /\ c.force \in BOOLEAN /\ c.status \in {"QUEUED", "DUPLICATE"}
  BY DEF Call, Quiet

LEMMA AdvanceCall ==
  ASSUME NEW c \in Call, c.pc # "idle", NEW status \in {"QUEUED", "DUPLICATE"},
         NEW pc \in {"retry", "unlink"}
  PROVE  /\ Advance(c, pc, status) \in Call
         /\ Advance(c, pc, status).pc = pc
         /\ Advance(c, pc, status).req = c.req
         /\ Advance(c, pc, status).path = c.path
         /\ Advance(c, pc, status).seen = c.seen
         /\ Advance(c, pc, status).status = status
<1> DEFINE Busy == [pc : {"check", "retry", "cancel", "delete", "unlink"}, req : Requests,
                    seen : Live, path : Paths \cup {NoPath}, query : Queries \cup {None},
                    force : BOOLEAN, status : {"QUEUED", "DUPLICATE"}]
<1>1. c \in Busy
  BY DEF Call, Quiet
<1>2. Advance(c, pc, status) \in Busy
  BY <1>1 DEF Advance
<1>3. /\ Advance(c, pc, status).pc = pc
      /\ Advance(c, pc, status).req = c.req
      /\ Advance(c, pc, status).path = c.path
      /\ Advance(c, pc, status).seen = c.seen
      /\ Advance(c, pc, status).status = status
  BY <1>1 DEF Advance
<1> QED
  BY <1>2, <1>3 DEF Call

----------------------------------------------------------------------------
(* Lemmas about the steps of the model. *)

\* A statement on a row leaves the others alone and keeps the table well formed.
LEMMA RecordStep ==
  ASSUME rows \in [Requests -> Row], NEW r \in Requests, NEW row \in Row, Record(r, row)
  PROVE  /\ rows' \in [Requests -> Row]
         /\ rows'[r] = IF Exists(r) THEN row ELSE rows[r]
         /\ \A x \in Requests \ {r} : rows'[x] = rows[x]
  BY DEF Record

LEMMA DropStep ==
  ASSUME task \in [Workers -> Task], NEW w \in Workers, Drop(w)
  PROVE  /\ task' \in [Workers -> Task]
         /\ task'[w].pc = "idle"
         /\ \A v \in Workers \ {w} : task'[v] = task[v]
  BY DEF Drop, Task, Idle

LEMMA MoveStep ==
  ASSUME task \in [Workers -> Task], NEW w \in Workers, NEW r \in Requests,
         NEW attempt \in Nat, NEW release, NEW pc,
         \/ pc = "search" /\ release = None
         \/ pc \in {"fetch", "temp", "saved"} /\ release \in Releases,
         Move(w, pc, r, attempt, release)
  PROVE  /\ task' \in [Workers -> Task]
         /\ task'[w].pc = pc /\ task'[w].req = r
         /\ task'[w].attempt = attempt /\ task'[w].release = release
         /\ \A v \in Workers \ {w} : task'[v] = task[v]
<1> DEFINE t == [pc |-> pc, req |-> r, attempt |-> attempt, release |-> release]
<1>1. t \in Task
  BY DEF Task
<1>2. task' = [task EXCEPT ![w] = t]
  BY DEF Move
<1>3. t.pc = pc /\ t.req = r /\ t.attempt = attempt /\ t.release = release
  OBVIOUS
<1> HIDE DEF t
<1> QED
  BY <1>1, <1>2, <1>3

LEMMA PutStep ==
  ASSUME call \in [Operators -> Call], NEW o \in Operators, NEW c \in Call, Put(o, c)
  PROVE  /\ call' \in [Operators -> Call]
         /\ call'[o] = c
         /\ \A p \in Operators \ {o} : call'[p] = call[p]
  BY DEF Put

LEMMA EndCallStep ==
  ASSUME call \in [Operators -> Call], NEW o \in Operators, EndCall(o)
  PROVE  /\ call' \in [Operators -> Call]
         /\ call'[o].pc = "idle"
         /\ \A p \in Operators \ {o} : call'[p] = call[p]
  BY DEF EndCall, Put, Call, Quiet

LEMMA BeginStep ==
  ASSUME rows \in [Requests -> Row], call \in [Operators -> Call],
         NEW o \in Operators, NEW r \in Requests, NEW pc \in {"check", "cancel", "delete"},
         Exists(r), NEW query \in Queries \cup {None}, NEW force \in BOOLEAN,
         Begin(o, r, pc, query, force)
  PROVE  /\ call' \in [Operators -> Call]
         /\ call'[o].pc = pc /\ call'[o].req = r
         /\ call'[o].seen = rows[r].status /\ call'[o].path = rows[r].path
         /\ \A p \in Operators \ {o} : call'[p] = call[p]
<1> DEFINE c == [pc |-> pc, req |-> r, seen |-> rows[r].status, path |-> rows[r].path,
                 query |-> query, force |-> force, status |-> "QUEUED"]
<1>1. rows[r].status \in Live /\ rows[r].path \in Paths \cup {NoPath}
  BY DEF Row, Exists
<1>2. c \in Call
  <2>1. CASE force = TRUE
    BY <1>1, <2>1 DEF Call
  <2>2. CASE force = FALSE
    BY <1>1, <2>2 DEF Call
  <2> QED
    BY <2>1, <2>2
<1>3. c.pc = pc /\ c.req = r /\ c.seen = rows[r].status /\ c.path = rows[r].path
  OBVIOUS
<1>4. Put(o, c)
  BY DEF Begin
<1> HIDE DEF c
<1> QED
  BY <1>2, <1>3, <1>4, PutStep

----------------------------------------------------------------------------
(* Type correctness. *)

LEMMA TypeInit == Init => TypeOK
  BY NoRowType DEF Init, TypeOK, Statuses, Task, Call

\* The first statement of a call: it reads a row that may be acted on, and nothing else.
LEMMA BeginCallStep ==
  ASSUME TypeOK, NEW o \in Operators, BeginCall(o)
  PROVE  /\ TypeOK'
         /\ UNCHANGED <<mode, rows, clock, task, files, taken, litter, raced, stops, faults>>
         /\ call[o].pc = "idle"
         /\ \E r \in Requests :
              /\ Exists(r)
              /\ call'[o].req = r /\ call'[o].seen = rows[r].status
              /\ call'[o].path = rows[r].path
              /\ \/ call'[o].pc = "check" /\ rows[r].status \in Retryable
                 \/ call'[o].pc = "cancel" /\ rows[r].status \in Cancellable
                 \/ call'[o].pc = "delete"
         /\ \A p \in Operators \ {o} : call'[p] = call[p]
<1> USE DEF TypeOK
<1> DEFINE Opened(r, pc) ==
      /\ call' \in [Operators -> Call]
      /\ call'[o].pc = pc /\ call'[o].req = r
      /\ call'[o].seen = rows[r].status /\ call'[o].path = rows[r].path
      /\ \A p \in Operators \ {o} : call'[p] = call[p]
<1>1. ASSUME NEW r \in Requests, NEW edit \in Queries \cup {None}, NEW force \in BOOLEAN,
             BeginRetry(o, r, edit, force)
      PROVE  /\ Opened(r, "check") /\ Exists(r) /\ rows[r].status \in Retryable
             /\ \E query, forced : Begin(o, r, "check", query, forced)
  <2> DEFINE query == IF edit = None THEN rows[r].query ELSE edit
             forced == IF force THEN TRUE ELSE rows[r].force
  <2>1. Exists(r) /\ query \in Queries \cup {None}
    BY <1>1 DEF BeginRetry, Exists, Retryable, Live, Terminal, Row
  <2>2. forced \in BOOLEAN
    <3>1. rows[r].force \in BOOLEAN
      BY DEF Row
    <3> QED
      BY <3>1
  <2>3. Begin(o, r, "check", query, forced)
    BY <1>1 DEF BeginRetry
  <2> HIDE DEF query, forced
  <2>4. Opened(r, "check")
    BY <2>1, <2>2, <2>3, BeginStep
  <2> QED
    BY <1>1, <2>1, <2>3, <2>4 DEF BeginRetry
<1>2. ASSUME NEW r \in Requests, BeginCancel(o, r)
      PROVE  /\ Opened(r, "cancel") /\ Exists(r) /\ rows[r].status \in Cancellable
             /\ \E query, forced : Begin(o, r, "cancel", query, forced)
  <2>1. Exists(r) /\ rows[r].query \in Queries \cup {None}
    BY <1>2 DEF BeginCancel, Exists, Cancellable, Live, Row
  <2>2. rows[r].force \in BOOLEAN
    BY DEF Row
  <2>3. Opened(r, "cancel")
    BY <1>2, <2>1, <2>2, BeginStep DEF BeginCancel
  <2> QED
    BY <1>2, <2>1, <2>3 DEF BeginCancel
<1>3. ASSUME NEW r \in Requests, BeginDelete(o, r)
      PROVE  /\ Opened(r, "delete") /\ Exists(r)
             /\ \E query, forced : Begin(o, r, "delete", query, forced)
  <2>1. Exists(r) /\ rows[r].query \in Queries \cup {None}
    BY <1>3 DEF BeginDelete, Row
  <2>2. rows[r].force \in BOOLEAN
    BY DEF Row
  <2>3. Opened(r, "delete")
    BY <1>3, <2>1, <2>2, BeginStep DEF BeginDelete
  <2> QED
    BY <1>3, <2>1, <2>3 DEF BeginDelete
<1>4. PICK r \in Requests, pc \in {"check", "cancel", "delete"} :
        /\ Opened(r, pc) /\ Exists(r)
        /\ pc = "check" => rows[r].status \in Retryable
        /\ pc = "cancel" => rows[r].status \in Cancellable
        /\ \E query, forced : Begin(o, r, pc, query, forced)
  BY <1>1, <1>2, <1>3 DEF BeginCall
<1>5. /\ call[o].pc = "idle" /\ calls' = calls + 1
      /\ UNCHANGED <<mode, rows, clock, task, files, taken, litter, raced, stops, faults>>
  BY <1>4 DEF Begin
<1> QED
  BY <1>4, <1>5

LEMMA TypeStep == TypeOK /\ [Next]_vars => TypeOK'
<1> SUFFICES ASSUME TypeOK, [Next]_vars PROVE TypeOK'
  OBVIOUS
<1> USE DEF TypeOK
<1>1. ASSUME NEW batch \in (SUBSET Requests) \ {{}}, NEW query \in [batch -> Queries],
             NEW force \in BOOLEAN, NEW tick \in {0, 1}, CreateBatch(batch, query, force, tick)
      PROVE  TypeOK'
  <2>1. \A r \in batch : NewRow(AdmitStatus(query[r], force, r), force, query[r], clock + tick) \in Row
    <3>1. ASSUME NEW r \in batch
          PROVE  /\ AdmitStatus(query[r], force, r) \in Statuses
                 /\ query[r] \in Queries \cup {None}
                 /\ clock + tick \in Nat
      BY AdmitStatusType DEF Statuses, Live, Terminal
    <3> QED
      BY <3>1, NewRowType
  <2>2. rows' \in [Requests -> Row]
    BY <1>1, <2>1 DEF CreateBatch
  <2> QED
    BY <1>1, <2>2 DEF CreateBatch
<1>2. ASSUME NEW w \in Workers, Claim(w) PROVE TypeOK'
  <2> PICK r \in Requests :
        /\ Record(r, Claimed(rows[r]))
        /\ Move(w, "search", r, rows[r].attempt + 1, None)
    BY <1>2 DEF Claim
  <2>1. rows' \in [Requests -> Row]
    BY ClaimedRow, RecordStep
  <2>2. rows[r].attempt + 1 \in Nat
    BY DEF Row
  <2>3. task' \in [Workers -> Task]
    BY <2>2, MoveStep
  <2> QED
    BY <1>2, <2>1, <2>3 DEF Claim
<1>3. ASSUME NEW w \in Workers, NEW release \in Releases, MarkFound(w, release) PROVE TypeOK'
  <2>1. task[w].req \in Requests /\ task[w].attempt \in Nat
    BY <1>3, BusyTask DEF MarkFound
  <2>2. rows' \in [Requests -> Row]
    BY <1>3, <2>1, FoundRow, RecordStep DEF MarkFound
  <2>3. task' \in [Workers -> Task]
    BY <1>3, <2>1, MoveStep, DropStep DEF MarkFound
  <2> QED
    BY <1>3, <2>2, <2>3 DEF MarkFound
<1>4. ASSUME NEW w \in Workers, CreateTemp(w) PROVE TypeOK'
  <2>1. task[w].req \in Requests /\ task[w].attempt \in Nat /\ task[w].release \in Releases
    BY <1>4, BusyTask DEF CreateTemp
  <2>2. task' \in [Workers -> Task]
    BY <1>4, <2>1, MoveStep DEF CreateTemp
  <2> QED
    BY <1>4, <2>2 DEF CreateTemp
<1>5. ASSUME NEW w \in Workers, Rename(w) PROVE TypeOK'
  <2>1. task[w].req \in Requests /\ task[w].attempt \in Nat /\ task[w].release \in Releases
    BY <1>5, BusyTask DEF Rename
  <2>2. task' \in [Workers -> Task]
    BY <1>5, <2>1, MoveStep DEF Rename
  <2>3. Filename(task[w].req, task[w].release) \in Paths
    BY <2>1 DEF Filename, Paths
  <2> QED
    BY <1>5, <2>2, <2>3 DEF Rename
<1>6. ASSUME NEW w \in Workers, MarkDownloaded(w) PROVE TypeOK'
  <2>1. task[w].req \in Requests /\ task[w].release \in Releases
    BY <1>6, BusyTask DEF MarkDownloaded
  <2>2. Filename(task[w].req, task[w].release) \in Paths
    BY <2>1 DEF Filename, Paths
  <2>3. rows' \in [Requests -> Row]
    BY <1>6, <2>1, <2>2, DownloadedRow, RecordStep DEF MarkDownloaded
  <2>4. task' \in [Workers -> Task]
    BY <1>6, DropStep DEF MarkDownloaded
  <2> QED
    BY <1>6, <2>3, <2>4 DEF MarkDownloaded
<1>7. ASSUME NEW w \in Workers, HandleError(w) PROVE TypeOK'
  <2> PICK err \in ErrorsOf(task[w].pc) :
        Record(task[w].req, AfterError(rows[task[w].req], err, task[w].attempt))
    BY <1>7 DEF HandleError
  <2>1. task[w].req \in Requests
    BY BusyTask DEF ErrorsOf
  <2>2. rows' \in [Requests -> Row]
    BY <2>1, AfterErrorRow, RecordStep
  <2>3. task' \in [Workers -> Task]
    BY <1>7, DropStep DEF HandleError
  <2> QED
    BY <1>7, <2>2, <2>3 DEF HandleError
<1>8. ASSUME NEW w \in Workers, LoseOutcome(w) PROVE TypeOK'
  BY <1>8, DropStep DEF LoseOutcome
<1>9. ASSUME NEW w \in Workers, Abandon(w) PROVE TypeOK'
  BY <1>9, DropStep DEF Abandon
<1>10. ASSUME NEW o \in Operators, BeginCall(o) PROVE TypeOK'
  BY <1>10, BeginCallStep
<1>11. ASSUME NEW o \in Operators, CheckRetry(o) PROVE TypeOK'
  <2>1. Advance(call[o], "retry", AdmitStatus(call[o].query, call[o].force, call[o].req)) \in Call
    BY <1>11, AdmitStatusType, AdvanceCall DEF CheckRetry
  <2>2. call' \in [Operators -> Call]
    BY <1>11, <2>1, PutStep DEF CheckRetry
  <2> QED
    BY <1>11, <2>2 DEF CheckRetry
<1>12. ASSUME NEW o \in Operators, WriteRetry(o) PROVE TypeOK'
  <2>1. /\ call[o].req \in Requests /\ call[o].status \in {"QUEUED", "DUPLICATE"}
        /\ call[o].query \in Queries \cup {None} /\ call[o].force \in BOOLEAN
    BY <1>12, BusyCall DEF WriteRetry
  <2>2. rows' \in [Requests -> Row]
    BY <1>12, <2>1, ResetRow, RecordStep DEF WriteRetry
  <2>3. call' \in [Operators -> Call] /\ raced' \subseteq Requests
    BY <1>12, <2>1, EndCallStep DEF WriteRetry, NoteRace
  <2> QED
    BY <1>12, <2>2, <2>3 DEF WriteRetry
<1>13. ASSUME NEW o \in Operators, WriteCancel(o) PROVE TypeOK'
  <2>1. call[o].req \in Requests
    BY <1>13, BusyCall DEF WriteCancel
  <2>2. rows' \in [Requests -> Row]
    BY <1>13, <2>1, ClosedRow, RecordStep DEF WriteCancel, Live, Terminal
  <2>3. call' \in [Operators -> Call] /\ raced' \subseteq Requests
    BY <1>13, <2>1, EndCallStep DEF WriteCancel, NoteRace
  <2> QED
    BY <1>13, <2>2, <2>3 DEF WriteCancel
<1>14. ASSUME NEW o \in Operators, WriteDelete(o) PROVE TypeOK'
  <2>1. call[o].req \in Requests /\ call[o].status \in {"QUEUED", "DUPLICATE"}
    BY <1>14, BusyCall DEF WriteDelete
  <2>2. rows' \in [Requests -> Row]
    BY <1>14, <2>1, NoRowType, RecordStep DEF WriteDelete, Statuses
  <2>3. call' \in [Operators -> Call]
    BY <1>14, <2>1, AdvanceCall, PutStep, EndCallStep DEF WriteDelete
  <2> QED
    BY <1>14, <2>2, <2>3 DEF WriteDelete
<1>15. ASSUME NEW o \in Operators, RemoveTorrentFile(o) PROVE TypeOK'
  BY <1>15, EndCallStep DEF RemoveTorrentFile
<1>16. ASSUME NEW o \in Operators, LoseCall(o) PROVE TypeOK'
  BY <1>16, EndCallStep DEF LoseCall
<1>17. CASE Start
  <2>1. rows' \in [Requests -> Row]
    BY <1>17, RequeuedRow DEF Start
  <2> QED
    BY <1>17, <2>1 DEF Start
<1>18. CASE Shutdown
  BY <1>18 DEF Shutdown
<1>19. CASE Exit
  BY <1>19 DEF Exit, Call
<1>20. CASE Crash
  <2>1. Cardinality({w \in Workers : task[w].pc = "temp"}) \in Nat
    BY QueueAssumption, FS_Subset, FS_CardinalityType
  <2>2. task' \in [Workers -> Task] /\ call' \in [Operators -> Call]
    BY <1>20 DEF Crash, Task, Call
  <2> QED
    BY <1>20, <2>1, <2>2 DEF Crash
<1>21. ASSUME NEW r \in Requests, RetryDue(r) PROVE TypeOK'
  <2>1. rows' \in [Requests -> Row]
    BY <1>21, RetryTimePassedRow, RecordStep DEF RetryDue
  <2> QED
    BY <1>21, <2>1 DEF RetryDue
<1>22. ASSUME NEW path \in Paths, Consume(path) PROVE TypeOK'
  BY <1>22 DEF Consume
<1>23. CASE UNCHANGED vars
  BY <1>23 DEF vars
<1> QED
  BY <1>1, <1>2, <1>3, <1>4, <1>5, <1>6, <1>7, <1>8, <1>9, <1>10, <1>11,
     <1>12, <1>13, <1>14, <1>15, <1>16, <1>17, <1>18, <1>19, <1>20, <1>21, <1>22, <1>23
  DEF Next, Submit, WorkerStep, OperatorStep

\* Every variable keeps its type (TypeOK of the runs), for any number of requests,
\* workers, calls, stops and faults.
THEOREM TypeCorrect == Spec => []TypeOK
  BY TypeInit, TypeStep, PTL DEF Spec

----------------------------------------------------------------------------
(* The files of downloaded requests.                                       *)
(*                                                                         *)
(* DownloadedOnDisk is not inductive: it says nothing of the file a worker *)
(* has renamed but not recorded yet, nor of the path a call is about to    *)
(* unlink.  DiskInv adds both, and that every path carries the id of the   *)
(* request it belongs to.  Ids are not drawn twice, so the row a call has  *)
(* deleted stays deleted until the call has unlinked its file.             *)

OwnFiles(r) == {r} \X Releases

DiskInv ==
  /\ \A r \in Requests : rows[r].path \in OwnFiles(r) \cup {NoPath}
  /\ \A r \in Requests :
       rows[r].status = "DOWNLOADED" => rows[r].path \in OwnFiles(r) \cap (files \cup taken)
  /\ \A w \in Workers :
       task[w].pc # "idle" =>
         /\ rows[task[w].req].status # "FRESH"
         /\ task[w].pc = "saved" /\ Exists(task[w].req) =>
              Filename(task[w].req, task[w].release) \in files \cup taken
  /\ \A o \in Operators :
       call[o].pc # "idle" => call[o].path \in OwnFiles(call[o].req) \cup {NoPath}
  /\ \A o \in Operators :
       call[o].pc = "unlink" =>
         call[o].path \in OwnFiles(call[o].req) /\ rows[call[o].req].status = "DELETED"

LEMMA FilenameOwn ==
  ASSUME NEW r \in Requests, NEW release \in Releases
  PROVE  Filename(r, release) \in OwnFiles(r) /\ Filename(r, release) \in Paths
  BY DEF Filename, OwnFiles, Paths

LEMMA OwnFilesDisjoint ==
  ASSUME NEW r \in Requests, NEW x \in Requests, NEW path \in OwnFiles(r), path \in OwnFiles(x)
  PROVE  x = r
  BY DEF OwnFiles

LEMMA DiskInit == Init => DiskInv
<1> SUFFICES ASSUME Init PROVE DiskInv
  OBVIOUS
<1>1. \A r \in Requests : rows[r].status = "FRESH" /\ rows[r].path = NoPath
  BY NoRowType DEF Init, Statuses
<1>2. \A w \in Workers : task[w].pc = "idle"
  BY DEF Init, Idle
<1>3. \A o \in Operators : call[o].pc = "idle"
  BY DEF Init, Quiet
<1> QED
  BY <1>1, <1>2, <1>3 DEF DiskInv

(* Most steps disturb nothing DiskInv speaks of: no row becomes DOWNLOADED, *)
(* no worker comes to hold an unrecorded file, no call a path, and no file  *)
(* disappears other than into a download client.                            *)

RowKept(r) ==
  /\ rows'[r].path \in {rows[r].path, NoPath}
  /\ rows'[r].status = "DOWNLOADED" =>
       rows[r].status = "DOWNLOADED" /\ rows'[r].path = rows[r].path
  /\ rows[r].status = "DELETED" => rows'[r].status = "DELETED"
  /\ rows'[r].status = "FRESH" => rows[r].status = "FRESH"

TaskKept(w) ==
  \/ task'[w] = task[w]
  \/ task'[w].pc = "idle"
  \/ task'[w].pc # "saved" /\ rows'[task'[w].req].status # "FRESH"

CallKept(o) == call'[o] = call[o] \/ call'[o].pc = "idle"

DiskKept ==
  /\ \A r \in Requests : RowKept(r)
  /\ \A w \in Workers : TaskKept(w)
  /\ \A o \in Operators : CallKept(o)
  /\ files \cup taken \subseteq files' \cup taken'

LEMMA KeptStep == TypeOK /\ TypeOK' /\ DiskInv /\ DiskKept => DiskInv'
<1> SUFFICES ASSUME TypeOK, TypeOK', DiskInv, DiskKept PROVE DiskInv'
  OBVIOUS
<1>1. ASSUME NEW r \in Requests
      PROVE  /\ rows'[r].path \in OwnFiles(r) \cup {NoPath}
             /\ rows'[r].status = "DOWNLOADED" =>
                  rows'[r].path \in OwnFiles(r) \cap (files' \cup taken')
  BY DEF DiskInv, DiskKept, RowKept
<1>2. ASSUME NEW w \in Workers, task'[w].pc # "idle"
      PROVE  /\ rows'[task'[w].req].status # "FRESH"
             /\ task'[w].pc = "saved" /\ rows'[task'[w].req].status \in Live =>
                  Filename(task'[w].req, task'[w].release) \in files' \cup taken'
  <2>1. CASE task'[w] = task[w]
    <3>1. task[w].pc # "idle" /\ task[w].req \in Requests
      BY <1>2, <2>1, BusyTask DEF TypeOK
    <3>2. rows[task[w].req].status # "FRESH" /\ rows'[task[w].req].status # "FRESH"
      BY <3>1 DEF DiskInv, DiskKept, RowKept
    <3>3. ASSUME rows'[task[w].req].status \in Live
          PROVE  rows[task[w].req].status \in Live
      BY <3>1, <3>2, <3>3 DEF DiskKept, RowKept, TypeOK, Row, Live, InFlight, Terminal
    <3>4. ASSUME task[w].pc = "saved", rows'[task[w].req].status \in Live
          PROVE  Filename(task[w].req, task[w].release) \in files' \cup taken'
      BY <3>1, <3>3, <3>4 DEF DiskInv, DiskKept, Exists
    <3> QED
      BY <2>1, <3>2, <3>4
  <2>2. CASE task'[w].pc # "saved" /\ rows'[task'[w].req].status # "FRESH"
    BY <2>2
  <2> QED
    BY <1>2, <2>1, <2>2 DEF DiskKept, TaskKept
<1>3. ASSUME NEW o \in Operators, call'[o].pc # "idle"
      PROVE  /\ call'[o].path \in OwnFiles(call'[o].req) \cup {NoPath}
             /\ call'[o].pc = "unlink" =>
                  /\ call'[o].path \in OwnFiles(call'[o].req)
                  /\ rows'[call'[o].req].status = "DELETED"
  <2>1. call'[o] = call[o]
    BY <1>3 DEF DiskKept, CallKept
  <2>2. call[o].req \in Requests
    BY <1>3, <2>1, BusyCall DEF TypeOK
  <2> QED
    BY <1>3, <2>1, <2>2 DEF DiskInv, DiskKept, RowKept
<1> QED
  BY <1>1, <1>2, <1>3 DEF DiskInv, Exists

\* The step lemma: most actions keep everything; the others are looked at closely.
LEMMA DiskStep == TypeOK /\ DiskInv /\ [Next]_vars => DiskInv'
<1> SUFFICES ASSUME TypeOK, DiskInv, [Next]_vars PROVE DiskInv'
  OBVIOUS
<1>0. TypeOK'
  BY TypeStep
<1>1. ASSUME NEW batch \in (SUBSET Requests) \ {{}}, NEW query \in [batch -> Queries],
             NEW force \in BOOLEAN, NEW tick \in {0, 1}, CreateBatch(batch, query, force, tick)
      PROVE  DiskInv'
  <2>1. ASSUME NEW r \in Requests PROVE RowKept(r)
    <3>1. CASE r \in batch
      <4>1. rows'[r].status \in {"QUEUED", "DUPLICATE"} /\ rows'[r].path = NoPath
        BY <1>1, <3>1, AdmitStatusType DEF CreateBatch, NewRow
      <4>2. rows[r].status = "FRESH"
        BY <1>1, <3>1 DEF CreateBatch
      <4> QED
        BY <4>1, <4>2 DEF RowKept
    <3>2. CASE r \notin batch
      BY <1>1, <3>2 DEF CreateBatch, RowKept
    <3> QED
      BY <3>1, <3>2
  <2> QED
    BY <1>0, <1>1, <2>1, KeptStep DEF CreateBatch, DiskKept, TaskKept, CallKept
<1>2. ASSUME NEW w \in Workers, Claim(w) PROVE DiskInv'
  <2> PICK r \in Requests :
        /\ OldestDue(r)
        /\ Record(r, Claimed(rows[r]))
        /\ Move(w, "search", r, rows[r].attempt + 1, None)
    BY <1>2 DEF Claim
  <2>1. /\ \A x \in Requests \ {r} : rows'[x] = rows[x]
        /\ rows'[r].status = "SEARCHING" /\ rows'[r].path = rows[r].path
        /\ rows[r].status = "QUEUED"
    BY ClaimedRow, RecordStep DEF TypeOK, OldestDue, Due, Exists, Live
  <2>2. /\ \A v \in Workers \ {w} : task'[v] = task[v]
        /\ task'[w].pc = "search" /\ task'[w].req = r
    <3>1. rows[r].attempt + 1 \in Nat
      BY DEF TypeOK, Row
    <3> QED
      BY <3>1, MoveStep DEF TypeOK
  <2> QED
    BY <1>0, <1>2, <2>1, <2>2, KeptStep DEF Claim, DiskKept, RowKept, TaskKept, CallKept
<1>3. ASSUME NEW w \in Workers, NEW release \in Releases, MarkFound(w, release) PROVE DiskInv'
  <2> DEFINE r == task[w].req
  <2>1. r \in Requests /\ task[w].attempt \in Nat /\ rows[r].status # "FRESH"
    BY <1>3, BusyTask DEF MarkFound, TypeOK, DiskInv
  <2>2. /\ \A x \in Requests \ {r} : rows'[x] = rows[x]
        /\ rows'[r] = rows[r] \/ (rows'[r].status = "FOUND" /\ rows'[r].path = rows[r].path
                                  /\ rows[r].status # "DELETED")
    BY <1>3, <2>1, FoundRow, RecordStep DEF MarkFound, TypeOK, Exists, Live, InFlight, Terminal
  <2>3. /\ \A v \in Workers \ {w} : task'[v] = task[v]
        /\ \/ task'[w].pc = "idle"
           \/ task'[w].pc = "fetch" /\ task'[w].req = r
    BY <1>3, <2>1, MoveStep, DropStep DEF MarkFound, TypeOK
  <2> HIDE DEF r
  <2> QED
    BY <1>0, <1>3, <2>1, <2>2, <2>3, KeptStep
    DEF MarkFound, DiskKept, RowKept, TaskKept, CallKept
<1>4. ASSUME NEW w \in Workers, CreateTemp(w) PROVE DiskInv'
  <2>1. /\ task[w].req \in Requests /\ task[w].attempt \in Nat /\ task[w].release \in Releases
        /\ rows[task[w].req].status # "FRESH"
    BY <1>4, BusyTask DEF CreateTemp, TypeOK, DiskInv
  <2>2. /\ \A v \in Workers \ {w} : task'[v] = task[v]
        /\ task'[w].pc = "temp" /\ task'[w].req = task[w].req
    BY <1>4, <2>1, MoveStep DEF CreateTemp, TypeOK
  <2> QED
    BY <1>0, <1>4, <2>1, <2>2, KeptStep
    DEF CreateTemp, DiskKept, RowKept, TaskKept, CallKept
<1>5. ASSUME NEW w \in Workers, Rename(w) PROVE DiskInv'
  <2> DEFINE path == Filename(task[w].req, task[w].release)
  <2>1. /\ task[w].req \in Requests /\ task[w].attempt \in Nat /\ task[w].release \in Releases
        /\ rows[task[w].req].status # "FRESH"
    BY <1>5, BusyTask DEF Rename, TypeOK, DiskInv
  <2>2. /\ \A v \in Workers \ {w} : task'[v] = task[v]
        /\ task'[w].req = task[w].req /\ task'[w].release = task[w].release
    BY <1>5, <2>1, MoveStep DEF Rename, TypeOK
  <2>3. files' \cup taken' = (files \cup taken) \cup {path} /\ UNCHANGED <<rows, call>>
    BY <1>5 DEF Rename
  <2> QED
    BY <2>1, <2>2, <2>3 DEF DiskInv, Exists
<1>6. ASSUME NEW w \in Workers, MarkDownloaded(w) PROVE DiskInv'
  <2> DEFINE r == task[w].req
             path == Filename(r, task[w].release)
  <2>1. /\ r \in Requests /\ task[w].release \in Releases
        /\ Exists(r) => path \in files \cup taken
    BY <1>6, BusyTask DEF MarkDownloaded, TypeOK, DiskInv
  <2>2. path \in OwnFiles(r) /\ path \in Paths
    BY <2>1, FilenameOwn
  <2>3. /\ \A x \in Requests \ {r} : rows'[x] = rows[x]
        /\ \/ rows'[r] = rows[r]
           \/ /\ rows[r].status \in Live
              /\ rows'[r].status = "DOWNLOADED" /\ rows'[r].path = path
              /\ path \in files \cup taken
    BY <1>6, <2>1, <2>2, DownloadedRow, RecordStep DEF MarkDownloaded, TypeOK, Exists
  <2>4. /\ \A v \in Workers \ {w} : task'[v] = task[v]
        /\ task'[w].pc = "idle"
    BY <1>6, DropStep DEF MarkDownloaded, TypeOK
  <2>5. UNCHANGED <<call, files, taken>>
    BY <1>6 DEF MarkDownloaded
  <2>6. \A v \in Workers : task[v].pc # "idle" => task[v].req \in Requests
    BY BusyTask DEF TypeOK
  <2>7. \A o \in Operators : call[o].pc # "idle" => call[o].req \in Requests
    BY BusyCall DEF TypeOK
  <2>8. Live \cap {"FRESH", "DELETED"} = {}
    BY DEF Live, InFlight, Terminal
  <2> HIDE DEF r, path
  <2>9. \A x \in Requests : rows'[x].path \in OwnFiles(x) \cup {NoPath}
    BY <2>2, <2>3 DEF DiskInv
  <2>10. \A x \in Requests :
           rows'[x].status = "DOWNLOADED" =>
             rows'[x].path \in OwnFiles(x) \cap (files' \cup taken')
    BY <2>2, <2>3, <2>5 DEF DiskInv
  <2>11. \A x \in Requests :
           /\ rows'[x].status = "FRESH" <=> rows[x].status = "FRESH"
           /\ rows'[x].status = "DELETED" <=> rows[x].status = "DELETED"
           /\ rows'[x].status \in Live <=> rows[x].status \in Live
    BY <2>3, <2>8 DEF Live, Terminal
  <2> QED
    BY <2>4, <2>5, <2>6, <2>7, <2>9, <2>10, <2>11 DEF DiskInv, Exists
<1>7. ASSUME NEW w \in Workers, HandleError(w) PROVE DiskInv'
  <2> DEFINE r == task[w].req
  <2> PICK err \in ErrorsOf(task[w].pc) : Record(r, AfterError(rows[r], err, task[w].attempt))
    BY <1>7 DEF HandleError
  <2>1. r \in Requests
    BY BusyTask DEF ErrorsOf, TypeOK
  <2>2. /\ \A x \in Requests \ {r} : rows'[x] = rows[x]
        /\ \/ rows'[r] = rows[r]
           \/ /\ rows'[r].status \in {"NOT_FOUND", "FAILED", "QUEUED"}
              /\ rows'[r].path = rows[r].path
              /\ rows[r].status # "DELETED"
    BY <2>1, AfterErrorRow, RecordStep DEF TypeOK, Exists, Live, InFlight, Terminal
  <2>3. /\ \A v \in Workers \ {w} : task'[v] = task[v]
        /\ task'[w].pc = "idle"
    BY <1>7, DropStep DEF HandleError, TypeOK
  <2> HIDE DEF r
  <2> QED
    BY <1>0, <1>7, <2>2, <2>3, KeptStep DEF HandleError, DiskKept, RowKept, TaskKept, CallKept
<1>8. ASSUME NEW w \in Workers, LoseOutcome(w) \/ Abandon(w) PROVE DiskInv'
  <2>1. /\ \A v \in Workers \ {w} : task'[v] = task[v]
        /\ task'[w].pc = "idle"
    BY <1>8, DropStep DEF LoseOutcome, Abandon, TypeOK
  <2> QED
    BY <1>0, <1>8, <2>1, KeptStep
    DEF LoseOutcome, Abandon, DiskKept, RowKept, TaskKept, CallKept
<1>9. ASSUME NEW o \in Operators, BeginCall(o) PROVE DiskInv'
  <2> PICK r \in Requests :
        /\ call'[o].req = r /\ call'[o].path = rows[r].path /\ call'[o].pc # "unlink"
    BY <1>9, BeginCallStep
  <2>1. /\ UNCHANGED <<rows, task, files, taken>>
        /\ \A p \in Operators \ {o} : call'[p] = call[p]
    BY <1>9, BeginCallStep
  <2> QED
    BY <2>1 DEF DiskInv, Exists
<1>10. ASSUME NEW o \in Operators, CheckRetry(o) PROVE DiskInv'
  <2>1. /\ UNCHANGED <<rows, task, files, taken>>
        /\ \A p \in Operators \ {o} : call'[p] = call[p]
        /\ call[o].pc = "check" /\ call'[o].pc = "retry"
        /\ call'[o].req = call[o].req /\ call'[o].path = call[o].path
    BY <1>10, AdmitStatusType, AdvanceCall, PutStep DEF CheckRetry, TypeOK
  <2> QED
    BY <2>1 DEF DiskInv, Exists
<1>11. ASSUME NEW o \in Operators, WriteRetry(o) \/ WriteCancel(o) PROVE DiskInv'
  <2> DEFINE r == call[o].req
  <2>1. /\ r \in Requests /\ call[o].status \in {"QUEUED", "DUPLICATE"}
        /\ call[o].query \in Queries \cup {None} /\ call[o].force \in BOOLEAN
    BY <1>11, BusyCall DEF WriteRetry, WriteCancel, TypeOK
  <2>2. /\ \A x \in Requests \ {r} : rows'[x] = rows[x]
        /\ \/ rows'[r] = rows[r]
           \/ /\ rows'[r].status \in {"QUEUED", "DUPLICATE", "CANCELLED"}
              /\ rows'[r].path = rows[r].path
              /\ rows[r].status # "DELETED"
    <3>1. CASE WriteRetry(o)
      <4> DEFINE row == Reset(rows[r], call[o].status, call[o].query, call[o].force)
      <4>1. /\ row \in Row /\ row.path = rows[r].path
            /\ row.status \in {"QUEUED", "DUPLICATE"}
        BY <2>1, ResetRow DEF TypeOK
      <4>2. Record(r, row)
        BY <3>1 DEF WriteRetry
      <4> HIDE DEF row, r
      <4> QED
        BY <2>1, <4>1, <4>2, RecordStep DEF TypeOK, Exists, Live, InFlight, Terminal
    <3>2. CASE WriteCancel(o)
      BY <2>1, <3>2, ClosedRow, RecordStep DEF WriteCancel, TypeOK, Exists, Live, InFlight, Terminal
    <3> QED
      BY <1>11, <3>1, <3>2
  <2>3. /\ \A p \in Operators \ {o} : call'[p] = call[p]
        /\ call'[o].pc = "idle"
        /\ UNCHANGED <<task, files, taken>>
    BY <1>11, EndCallStep DEF WriteRetry, WriteCancel, TypeOK
  <2> HIDE DEF r
  <2> QED
    BY <1>0, <2>2, <2>3, KeptStep DEF DiskKept, RowKept, TaskKept, CallKept
<1>12. ASSUME NEW o \in Operators, WriteDelete(o) PROVE DiskInv'
  <2> DEFINE r == call[o].req
  <2>1. /\ r \in Requests /\ call[o].status \in {"QUEUED", "DUPLICATE"}
        /\ call[o].path \in OwnFiles(r) \cup {NoPath}
    BY <1>12, BusyCall DEF WriteDelete, TypeOK, DiskInv
  <2>2. /\ \A x \in Requests \ {r} : rows'[x] = rows[x]
        /\ rows'[r] = rows[r] \/ (rows'[r].status = "DELETED" /\ rows'[r].path = NoPath)
        /\ Exists(r) => rows'[r].status = "DELETED"
    BY <1>12, <2>1, NoRowType, RecordStep DEF WriteDelete, TypeOK, Statuses
  <2>3. /\ \A p \in Operators \ {o} : call'[p] = call[p]
        /\ \/ call'[o].pc = "idle"
           \/ /\ call'[o].pc = "unlink" /\ call'[o].req = r /\ call'[o].path = call[o].path
              /\ Exists(r) /\ call[o].path # NoPath
    BY <1>12, <2>1, AdvanceCall, PutStep, EndCallStep DEF WriteDelete, TypeOK
  <2>4. UNCHANGED <<task, files, taken>>
    BY <1>12 DEF WriteDelete
  <2>5. \A w \in Workers : task[w].pc # "idle" => task[w].req \in Requests
    BY BusyTask DEF TypeOK
  <2>6. \A p \in Operators : call[p].pc # "idle" => call[p].req \in Requests
    BY BusyCall DEF TypeOK
  <2>7. "DELETED" \notin Live
    BY DEF Live, InFlight, Terminal
  <2> HIDE DEF r
  <2>8. \A x \in Requests :
          /\ rows'[x].path \in OwnFiles(x) \cup {NoPath}
          /\ rows'[x].status = "DOWNLOADED" =>
               rows'[x].path \in OwnFiles(x) \cap (files' \cup taken')
    BY <2>2, <2>4 DEF DiskInv
  <2>9. \A x \in Requests :
          /\ rows'[x].status = "FRESH" => rows[x].status = "FRESH"
          /\ rows[x].status = "DELETED" => rows'[x].status = "DELETED"
          /\ rows'[x].status \in Live => rows[x].status \in Live
    BY <2>2, <2>7
  <2>10. \A p \in Operators : call'[p].pc # "idle" =>
          /\ call'[p].path \in OwnFiles(call'[p].req) \cup {NoPath}
          /\ call'[p].pc = "unlink" =>
               /\ call'[p].path \in OwnFiles(call'[p].req)
               /\ rows'[call'[p].req].status = "DELETED"
    BY <2>1, <2>2, <2>3, <2>6, <2>9 DEF DiskInv
  <2> QED
    BY <2>4, <2>5, <2>8, <2>9, <2>10 DEF DiskInv, Exists
<1>13. ASSUME NEW o \in Operators, RemoveTorrentFile(o) PROVE DiskInv'
  <2> DEFINE r == call[o].req
  <2>1. /\ r \in Requests /\ rows[r].status = "DELETED"
        /\ call[o].path \in OwnFiles(r)
    BY <1>13, BusyCall DEF RemoveTorrentFile, TypeOK, DiskInv
  <2>2. /\ UNCHANGED <<rows, task, taken>> /\ files' = files \ {call[o].path}
        /\ \A p \in Operators \ {o} : call'[p] = call[p]
        /\ call'[o].pc = "idle"
    BY <1>13, EndCallStep DEF RemoveTorrentFile, TypeOK
  <2>3. ASSUME NEW x \in Requests, rows[x].status # "DELETED", NEW path \in OwnFiles(x)
        PROVE  path \in files \cup taken => path \in files' \cup taken'
    BY <2>1, <2>2, <2>3, OwnFilesDisjoint
  <2>4. \A x \in Requests : rows[x].status = "DOWNLOADED" =>
          rows[x].path \in OwnFiles(x) \cap (files' \cup taken')
    BY <2>3 DEF DiskInv
  <2>5. ASSUME NEW w \in Workers, task[w].pc = "saved", Exists(task[w].req)
        PROVE  Filename(task[w].req, task[w].release) \in files' \cup taken'
    <3>1. task[w].req \in Requests /\ task[w].release \in Releases
      BY <2>5, BusyTask DEF TypeOK
    <3>2. rows[task[w].req].status # "DELETED"
      BY <2>5 DEF Exists, Live, InFlight, Terminal
    <3> QED
      BY <2>3, <2>5, <3>1, <3>2, FilenameOwn DEF DiskInv
  <2> QED
    BY <2>2, <2>4, <2>5 DEF DiskInv, Exists
<1>14. ASSUME NEW o \in Operators, LoseCall(o) PROVE DiskInv'
  <2>1. /\ \A p \in Operators \ {o} : call'[p] = call[p]
        /\ call'[o].pc = "idle"
    BY <1>14, EndCallStep DEF LoseCall, TypeOK
  <2> QED
    BY <1>0, <1>14, <2>1, KeptStep DEF LoseCall, DiskKept, RowKept, TaskKept, CallKept
<1>15. CASE Start
  <2>1. ASSUME NEW r \in Requests PROVE RowKept(r)
    BY <1>15, RequeuedRow DEF Start, RowKept, TypeOK, InFlight
  <2> QED
    BY <1>0, <1>15, <2>1, KeptStep DEF Start, DiskKept, TaskKept, CallKept
<1>16. CASE Shutdown
  BY <1>0, <1>16, KeptStep DEF Shutdown, DiskKept, RowKept, TaskKept, CallKept
<1>17. CASE Exit
  BY <1>0, <1>17, KeptStep DEF Exit, DiskKept, RowKept, TaskKept, CallKept, Quiet
<1>18. CASE Crash
  BY <1>0, <1>18, KeptStep DEF Crash, DiskKept, RowKept, TaskKept, CallKept, Quiet, Idle
<1>19. ASSUME NEW r \in Requests, RetryDue(r) PROVE DiskInv'
  <2>1. /\ \A x \in Requests \ {r} : rows'[x] = rows[x]
        /\ rows'[r].status = rows[r].status /\ rows'[r].path = rows[r].path
    BY <1>19, RetryTimePassedRow, RecordStep DEF RetryDue, TypeOK
  <2> QED
    BY <1>0, <1>19, <2>1, KeptStep DEF RetryDue, DiskKept, RowKept, TaskKept, CallKept
<1>20. ASSUME NEW path \in Paths, Consume(path) PROVE DiskInv'
  BY <1>0, <1>20, KeptStep DEF Consume, DiskKept, RowKept, TaskKept, CallKept
<1>21. CASE UNCHANGED vars
  BY <1>0, <1>21, KeptStep DEF vars, DiskKept, RowKept, TaskKept, CallKept
<1> QED
  BY <1>1, <1>2, <1>3, <1>4, <1>5, <1>6, <1>7, <1>8, <1>9, <1>10, <1>11, <1>12, <1>13,
     <1>14, <1>15, <1>16, <1>17, <1>18, <1>19, <1>20, <1>21
  DEF Next, Submit, WorkerStep, OperatorStep

\* No interleaving of workers, calls, crashes and a download client loses the file a
\* DOWNLOADED row points at, and no deletion takes another request's file away.
THEOREM DownloadedStaysOnDisk == Spec => []DownloadedOnDisk
<1>1. TypeOK /\ DiskInv => DownloadedOnDisk
  BY DEF DiskInv, DownloadedOnDisk
<1> QED
  BY <1>1, TypeInit, TypeStep, DiskInit, DiskStep, PTL DEF Spec

(* The temporary files.  NoLitter is inductive as it stands: only a crash leaves *)
(* a file behind, and the process runs again only after it has started.          *)

LEMMA LitterStep == TypeOK /\ NoLitter /\ [Next]_vars => NoLitter'
<1> SUFFICES ASSUME TypeOK, NoLitter, [Next]_vars PROVE NoLitter'
  OBVIOUS
<1>1. CASE Start
  BY <1>1 DEF Start, TypeOK, NoLitter
<1>2. ASSUME mode' = "running" => mode = "running", litter' = litter, faults' = 0 => faults = 0
      PROVE  NoLitter'
  BY <1>2 DEF NoLitter
<1>3. CASE Submit
  BY <1>2, <1>3 DEF Submit, CreateBatch
<1>4. ASSUME NEW w \in Workers, WorkerStep(w) \/ LoseOutcome(w) PROVE NoLitter'
  <2>1. CASE Claim(w) \/ CreateTemp(w) \/ Rename(w) \/ MarkDownloaded(w) \/ Abandon(w)
    BY <1>2, <2>1 DEF Claim, CreateTemp, Rename, MarkDownloaded, Abandon
  <2>2. CASE \E release \in Releases : MarkFound(w, release)
    BY <1>2, <2>2 DEF MarkFound
  <2>3. CASE HandleError(w)
    BY <1>2, <2>3 DEF HandleError
  <2>4. CASE LoseOutcome(w)
    BY <1>2, <2>4 DEF LoseOutcome, TypeOK
  <2> QED
    BY <1>4, <2>1, <2>2, <2>3, <2>4 DEF WorkerStep
<1>5. ASSUME NEW o \in Operators, BeginCall(o) \/ OperatorStep(o) \/ LoseCall(o) PROVE NoLitter'
  <2>1. CASE BeginCall(o)
    BY <1>2, <2>1 DEF BeginCall, BeginRetry, BeginCancel, BeginDelete, Begin
  <2>2. CASE CheckRetry(o)
    BY <1>2, <2>2 DEF CheckRetry
  <2>3. CASE WriteRetry(o) \/ WriteCancel(o)
    BY <1>2, <2>3 DEF WriteRetry, WriteCancel
  <2>4. CASE WriteDelete(o) \/ RemoveTorrentFile(o)
    BY <1>2, <2>4 DEF WriteDelete, RemoveTorrentFile
  <2>5. CASE LoseCall(o)
    BY <1>2, <2>5 DEF LoseCall, TypeOK
  <2> QED
    BY <1>5, <2>1, <2>2, <2>3, <2>4, <2>5 DEF OperatorStep
<1>6. CASE Shutdown \/ Exit \/ Crash
  BY <1>6 DEF Shutdown, Exit, Crash, NoLitter
<1>7. CASE (\E r \in Requests : RetryDue(r)) \/ (\E path \in Paths : Consume(path))
  BY <1>2, <1>7 DEF RetryDue, Consume
<1>8. CASE UNCHANGED vars
  BY <1>2, <1>8 DEF vars
<1> QED
  BY <1>1, <1>3, <1>4, <1>5, <1>6, <1>7, <1>8 DEF Next

\* While the process runs, the directory holds no temporary file of an earlier run, but
\* after a clean-up that failed.
THEOREM LitterCleared == Spec => []NoLitter
<1>1. Init => NoLitter
  BY DEF Init, NoLitter
<1> QED
  BY <1>1, TypeInit, TypeStep, LitterStep, PTL DEF Spec

=============================================================================
