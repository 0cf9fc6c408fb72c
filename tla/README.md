# Verification of movie-torrent-finder

The program takes lines of the form "title (year)" from a web form, or movies from a
trakt.tv watchlist, searches a few torrent trackers for each, picks a release and saves
its `.torrent` file in a directory that a download client watches. It is one Go
process with a SQLite database. This directory holds TLA+ models of its core, the TLC
configurations that check them on small instances, and proofs, which TLAPS checks for
every value of the constants, of all their safety properties and refinements.

How the modules hang together:

    RequestLifecycle   what the operator is promised of one request
          ^ ImplementsLifecycle
    RequestQueue       rows, workers, calls, files, restarts
          ^ ImplementsQueue
    Attempt            one request: search, ranking, filter, mirrors, verdict, backoff

    SyncMonitor        the sync's loop, its failure streak and its pings
          ^ SyncAsAlone
    Service            the process: pool loop and wake-up, server, sync, start and stop

    TraktSync          what one pass of the sync reads and writes
    TokenGrant         the pair of tokens the pass needs
    TrackerSession     the login that searches and topic pages need

## 1. The system

| Component (source) | State | Operations | Interacts with |
|---|---|---|---|
| Request store (`internal/storage`) | tables `requests`, `trakt_movies` | CreateBatch, CreateTraktRequests, ClaimNext, Mark*, ScheduleRetry, RequeueInFlight, Retry, Cancel, Delete | called by the pool, the handlers and the sync; one connection, so a statement or a transaction is atomic and nothing longer is |
| Worker pool (`internal/worker`) | per worker: its copy of a row | Recover, Start, run, process, handleError, Notify | store, trackers, directory |
| Operator calls (`internal/web/handlers.go`) | what a handler has read | submit, retry, force, edit, cancel, delete, batch actions | store, directory, Notify |
| Tracker session (`internal/tracker/client.go`) | cookie jar, singleflight group | EnsureSession, login, Search, FetchTopicDetails | a tracker site; shared by all workers |
| Download to disk (`tracker/client.go`, Download) | temporary and final file | create, write, rename, remove | the directory |
| Watchlist sync (`internal/trakt/sync.go`) | the pass in progress | SyncOnce, collect | trakt, store, token source |
| Token grant (`trakt/tokensource.go`, `oauth.go`, `internal/jellyfin`) | `pending`; the plugin's document | Token, Refresh, store, load | trakt, jellyfin; the plugin renews the same grant |
| Sync monitor (`sync.go`, `internal/healthcheck`) | failure streak, ticker | run, syncAndLog, Success, Fail | healthchecks.io |
| Release selection (`internal/media`, `worker.go`) | none | Better, merge, mockbuster filter, combineFailures | pool |
| Process lifecycle (`cmd/server/main.go`) | context, goroutines | start-up, signal, shutdown | all |
| Web server (`internal/web/server.go`) | the listener | Start, graceful shutdown, routing | handlers; `run` waits for it |
| Result pages (`tracker/parse.go`) | none | parseResults | Search |
| Configuration, templates, browser code | none that matters here | decoding, presentation | |

What is hard in it:

* **Statements interleave.** Retry, Cancel and Delete read a row in one statement and
  write it in another; a worker keeps its copy of a row through a search of minutes; no
  write of a worker is conditional on the status it left.
* **The process stops anywhere.** A crash leaves rows in SEARCHING or FOUND, temporary
  files, and saved files no row knows of. Recovery has to re-queue exactly the right rows.
* **Writes fail one at a time**, after the file or the remote side has changed already.
* **Others change what is being read**: the watchlist between two pages, the plugin's
  document between a GET and a POST, the tracker's session between a check and its use.
* **Time**: backoffs, timeouts, a ticker, a cursor in whole seconds.
* **Wake-ups**: one token for a whole batch and for all workers, dropped when one waits.
* **Partial answers**: trackers, topic pages and mirrors fail one by one, some for good and
  some not, and one verdict has to be drawn from all of it.

Correctness, component by component: a queued request comes to rest and its row tells the
truth about the directory (store, pool, handlers); one worker per request and a bounded
number of attempts (pool); nothing but the operator revives a request at rest; every call
on a tracker returns, calls that find the session gone share a login, and working
credentials are reported as rejected only for a named reason (session); each movie once and
none passed over (sync); the live pair of tokens is never lost by the service (grant);
alerts exactly when due (monitor); the best of the releases found (selection); every
goroutine ends at shutdown (lifecycle).

## 2. Modules

### RequestQueue

The table `requests`, the workers, the operator's calls, the directory and the process.

| Variable | Code |
|---|---|
| `mode` | the process: down, running, or stopping once the context is cancelled |
| `rows` | the table; FRESH is an id not drawn yet, DELETED a row that is gone |
| `clock` | `created_at` of the latest batch, in whole seconds |
| `task` | the local variables of `process`: the copy of the row, the release chosen |
| `call` | the local variables of a handler and of Retry, Cancel, Delete |
| `files`, `taken` | the directory, and what a download client moved out of it |
| `litter` | temporary files of processes that died |
| `raced` | history: rows a call has written on a check that no longer held |
| `calls`, `stops`, `faults` | counters for the bounds |

One action is one statement of the database together with the in-memory work around it:
`Claim` (ClaimNext), `MarkFound`, `CreateTemp` and `Rename` (the halves of Download),
`MarkDownloaded`, `HandleError`, `LoseOutcome` (the recording statement fails; it is only
logged), `Abandon` (the context is cancelled). A call is `BeginRetry` / `BeginCancel` /
`BeginDelete` (the Get), `CheckRetry` (the duplicate lookup), `WriteRetry` / `WriteCancel`
/ `WriteDelete`, and `RemoveTorrentFile` (the unlink after the DELETE). `Submit` is a
batch of any size. `Start` is Recover followed by Start; `Shutdown`, `Exit` and `Crash`
stop the process; `RetryDue` passes the time in `next_attempt_at`.

Abstracted: the search and the choice of a release (any of `Releases`, or any class of
error), the text of titles and errors (a query is a model value), the length of a backoff
(null, future, past), counts and listings (they only read).

`MCRequestQueue` adds the symmetry set for TLC. `RequestQueueFiles` (types, directory,
temporary files) and `RequestQueueWork` (workers, attempts, lifecycle) hold the proofs.

### RequestLifecycle and RequestQueueLifecycle

`RequestLifecycle` is the abstract specification: for each request a `phase` (none, waiting,
working, one of the five statuses of rest, gone, or void) and the number of `tries` since
it was last ordered. It says in which order phases may follow one another, that only
`Reorder` leaves a phase of rest, that DOWNLOADED is left only by removal, and that a
request is taken up at most `Budget` times. `RequestQueueLifecycle` holds the refinement
mapping: `PhaseOf` a row's status, `Tries` its `attempt_count`, `Budget` the attempts
allowed plus the stops. A row a call has overwritten on an outdated check (`raced`) is
mapped to void, of which nothing is promised. A transaction and a restart change several
rows, so a step of the specification is a step or a stutter of every request.
The proof that the mapping is one is in `RequestQueueWork`.

### Attempt

The course of `process` for one request, with what RequestQueue leaves open computed:
`answers` (what each tracker's search returned, in any order), `left` (the candidates not
looked at yet), `best`, `errors` (of the mirrors), `wait` (the last backoff in seconds),
`row` and `saved` as in RequestQueue.

| Action | Code |
|---|---|
| `Begin` | ClaimNext |
| `Answer` | one tracker's Search: `Results` drops what is too large and sorts, and an empty page is `no_results` |
| `Rank` | the end of searchAll: merge in the order of the configuration and stable sort; without candidates `Combined` (combineFailures) and handleError |
| `Skip`, `Choose`, `FilteredOut` | the loop of the mockbuster filter, and MarkFound |
| `FetchFails`, `NoAddress`, `Fetch` | fetchTorrentContent: the mirrors in turn |
| `SaveFails`, `Save`, `MarkDownloaded` | the rest of Download, and the row |
| `Conclude` | handleError: `Verdict` and `Jittered(Delay)` (Backoff) |
| `Abandon`, `LoseOutcome` | shutdown; a statement that fails |

A release is the ranks of its quality and codec, its size, where a blocked company is named,
whether it has a topic page, and its number of mirrors: how a title or a page is read for
these is not modelled. Sorting is by place: `Sorted` takes a function from the places
<<tracker, number>> of the candidates and puts at n the one that n - 1 others come before,
which is the stable sort without its algorithm. `Delay` is a recursive function, like the
loop of Backoff. Backoff draws a real delay in [d/2, d) and ScheduleRetry cuts the time it
ends at to whole seconds: `Jittered(d)` is floor(d/2) .. d seconds, counted from the second
of the failure, so with an odd cap a delay can be a second below half the one before. The branch
worker.go:227 is absent: to reach it every inspection would have to fail, but a candidate
whose inspection fails is chosen. `ImplementsQueue` maps the request to request 1 of a
RequestQueue with one worker and no calls; inspecting candidates is still its "search".

`MCAttempt` defines the releases, pages and configurations of the run: two that rank alike,
one of them a mockbuster by its topic page; one without mirrors and with an unread size; one
named in its title; one over the size limit. `AttemptProofs` holds the proofs.

### SyncMonitor

`syncer` is the goroutine of Syncer.run: in a pass, in a ping, in the delay before the
ping is repeated, or at the select; with its count of failures, the signal it sends, and
the attempt. `tick` is the ticker's channel, `cancelled` the context, `monitor` what the
monitor was told last, `streak` a history of failed passes across restarts. `PassSucceeds`,
`PassFails`, `PassCutOff` are the three ends of syncAndLog; `PingDelivered`, `PingLost` (the
ping or only its answer), `PingCutOff` those of send. Counts beyond `AlertAfter` are alike,
since the code only compares. Without HEALTHCHECK_UUID the pinger is nil and the signals are
no-ops; the model is of the other case. `SyncMonitorProofs` holds the proofs.

### Service

`run` in main.go (`phase`), each worker's loop (`worker`), the wake channel (`wake`), the
callers between their commit and their Notify (`notify`), and SyncMonitor, instantiated
with its own variables. Requests are counted by kind (`queue`): new, due, backing off, cut
off by a stop; what happens to a row is RequestQueue's matter.

| Action | Code |
|---|---|
| `Claim`, `ClaimFails`, `LastClaim`, `Finish`, `CutShort` | the first half of Pool.run |
| `FinishFails` | a recording statement fails: the row stays in flight until the next start |
| `Sleep` | between an empty claim and the select: what is announced here finds no listener |
| `Woken`, `Poll`, `StopWorker` | the three cases of the select |
| `CommitCall`/`NotifyCall`, `CommitPass`/`NotifyPass` | a transaction, and later its Notify |
| `Start`, `Serve`, `BootFails` | the start of run, with its early returns |
| `ListenFails`, `BeginShutdown`, `EndShutdown` | Server.Start |
| `PoolWait`, `Exit` | the waits at the end of run; then the deferred Close |
| `Crash`, `Terminate` | the kill, the signal |

A call may outlive echo.Shutdown's ten seconds, so calls can commit until the process
ends. `ListenFails` without a signal leaves `run` waiting for workers that nothing stops
(main.go:108): `ShutdownEnds` promises an end only after a signal. `ServiceProofs` holds
the proofs.

### TraktSync

The watchlist at trakt (`watchlist`, `clock`), the table `trakt_movies` (`listedAt`; 0 is
no row), the number of requests created per movie (`requests`), and the pass in progress
(`walk`: page, cursor, items collected, whether the token was renewed). `Begin` reads the
cursor, `Fetch` is one round of collect's loop with its four ways out (older entry, last
page, page limit, next page), `Unauthorized` the replay after a 401, `FailFetch` and
`FailSave` a failed pass, `CreateTraktRequests` the transaction, `Stop` the end of the
process. `Add` and `Remove` (of the entry at a place) are the owner's edits, at any moment
of a pass. `truncated` and `shrunk` are histories that the properties use to exclude the
two ways in which the code does lose entries (section 5). `TraktSyncProofs` holds the proofs.

### TrackerSession

`session` is whether the tracker honours the cookies in the jar. A `caller` is a Search or a
FetchTopicDetails, which have the same course, with the part it is in (`key`) and the call
whose flight it is on (`leader`): the singleflight group has no variable of its own, a key has
a flight while a caller leads one.

| Action | Code |
|---|---|
| `Do` | `logins.Do`: the first caller of a key leads, the others wait for it |
| `Check`, `Post`, `Verify` | EnsureSession's look at the session, then the two requests of performLogin |
| `Fetch`, `Refetch` | the page before and after the re-login |
| `FailFlight`, `FailFetch` | a request that fails; a form that fails may have been accepted (`Admit`) |
| `Expire` | the tracker drops the session |

`Land` ends a flight for all who are on it. A page is the set of the two selectors that match
in it. `LoggedIn` and `LooksLoggedOut` are the two tests of the code (client.go:529, 533) and
not each other's negation: a page that neither or both selectors match passes neither. The
tracker may answer any request with such an unclear page, `MaxFaults` times. Histories:
`logins` accepted since the last session was dropped, by key; `doubts`, the live sessions
that EnsureSession took for dead on an unclear page; `lost`. `TrackerSessionProofs` holds the
proofs.

### TokenGrant

A pair of tokens is the number of its renewal. `live` is the pair trakt honours, `age` the
youngest pair past its recorded expiry, `doc` the plugin's document (pair, whether its
expiry can be read, everything else as one `setting`), `pending` the pair that could not be
stored, `sync` the pass with the document it has read. `Token`, `Refresh`, `OAuthRefresh`,
`Store` are the requests of TokenSource in order; `LoseIssued` and the second
disjunct of `FailStore` are requests that were carried out though their answer was lost.
`PluginRefresh`, `Relink`, `EditSetting` are the other writers of the document. The
document has a single account here. `TokenGrantProofs` holds the proofs.

## 3. Runs

| Run | Question | Instance |
|---|---|---|
| `queue_safety` | Do rows, hand-offs and files stay consistent under every interleaving? | 2 requests, 2 workers, 1 call, 1 stop, 1 failed write |
| `queue_calls` | Does a request keep a single worker, and live the life of RequestLifecycle, when calls overlap? | 1 request, 2 workers, 2 calls at once, 3 in all, 2 releases |
| `queue_liveness` | Does every queued request come to rest? | 2 requests, 1 worker, 1 call, 1 stop, no failed write; no download client (`Watched`), since no row depends on what becomes of its file |
| `attempt` | Is the best genuine release taken, the verdict right, the backoff growing, and each step one of RequestQueue? | 2 trackers, 6 and 5 pages, 5 releases, 3 configurations, 4 attempts (delays 2, 4, 5 before the jitter, whole seconds after it), 1 stop, 1 failed statement |
| `service` | Is announced work taken up, and does every goroutine end before the store is closed? | 2 workers, 1 call at a time, the sync, 2 requests, 1 start of the sync, 1 fault |
| `sync_monitor` | Does the monitor go down only on a streak, and follow the sync? | 5 failures, 3 pings, 3 starts, 4 lost pings |
| `trakt_sync` | Is each movie scheduled once and none passed over? | 4 movies (1 unusable), pages of 2, 2 pages, 4 edits, 1 failure, 1 stop |
| `session_calls` | Does every call return, does EnsureSession log in once per session gone, and are credentials rejected only for a reason? | 3 callers, 4 calls, 2 lost sessions, 2 requests failed or answered by an unclear page |
| `token_grant` | Is the live pair kept and a held pair stored? | 4 pairs, 1 authorization, 2 edits, 1 crash, 2 lost or failed requests |
| `queue_delete`, `attempt_verdict`, `trakt_import` | Counterexamples to what the documentation says (section 5) | the smallest that shows each; `attempt_verdict` is the instance of `attempt` |

**Why the bounds are enough.** Every race in the queue is between two actors at one row, or
between two rows with the same query: two requests, two workers and two calls are all the
kinds there are, and two attempts reach both sides of the retry decision. Two files of one
request need two releases (`queue_calls`). A pass that spans a page boundary with an
edit before and after it needs four entries on pages of two. Three callers give a flight
a leader, a follower, and a caller that comes too late; two faults let an unclear page and a
failure, or two unclear pages, meet in one flight. Four pairs let a held pair expire
and be renewed while the plugin renews too. In `attempt` two trackers give every
combination of answers, silence and the two kinds of failure; four attempts pass the point
where the backoff meets its cap. In `service` two workers and two sources of work are
what it takes for a wake-up to be dropped or to reach a worker that does not need it;
its single start suffices because nothing but the rows survives a process, and rows are
RequestQueue's. `sync_monitor` has the code's own numbers, one more lost ping than an
alert has attempts, and two restarts within a streak. The proofs of section 4 do not depend on any of
these numbers.

**Fairness.** `RequestQueue`: a worker's step, because every attempt has a deadline and an
idle worker polls every two seconds; a handler's step; the passing of a backoff; start and
exit of the process (`restart: unless-stopped` in docker-compose.yml). No fairness for
submissions, calls, signals, faults or the download client. `TraktSync` and
`TokenGrant`: the ticker starts a pass at each interval, and each HTTP request has a
timeout. `TrackerSession`: each HTTP request ends. `Attempt`: each step of the worker,
since every request has a timeout and so has the attempt. `SyncMonitor`: passes, pings and
the delay end, and the ticker ticks; nothing makes a pass succeed or a ping arrive, except
that at most `MaxLost` pings get lost. `Service`: each worker's loop by itself, the sync's
loop and `run` by itself; none for calls, signals, faults, the passing of a backoff or
restarts. Fairness is weak everywhere.

**Deadlock** is checked in `TraktSync` and `TokenGrant`, whose ticker never stops. The
queue, the attempt and the tracker session legitimately come to rest when nobody asks for
anything more, and so do the process and the sync's loop once the bound on starts is reached,
so there `CHECK_DEADLOCK` is off and liveness says what must not be left undone.

**Symmetry** is used in `queue_safety` and `queue_calls` only: no action and none of their
properties names a particular member of the sets.

**Exemptions.** `raced`, `truncated`, `shrunk`, `lost`, `doubts`, `mishap`, `clobbered`,
`unread`, `abrupt` are history variables: no guard reads them. A property that mentions one says
what holds as long as the named event has not happened; each is something the code does do
(section 5 tells of `raced` to `mishap`):

* `raced`: a call wrote a row on a check that no longer held;
* `truncated`, `shrunk`: a pass was cut off at the page limit, or a removal shifted a page;
* `lost` (TrackerSession): the tracker dropped the session after the login and before the page
  that shows whether it helped, or that page was unclear; `doubts`: EnsureSession logs in
  again for a live session, once for each it has taken for dead;
* `mishap`: the live pair got lost between trakt and the service, or a held pair was
  retired by someone else; `clobbered`: an edit between a GET and a POST was overwritten;
* `unread`: the topic page of the release taken could not be fetched;
* `abrupt`: the process crashed, or its start failed, with no wait for its goroutines.

`faults` appears in properties for which a failed statement is known to break the promise:
after a failed write a row does rest in FOUND or SEARCHING until the next start, and FOUND is
meant to be "never a resting state" (model.go:16); a claim that fails may swallow the
wake-up token, and the poll timer has to make up for it (`WorkGetsAWorker`).

**Mutants.** Operators marked "Fault, for mutation" are plausible mistakes in the
definition that follows them. No action uses them. Each property is violated when the
definition is replaced by its faulty form.

## 4. Proofs

Every safety property of every passing run, and each of the three refinements, is proved
for all values of the constants, from one named assumption on the constants per module:

* `QueueAssumption`: finitely many workers, `None` outside the other sets, numbers where
  numbers are meant; any number of requests, calls, queries, releases;
* `AttemptAssumption`: at least one tracker; releases, pages and configurations of the right
  shape; 1 <= `BaseSeconds` <= `MaxBackoff`, which config.go ensures; `None` neither a
  release nor a candidate;
* `SessionAssumption`: `None` is no caller; any number of callers, calls, losses and faults;
* `ServiceAssumption`: finitely many workers; at least one worker, failure and ping; any
  number of calls, requests and faults;
* `TraktAssumption`, `MonitorAssumption`, `GrantAssumption`: a page holds an entry and a pass
  reads a page; an alert takes a failure and a ping; there are two pairs at least. The bounds
  on movies, edits, stops, lost pings and faults are arbitrary.

| Theorem | States | Argument |
|---|---|---|
| `TypeCorrect` | `TypeOK` | inductive by itself; the row-changing statements have a lemma each |
| `DownloadedStaysOnDisk` | `DownloadedOnDisk` | `DiskInv` |
| `NothingStranded` | `NoStrandedRequest` | inductive together with `TypeOK` |
| `OneWorkerAtATime` | `OneWorkerPerRequest` | `WorkInv` |
| `AttemptsBounded` | `AttemptBudget` | `WorkInv` |
| `OperatorEndsRest` | `TerminalRests` | `WorkInv` at both ends of a step |
| `GrantTypes` | `TypeOK` of TokenGrant | `TypeInv` |
| `GrantNeverLost` | `GrantKept` | `GrantInv` |
| `RenewalFromLive` | `RefreshStartsFromLive` | `GrantInv` |
| `NoSettingLost` | `SettingsSurvive` | `SettingsInv` |
| `MonitorTypes` | `TypeOK` of SyncMonitor | `MonitorInv` |
| `BlipsUnnoticed` | `BlipUnnoticed` | `MonitorInv` |
| `NoFalseAlarm` | `AlertsOnStreakOnly` | `MonitorInv` at the start of a step |
| `LitterCleared` | `NoLitter` | inductive together with `TypeOK` |
| `QueueImplementsLifecycle` | `ImplementsLifecycle` | `WorkInv` and `StopsBounded`; `Lives` request by request |
| `AttemptTypes` | `TypeOK` of Attempt | `AttemptInv` |
| `BestIsTaken` | `BestReleaseTaken` | `AttemptInv` and `OffersRanked` |
| `BlockedStayOut` | `MockbustersKeptOut` | inductive together with `AttemptInv` |
| `SilenceOnlyIfSilent` | `SilenceIsTheAnswer` | `AttemptInv` at the start of a step |
| `GivenUpForGood` | `RetryableNotFinal` | `AttemptInv` at the start of a step |
| `DelaysGrow` | `BackoffGrows` | `AttemptInv` and `DelayGrows` |
| `AttemptIsOfTheQueue` | `ImplementsQueue` | `AttemptInv`; one lemma per step |
| `ServiceTypes` | `TypeOK` of Service | `PoolInv` and the types of SyncMonitor |
| `WakeUpsArrive` | `NoLostWakeUp` | `PoolInv` |
| `StoreClosedLast` | `StoreOutlivesUsers` | `PoolInv` |
| `SyncRefined` | `SyncAsAlone` | each step is one of SyncMonitor or leaves its variables alone |
| `BlipsUnnoticedInService` | `BlipUnnoticed`, in Service | `SyncRefined` and `BlipsUnnoticed` |
| `SyncTypes` | `TypeOK` of TraktSync | `SyncInv` |
| `ScheduledOnce` | `OncePerMovie` | `SyncInv` |
| `NothingPassedOver` | `NothingBelowCursor` | `SyncInv` |
| `SessionTypes` | `TypeOK` of TrackerSession | `SessionInv` |
| `RejectionIsLoss` | `NoFalseRejection` | `SessionInv` |
| `LoginsBounded` | `EnsureLogsInOnce` | `SessionInv` |

`DownloadedOnDisk` is not inductive: nothing in it keeps a file from being unlinked by a
call that read its path long ago, or a worker from reaching MarkDownloaded without a file.
`DiskInv` adds that a path belongs to the request its name ends in, that a call unlinks
only the path of a request whose row is gone, and that a worker about to record a file has
one. That an id is drawn once and that `Filename` contains it (`FilenameOwn`,
`OwnFilesDisjoint`) is what makes the unlink of one request harmless to all others.

`WorkInv` strengthens the two hand-off properties with what they need of the copies:
outside a race the worker's copy of `attempt_count` agrees with the row's; a row that is
queued, or in flight in a process that has been told to stop or is down, has an attempt
left, the stop being counted; a call about to retry or cancel remembers a status that
allows it; and a process that is down has no worker. Without the agreement of the copies
the decision of `handleError` says nothing about the row.

`GrantInv` adds that, until a mishap, the pair about to be saved is the live one and so is
a held pair, except while a save is in progress that will replace it: that is what `Refresh`
relies on when it lays the held pair over the document. `SettingsInv` adds that the
document in the hands of a pass has the operator's settings until they are edited again.

`MonitorInv` adds three facts to `BlipUnnoticed`, which says nothing while a signal is on its
way: a ping sent for the n-th time has lost n - 1 before it, so a signal is given up only
after as many losses as it has attempts; the signal on its way is the one the count calls
for; and the count in memory never exceeds the streak, since a restart forgets failures
but invents none. The last two give `NoFalseAlarm`.

**The queue lives the life of a request.** A step of the queue may change several rows, so
`Lives(r)` states for one request that its phase and tries take one step of RequestLifecycle
or none, and one lemma per statement proves it from `WorkInv`. The order of the phases rests
on the agreement of the worker's copy with the row, and the budget on `StopsBounded`: a
claim needs an attempt left, and each attempt beyond MaxAttempts is paid for by a stop.

**An attempt is the queue's.** `AttemptInv` has the place of `process` agree with the row
(`Course`), the count of attempts paid for by restarts (`Budget`), the last delay no longer
than the backoff of the last attempt that is over (`Waited`), every answer made from its page
(`AnswersOK`), and what is left of the candidates a rest of the ranking whose beginning is
blocked (`Choice`). With it each action is a step of RequestQueue with the same row, task
and file (`BeginMaps` to `RetryDueMaps`), or changes nothing the queue sees.

**The best release.** "n - 1 others come before" makes a place a rank. In any finite strict
order this is a one-to-one map onto 1 .. n (`Ranking`), so sorting loses nothing, adds
nothing, and puts the better one first (`SortRanks`). `BeforeOrders` shows that Better
with the places to break ties is such an order, `ResultsRanked` and `AnswerRows` apply it to a
tracker's page, and `OffersRanked` to the merged list: each row that fits is a candidate,
and one that outranks another comes first. That the best genuine row is taken then
follows from `Choice`. TLAPS has no induction over data here, so `DelayDoubles` solves the
recursion of `Delay` by a least counterexample.

**The pool.** `PoolInv` adds to `NoLostWakeUp` that no request is counted twice
(`QueueCounted`: a worker's own request is one of the total, which keeps a requeue within the
types), and that where run has waited for the pool no worker is left (`Waited`). For `SyncAsAlone`
no invariant is needed but the type of `cancelled`: start, failed start, shutdown and crash
change the sync's variables only in ways SyncMonitor has. So what SyncMonitor
promises holds in the process, and `BlipsUnnoticedInService` states one such promise.

**The watchlist.** `NothingBelowCursor` says nothing of the pass in progress, which is
what moves the cursor. `GapOnTop` does: an entry this pass would leave unscheduled is
either below the pages read so far, or was added behind its back and is at least as new as
everything collected, so that saving what was collected cannot put the cursor above it. It is
kept across an `Add`, which shifts every page, and across a `Remove` only during
a pass that has not read a page yet, all others being what `shrunk` excludes. Where the pass
ends at the last page nothing is left to read (`LastPageEnds`), and where it ends at
an entry older than the cursor nothing it misses is older than that (`MissingNotOlder`).
`RowPerRequest` is `OncePerMovie`'s other half: requests are created with the row that
remembers them.

**The session.** `LossSeen` follows a session from the login that made it to the page that
shows whether it helped: if it is not there any more, a loss was recorded for that flight or
call, so that the only other way to a rejection is an unclear page in performLogin's check.
`OneFlight` is what the group is for: no two callers lead under one key. With it `Accounted`
is inductive: while the session lives, EnsureSession has logged in at most once more often
than it has doubted a live session, and not even that once while its flight is about to post
the form; while it is dead nothing is counted yet. A second flight under the same key could
post for the same loss, which is the mutant of `EnsureLogsInOnce`.

Only model-checked: liveness (`EverySubmissionSettles`, `EveryMovieScheduled`,
`EveryCallReturns`, `HeldPairStored`, `AttemptEnds`, `WorkGetsAWorker`, `ShutdownEnds`,
`MonitorCatchesUp`), since the prover handles neither fairness nor ENABLED. The refinements
are proved as safety: that the abstract specification allows every step.

## 5. Findings

Each of these has a run with a counterexample:

* **Delete may leave the file** (`queue_delete`, store.go:523). The path is the one read
  before the DELETE, while a worker may be saving the file.
* **A retryable failure is forgotten when the filter takes the rest** (`attempt_verdict`,
  worker.go:232). With candidates from one tracker, all of them mockbusters, and another
  tracker down, the request is NOT_FOUND at once, where combineFailures says of a retryable
  failure that the tracker "may have been holding the better release".
* **A long first import does not continue** (`trakt_import`, sync.go:265). After a pass cut
  short at TRAKT_MAX_PAGES the cursor is at the newest entry, and all later passes stop
  before the unread ones.

These are behind the history variables of section 3, so the models contain them and the
properties are stated around them:

* **Cancel is not limited to requests that have not started** (`raced`, store.go:514). The
  UPDATE names only the id; a claim after the Get is overwritten, and the worker then
  overwrites CANCELLED with FOUND and DOWNLOADED.
* **A removal hides an entry** (`shrunk`, sync.go:252). Pages are read by number; an entry
  that moves up a page between two reads is passed over, for good.
* **An expired session may cost several logins** (`logins`, client.go:472), where
  client.go:6-8 promises that "five workers hitting an expired session trigger exactly one
  re-login". EnsureSession and login use different keys: one caller's check and another's page
  meet the same dead session in two flights, and a caller whose page was logged out logs in
  without a look at the session others have renewed since. `EnsureLogsInOnce` is what is left
  of the promise.
* **Accepted credentials may be reported as rejected** (`lost`, client.go:513), where
  errors.go:15 says that ErrLoginFailed "means the credentials were rejected". One unclear
  page after an accepted form, or a session dropped before it, is enough, and handleError
  takes the error for permanent.
* **The held pair may be dead** (`mishap`, tokensource.go:174). A save that was carried out
  but timed out leaves the pair in the document too, where the plugin renews it; the next
  Refresh writes the dead pair over the live one or keeps presenting it.
* **The server may fail unnoticed** (`ListenFails`, main.go:108). A port in use ends
  Server.Start, and `run` waits for workers that only a signal stops.
* **The last mirror decides** (`RetryableNotFinal`, tracker/client.go:421). A mirror that was
  briefly down and another that refuses for good make the request FAILED.

## 6. Plan

Done: RequestQueue, Attempt, Service, SyncMonitor, TraktSync, TrackerSession, TokenGrant and
RequestLifecycle; the refinements between them; the proofs of all safety properties and
refinements. Next, in order:

1. TokenGrant with several linked accounts: a held pair is not tied to an account
   (tokensource.go:117).
2. The race of a retry with the other request for the same movie (store.go:484), and the order
   of the rows of one batch (store.go:354), as properties of RequestQueue.
3. More lemmas that state the liveness arguments' safety half: the measures that decrease.
4. Service with several starts, and batches larger than the pool.

Not modelled: how titles, topic pages and result pages are read (selectors over third-party
markup, regular expressions; a page is a sequence of releases, "logged out" or an error), the
byte length of a file name (a rename may fail for any reason), configuration (its values are
the constants, what its validation ensures the assumptions), routing and authentication of
the HTTP server, templates and browser code, container and CI.
