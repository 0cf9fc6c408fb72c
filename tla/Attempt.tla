------------------------------- MODULE Attempt -------------------------------
(***************************************************************************)
(* One request in the hands of a worker (worker/worker.go, process): the   *)
(* search of every tracker, the ranking of what they offer, the mockbuster *)
(* filter, the download from the release's mirrors, and the verdict on the *)
(* attempt.  RequestQueue has the same steps for many requests and workers,*)
(* with the outcome of each stage left open; here it is computed.          *)
(***************************************************************************)
EXTENDS Integers, FiniteSets, Sequences

CONSTANTS
  Trackers,     \* how many trackers are configured; they are numbered in that order
  Configs,      \* settings the process may be started with
  Torrents,     \* rows a result page may hold
  Pages,        \* Pages[i]: the result pages tracker i may answer with
  None,         \* no torrent
  MaxAttempts,  \* RETRY_MAX_ATTEMPTS
  BaseSeconds,  \* RETRY_BASE_SECONDS
  MaxBackoff,   \* RETRY_MAX_BACKOFF_SECONDS
  MaxStops,     \* bound on shutdowns
  MaxFaults     \* bound on failed statements

\* filter: MOCKBUSTER_FILTER_ENABLED; for each tracker, maxSize: MAX_SIZE_BYTES, 0 for none,
\* and priority: PRIORITY.
Config == [filter : BOOLEAN, maxSize : [1 .. Trackers -> Nat], priority : [1 .. Trackers -> Nat]]

\* quality and codec: their ranks; size: 0 if no size could be read; mock: where a
\* blocked company is named; topic: the row links to a topic page; mirrors: how many
\* addresses there are to fetch the .torrent from.
Torrent == [quality : 1 .. 4, codec : 1 .. 3, size : Nat,
            mock : {"nowhere", "title", "page"}, topic : BOOLEAN, mirrors : 0 .. 2]

Candidate == [tracker : 1 .. Trackers, torrent : Torrents]

ASSUME AttemptAssumption ==
  /\ Trackers \in Nat \ {0}
  /\ Configs \subseteq Config
  /\ Torrents \subseteq Torrent /\ None \notin Torrents \cup Candidate
  /\ \A i \in 1 .. Trackers : Pages[i] \subseteq Seq(Torrents)
  /\ MaxAttempts \in Nat \ {0}
  /\ BaseSeconds \in Nat \ {0} /\ MaxBackoff \in Nat /\ MaxBackoff >= BaseSeconds
  /\ MaxStops \in Nat /\ MaxFaults \in Nat

VARIABLES
  config,   \* the settings of this deployment
  mode,     \* the process, as in RequestQueue
  row,      \* status, attempt_count and next_attempt_at of the request
  wait,     \* next_attempt_at as it was set last, counted from that second; 0 for NULL
  pc,       \* where process is
  answers,  \* each tracker's outcome: the page, its error or the candidates made of the page
  left,     \* the candidates not looked at yet, best first
  best,     \* the candidate chosen
  unread,   \* history: the topic page of best could not be fetched
  errors,   \* the errors of the download so far, the last of which counts
  saved,    \* torrents saved under the request's id
  stops, faults

workVars == <<pc, answers, left, best, unread, errors>>
vars == <<config, mode, row, wait, workVars, saved, stops, faults>>

Failure == {"no_results", "permanent", "transient"}
Pending == [page |-> <<>>, error |-> "pending", found |-> <<>>]

Init ==
  /\ config \in Configs
  /\ mode = "running"
  /\ row = [status |-> "QUEUED", attempt |-> 0, next |-> "null"] /\ wait = 0
  /\ pc = "idle" /\ answers = [i \in 1 .. Trackers |-> Pending]
  /\ left = <<>> /\ best = None /\ unread = FALSE /\ errors = <<>>
  /\ saved = {} /\ stops = 0 /\ faults = 0

----------------------------------------------------------------------------
(* Ranking. *)

Priority(c) == config.priority[c.tracker]

\* Fault, for mutation: the tracker before the picture.
BetterByTracker(a, b) == Priority(a) < Priority(b)

Better(a, b) ==
  LET x == a.torrent  y == b.torrent IN
  IF x.quality # y.quality THEN x.quality > y.quality
  ELSE IF x.codec # y.codec THEN x.codec > y.codec
  ELSE IF Priority(a) # Priority(b) THEN Priority(a) < Priority(b)
  ELSE x.size > y.size

\* Candidates are sorted by the place <<tracker, number>> each came from: at is a function
\* from places to candidates.
Earlier(p, q) == p[1] < q[1] \/ (p[1] = q[1] /\ p[2] < q[2])

Before(at, p, q) == Better(at[p], at[q]) \/ (~Better(at[q], at[p]) /\ Earlier(p, q))

Ranked(at, n) ==
  CHOOSE p \in DOMAIN at : Cardinality({q \in DOMAIN at : Before(at, q, p)}) = n - 1

\* sort.SliceStable with Better.
Sorted(at) == [n \in 1 .. Cardinality(DOMAIN at) |-> at[Ranked(at, n)]]

----------------------------------------------------------------------------
(* Client.Search and searchAll. *)

\* A size that could not be read is 0.
Fits(i, t) == config.maxSize[i] = 0 \/ t.size <= config.maxSize[i]

Results(i, page) ==
  LET rows == {i} \X {n \in DOMAIN page : Fits(i, page[n])}
  IN Sorted([p \in rows |-> [tracker |-> i, torrent |-> page[p[2]]]])

\* A page without a usable row is an answer, too.
Found(i, page) ==
  [page |-> page, found |-> Results(i, page),
   error |-> IF Results(i, page) = <<>> THEN "no_results" ELSE "none"]

Spots == UNION {{i} \X DOMAIN answers[i].found : i \in 1 .. Trackers}

Candidates == Sorted([p \in Spots |-> answers[p[1]].found[p[2]]])

\* Fault, for mutation: one tracker's permanent failure settles it.
CombinedByWorst ==
  LET found == {answers[i].error : i \in 1 .. Trackers}
  IN IF "permanent" \in found THEN "permanent"
     ELSE IF "transient" \in found THEN "transient" ELSE "no_results"

\* Fault, for mutation: one tracker's silence settles it.
CombinedBySilence ==
  LET found == {answers[i].error : i \in 1 .. Trackers}
  IN IF "no_results" \in found THEN "no_results"
     ELSE IF "transient" \in found THEN "transient" ELSE "permanent"

\* combineFailures.
Combined ==
  LET found == {answers[i].error : i \in 1 .. Trackers}
  IN IF found = {"no_results"} THEN "no_results"
     ELSE IF "transient" \in found THEN "transient" ELSE "permanent"

\* ClaimNext.
Begin ==
  /\ mode = "running" /\ pc = "idle"
  /\ row.status = "QUEUED" /\ row.next # "future"
  /\ row' = [row EXCEPT !.status = "SEARCHING", !.attempt = @ + 1]
  /\ pc' = "search" /\ answers' = [i \in 1 .. Trackers |-> Pending]
  /\ left' = <<>> /\ best' = None /\ unread' = FALSE /\ errors' = <<>>
  /\ UNCHANGED <<config, mode, wait, saved, stops, faults>>

\* A tracker answers, fails, or runs into the timeout; the searches run side by side.
Answer(i) ==
  /\ pc = "search" /\ answers[i] = Pending
  /\ \E answer \in {Found(i, page) : page \in Pages[i]}
                    \cup {[Pending EXCEPT !.error = e] : e \in Failure} :
       answers' = [answers EXCEPT ![i] = answer]
  /\ UNCHANGED <<config, mode, row, wait, pc, left, best, unread, errors, saved, stops, faults>>

----------------------------------------------------------------------------
(* handleError. *)

\* Faults, for mutation: doubling without the cap; the delays start anew each time.
JitteredUncapped(n) == LET d == BaseSeconds * 2 ^ (n - 1) IN d \div 2 .. d
JitteredFlat(n) == BaseSeconds \div 2 .. BaseSeconds

\* Backoff before the jitter, in seconds.
Delay[n \in Nat] ==
  IF n <= 1 THEN BaseSeconds
  ELSE IF 2 * Delay[n - 1] >= MaxBackoff THEN MaxBackoff ELSE 2 * Delay[n - 1]

\* The jitter leaves a real number of seconds from d / 2 up to, but not including, d.  It
\* is added to a time within a second, and ScheduleRetry cuts the sum to a whole second
\* (store.go:434): counted from the second it was added in, floor(d / 2) to d of them.
Jittered(n) == Delay[n] \div 2 .. Delay[n]

\* Fault, for mutation: every error may be retried.
VerdictRetryAll(error) == IF row.attempt >= MaxAttempts THEN "FAILED" ELSE "QUEUED"

Verdict(error) ==
  IF error = "no_results" THEN "NOT_FOUND"
  ELSE IF error = "permanent" \/ row.attempt >= MaxAttempts THEN "FAILED"
  ELSE "QUEUED"

Conclude(error) ==
  /\ mode = "running"
  /\ pc' = "idle"
  /\ row' = [row EXCEPT !.status = Verdict(error),
                        !.next = IF Verdict(error) = "QUEUED" THEN "future" ELSE "null"]
  /\ wait' \in (IF Verdict(error) = "QUEUED" THEN Jittered(row.attempt) ELSE {0})

\* Under a cancelled context handleError, or the statement, leaves the row as it is.
Abandon ==
  /\ mode = "stopping" /\ pc # "idle"
  /\ pc' = "idle"
  /\ UNCHANGED <<config, mode, row, wait, answers, left, best, unread, errors, saved, stops, faults>>

\* A statement fails: it is logged and process returns.
LoseOutcome ==
  /\ mode = "running" /\ pc # "idle"
  /\ faults < MaxFaults /\ faults' = faults + 1
  /\ pc' = "idle"
  /\ UNCHANGED <<config, mode, row, wait, answers, left, best, unread, errors, saved, stops>>

----------------------------------------------------------------------------
(* Choosing a release. *)

\* searchAll returns once every tracker has answered; without a candidate the attempt
\* is over.
Rank ==
  /\ pc = "search" /\ \A i \in 1 .. Trackers : answers[i] # Pending
  /\ \E candidates \in {Candidates} :
       /\ left' = candidates
       /\ IF candidates = <<>>
          THEN Conclude(Combined)
          ELSE pc' = "inspect" /\ UNCHANGED <<row, wait>>
  /\ UNCHANGED <<config, mode, answers, best, unread, errors, saved, stops, faults>>

\* Fault, for mutation: titles are not checked.
KnownNot(t) == FALSE

Known(t) == config.filter /\ t.mock = "title"
Inspected(t) == config.filter /\ t.mock # "title" /\ t.topic

\* Fault, for mutation: a candidate passed over goes to the end of the list.
SkipForNow ==
  /\ pc = "inspect" /\ left # <<>>
  /\ LET t == Head(left).torrent IN Known(t) \/ (Inspected(t) /\ t.mock = "page")
  /\ left' = Append(Tail(left), Head(left))
  /\ UNCHANGED <<config, mode, row, wait, pc, answers, best, unread, errors, saved, stops, faults>>

\* The company is named in the title, or on the page, which could be fetched.
Skip ==
  /\ pc = "inspect" /\ left # <<>>
  /\ LET t == Head(left).torrent IN Known(t) \/ (Inspected(t) /\ t.mock = "page")
  /\ left' = Tail(left)
  /\ UNCHANGED <<config, mode, row, wait, pc, answers, best, unread, errors, saved, stops, faults>>

\* MarkFound: not inspected, inspected and clean, or its page could not be fetched.
Choose ==
  /\ mode = "running" /\ pc = "inspect" /\ left # <<>>
  /\ LET t == Head(left).torrent IN
       \/ ~Known(t) /\ ~(Inspected(t) /\ t.mock = "page") /\ unread' = FALSE
       \/ Inspected(t) /\ unread' = TRUE
  /\ best' = Head(left)
  /\ row' = [row EXCEPT !.status = "FOUND"]
  /\ pc' = "fetch"
  /\ UNCHANGED <<config, mode, wait, answers, left, errors, saved, stops, faults>>

\* All were filtered out.  The branch that would retry when no page at all could be
\* fetched is never taken: such a candidate is chosen at once.
FilteredOut ==
  /\ pc = "inspect" /\ left = <<>>
  /\ Conclude("no_results")
  /\ UNCHANGED <<config, mode, answers, left, best, unread, errors, saved, stops, faults>>

----------------------------------------------------------------------------
(* Client.Download. *)

Tried == Len(errors)

\* A mirror fails: the next one is tried, or the last error stands.
FetchFails ==
  /\ pc = "fetch" /\ Tried < best.torrent.mirrors
  /\ \E error \in {"permanent", "transient"} :
       /\ errors' = Append(errors, error)
       /\ IF Tried + 1 < best.torrent.mirrors
          THEN UNCHANGED <<row, wait, pc>>
          ELSE Conclude(error)
  /\ UNCHANGED <<config, mode, answers, left, best, unread, saved, stops, faults>>

NoAddress ==
  /\ pc = "fetch" /\ best.torrent.mirrors = 0
  /\ errors' = Append(errors, "permanent")
  /\ Conclude("permanent")
  /\ UNCHANGED <<config, mode, answers, left, best, unread, saved, stops, faults>>

\* The content has arrived.
Fetch ==
  /\ pc = "fetch" /\ Tried < best.torrent.mirrors
  /\ pc' = "temp"
  /\ UNCHANGED <<config, mode, row, wait, answers, left, best, unread, errors, saved, stops, faults>>

\* The disk is full, or the directory is not writable.
SaveFails ==
  /\ pc = "temp"
  /\ errors' = Append(errors, "permanent")
  /\ Conclude("permanent")
  /\ UNCHANGED <<config, mode, answers, left, best, unread, saved, stops, faults>>

Save ==
  /\ pc = "temp"
  /\ pc' = "saved"
  /\ saved' = saved \cup {best.torrent}
  /\ UNCHANGED <<config, mode, row, wait, answers, left, best, unread, errors, stops, faults>>

MarkDownloaded ==
  /\ mode = "running" /\ pc = "saved"
  /\ pc' = "idle"
  /\ row' = [row EXCEPT !.status = "DOWNLOADED", !.next = "null"] /\ wait' = 0
  /\ UNCHANGED <<config, mode, answers, left, best, unread, errors, saved, stops, faults>>

Step ==
  \/ Begin \/ (\E i \in 1 .. Trackers : Answer(i)) \/ Rank
  \/ Skip \/ Choose \/ FilteredOut
  \/ FetchFails \/ NoAddress \/ Fetch \/ SaveFails \/ Save \/ MarkDownloaded
  \/ Abandon

----------------------------------------------------------------------------
(* The process around the worker. *)

Shutdown ==
  /\ mode = "running" /\ stops < MaxStops
  /\ mode' = "stopping" /\ stops' = stops + 1
  /\ UNCHANGED <<config, row, wait, workVars, saved, faults>>

Exit ==
  /\ mode = "stopping" /\ pc = "idle"
  /\ mode' = "down"
  /\ UNCHANGED <<config, row, wait, workVars, saved, stops, faults>>

\* Recover.
Start ==
  /\ mode = "down" /\ mode' = "running"
  /\ IF row.status \in {"SEARCHING", "FOUND"}
     THEN row' = [row EXCEPT !.status = "QUEUED", !.next = "null"] /\ wait' = 0
     ELSE UNCHANGED <<row, wait>>
  /\ UNCHANGED <<config, workVars, saved, stops, faults>>

\* The time in next_attempt_at passes.
RetryDue ==
  /\ row.status = "QUEUED" /\ row.next = "future"
  /\ row' = [row EXCEPT !.next = "past"]
  /\ UNCHANGED <<config, mode, wait, workVars, saved, stops, faults>>

Next == Step \/ LoseOutcome \/ Shutdown \/ Exit \/ Start \/ RetryDue

Spec == Init /\ [][Next]_vars

\* Every call to a tracker has a timeout, and so has the attempt.
FairSpec == Spec /\ WF_vars(Step)

----------------------------------------------------------------------------
(* Properties. *)

TypeOK ==
  /\ config \in Configs
  /\ mode \in {"running", "stopping", "down"}
  /\ row \in [status : {"QUEUED", "SEARCHING", "FOUND", "DOWNLOADED", "NOT_FOUND", "FAILED"},
              attempt : 0 .. MaxAttempts + MaxStops, next : {"null", "future", "past"}]
  /\ wait \in 0 .. MaxBackoff
  /\ pc \in {"idle", "search", "inspect", "fetch", "temp", "saved"}
  /\ \A i \in 1 .. Trackers : /\ answers[i].error \in Failure \cup {"none", "pending"}
                             /\ answers[i].page \in Pages[i] \cup {<<>>}
                             /\ answers[i].found \in Seq(Candidate)
  /\ left \in Seq(Candidate) /\ best \in Candidate \cup {None} /\ unread \in BOOLEAN
  /\ errors \in Seq({"permanent", "transient"})
  /\ saved \subseteq Torrents
  /\ stops \in 0 .. MaxStops /\ faults \in 0 .. MaxFaults

\* A row of a result page, by its tracker and its place there.
Places == UNION {{i} \X DOMAIN answers[i].page : i \in 1 .. Trackers}
At(place) == answers[place[1]].page[place[2]]
Offers ==
  {place \in Places : LET limit == config.maxSize[place[1]] IN limit = 0 \/ At(place).size <= limit}
Genuine(place) == ~config.filter \/ At(place).mock = "nowhere"

\* "Precedence is strict: quality tier, then codec, then tracker priority, then larger
\* size" (media.go:120), then the order of the configuration and of the page.
Merits(place) ==
  LET t == At(place)
  IN <<t.quality, t.codec, -config.priority[place[1]], t.size, -place[1], -place[2]>>

Outranks(x, y) ==
  \E k \in 1 .. 6 : Merits(x)[k] > Merits(y)[k] /\ \A l \in 1 .. k - 1 : Merits(x)[l] = Merits(y)[l]

\* The release taken is the best of all that were offered, by whichever tracker and in
\* whatever order they answered, whether or not others failed: sorting twice, merging
\* and filtering loses none that is genuine.
BestReleaseTaken ==
  best # None =>
    \E taken \in Offers :
      /\ best = [tracker |-> taken[1], torrent |-> At(taken)]
      /\ \A other \in Offers : Genuine(other) => ~Outranks(other, taken)

\* A blocked release gets through only unseen: its title is clean, and its page could not
\* be fetched (worker.go:202) or there is none.
MockbustersKeptOut ==
  best # None /\ config.filter /\ best.torrent.mock # "nowhere" =>
    best.torrent.mock = "page" /\ (unread \/ ~best.torrent.topic)

\* "Silence from every tracker is an answer (NOT_FOUND)" (worker.go:325): the request is
\* given up as not found only when nothing offered was genuine; and when nothing at all
\* was offered, only after every tracker said so.
SilenceIsTheAnswer ==
  row.status = "NOT_FOUND" =>
    /\ \A place \in Offers : ~Genuine(place)
    /\ Offers = {} => \A i \in 1 .. Trackers : answers[i].error \in {"none", "no_results"}

\* What may still work is not given up before the last attempt: a request fails early
\* only if no tracker failed in a retryable way, or if some mirror of its release, or
\* the disk, failed for good.
RetryableNotFinal ==
  row.status = "FAILED" /\ row.attempt < MaxAttempts =>
    \/ best = None /\ \A i \in 1 .. Trackers : answers[i].error # "transient"
    \/ best # None /\ \E k \in 1 .. Len(errors) : errors[k] = "permanent"

\* "3s -> 6s -> 12s -> 24s -> 48s with jitter, capped at 60s" (README.md:244): what is
\* stored is never sooner than for the attempt before, until the cap, where it is half the
\* cap cut to whole seconds or more; nor is it ever later than the cap.
BackoffGrows ==
  [][row.next # "future" /\ row'.next = "future" =>
       /\ wait' <= MaxBackoff /\ (row.attempt = 1 => wait' <= BaseSeconds)
       /\ wait' >= wait \/ 2 * wait' + 1 >= MaxBackoff]_vars

\* An attempt ends, whatever the trackers do.
AttemptEnds == pc # "idle" ~> pc = "idle"

(***************************************************************************)
(* The steps of RequestQueue this module details, for the one request 1.   *)
(***************************************************************************)
QueueRow ==
  [status |-> row.status, attempt |-> row.attempt, next |-> row.next, force |-> FALSE,
   query |-> "query", created |-> 0,
   path |-> IF row.status = "DOWNLOADED" THEN <<1, best.torrent>> ELSE <<>>]

QueueTask ==
  IF pc = "idle" THEN [pc |-> "idle", req |-> None, attempt |-> 0, release |-> None]
  ELSE [pc |-> IF pc = "inspect" THEN "search" ELSE pc, req |-> 1, attempt |-> row.attempt,
        release |-> IF best = None THEN None ELSE best.torrent]

Queue == INSTANCE RequestQueue WITH
  Requests <- {1}, Workers <- {1}, Operators <- {}, Queries <- {"query"}, Releases <- Torrents,
  DuplicateCheck <- FALSE, Watched <- FALSE, MaxCalls <- 0, rows <- [r \in {1} |-> QueueRow],
  clock <- 0, task <- [w \in {1} |-> QueueTask], call <- [o \in {} |-> None],
  files <- {<<1, t>> : t \in saved}, taken <- {}, litter <- 0, raced <- {}, calls <- 0

\* What the trackers, the pages and the mirrors make of an attempt is one of the outcomes
\* RequestQueue leaves open, with the same row, file and retry.
ImplementsQueue == [][Queue!Next]_(Queue!vars)

\* "one tracker failing in a retryable way makes the whole attempt retryable, because that
\* tracker may have been holding the better release" (worker.go:325): the code does not
\* hold on to that once another tracker offered something, even if all of it is
\* filtered out (worker.go:221).
NotFoundOnlyIfAllAnswered ==
  row.status = "NOT_FOUND" => \A i \in 1 .. Trackers : answers[i].error # "transient"

=============================================================================
