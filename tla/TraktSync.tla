------------------------------ MODULE TraktSync ------------------------------
(***************************************************************************)
(* The background sync of a trakt.tv watchlist (trakt/sync.go) with the    *)
(* table that remembers which movies it has scheduled (trakt_movies).      *)
(*                                                                         *)
(* The watchlist is read newest first, one page per HTTP call, while its   *)
(* owner may be editing it.  A pass starts from a cursor, the listed_at of *)
(* the newest movie recorded so far, and stops at the first older entry.   *)
(***************************************************************************)
EXTENDS Integers, Sequences, FiniteSets

CONSTANTS
  Movies,     \* trakt movie ids
  Unusable,   \* movies with no id, no title, or no searchable characters
  PageLimit,  \* TRAKT_PAGE_LIMIT
  MaxPages,   \* TRAKT_MAX_PAGES
  MaxEdits,   \* bound on edits of the watchlist
  MaxFaults,  \* bound on failed calls
  MaxStops    \* bound on crashes and shutdowns

ASSUME TraktAssumption ==
  /\ Unusable \subseteq Movies
  /\ PageLimit \in Nat \ {0} /\ MaxPages \in Nat \ {0}
  /\ MaxEdits \in Nat /\ MaxFaults \in Nat /\ MaxStops \in Nat

VARIABLES
  watchlist,  \* at trakt: entries, newest first
  clock,      \* the second the latest entry was listed in
  listedAt,   \* the table: movie -> listed_at of its row, 0 without a row
  requests,   \* movie -> number of requests created for it
  walk,       \* the pass in progress
  truncated,  \* history: a pass has stopped at MaxPages
  shrunk,     \* history: an entry was removed while a pass was between two pages
  edits, faults, stops

vars == <<watchlist, clock, listedAt, requests, walk, truncated, shrunk, edits, faults, stops>>

Entry == [movie : Movies, at : Nat \ {0}]

NoWalk == [pc |-> "idle", page |-> 0, cursor |-> 0, items |-> {}, refreshed |-> FALSE]

Walk == [pc : {"idle", "fetch", "save"}, page : 0 .. MaxPages, cursor : Nat,
         items : SUBSET Entry, refreshed : BOOLEAN]

Listed == {watchlist[i] : i \in 1 .. Len(watchlist)}

OnWatchlist(m) == \E e \in Listed : e.movie = m

Recorded(m) == listedAt[m] # 0

\* TraktCursor: MAX(listed_at), or zero when the table is empty.
Cursor ==
  CHOOSE c \in {listedAt[m] : m \in Movies} \cup {0} : \A m \in Movies : listedAt[m] <= c

Init ==
  /\ watchlist = <<>> /\ clock = 1
  /\ listedAt = [m \in Movies |-> 0]
  /\ requests = [m \in Movies |-> 0]
  /\ walk = NoWalk
  /\ truncated = FALSE /\ shrunk = FALSE
  /\ edits = 0 /\ faults = 0 /\ stops = 0

----------------------------------------------------------------------------
(* The owner of the watchlist.  Several entries may share a second. *)

Add(m, tick) ==
  /\ ~OnWatchlist(m) /\ edits < MaxEdits
  /\ clock' = clock + tick
  /\ watchlist' = <<[movie |-> m, at |-> clock + tick]>> \o watchlist
  /\ edits' = edits + 1
  /\ UNCHANGED <<listedAt, requests, walk, truncated, shrunk, faults, stops>>

\* No movie is listed twice, so a removal takes out one entry.
Remove(i) ==
  /\ edits < MaxEdits
  /\ watchlist' = SubSeq(watchlist, 1, i - 1) \o SubSeq(watchlist, i + 1, Len(watchlist))
  /\ shrunk' = (shrunk \/ (walk.pc = "fetch" /\ walk.page > 1))
  /\ edits' = edits + 1
  /\ UNCHANGED <<clock, listedAt, requests, walk, truncated, faults, stops>>

----------------------------------------------------------------------------
(* A pass: SyncOnce and collect. *)

\* The token is read, then the cursor.
Begin ==
  /\ walk.pc = "idle"
  /\ walk' = [NoWalk EXCEPT !.pc = "fetch", !.page = 1, !.cursor = Cursor]
  /\ UNCHANGED <<watchlist, clock, listedAt, requests, truncated, shrunk, edits, faults, stops>>

PageEntries(page) ==
  {watchlist[i] : i \in {j \in 1 .. Len(watchlist) :
                           (page - 1) * PageLimit < j /\ j <= page * PageLimit}}

\* isLastPage: by X-Pagination-Page-Count when trakt sends it, else by a short page.
IsLastPage(page, counted) ==
  IF counted THEN page * PageLimit >= Len(watchlist)
  ELSE Cardinality(PageEntries(page)) < PageLimit

\* Fault, for mutation: the entries as old as the cursor are taken for old ones.
OlderOrEqual(entry, cursor) == cursor # 0 /\ entry.at <= cursor

Older(entry, cursor) == cursor # 0 /\ entry.at < cursor

\* toRequest rejects an unusable entry; a movie met twice is taken once.
Collected(entries, cursor, items) ==
  items \cup {e \in entries :
    ~Older(e, cursor) /\ e.movie \notin Unusable /\ \A x \in items : x.movie # e.movie}

\* Fault, for mutation: the limit on pages is checked one page late.
OutOfPagesLate(page) == page > MaxPages

OutOfPages(page) == page = MaxPages

Fetch(counted) ==
  LET entries == PageEntries(walk.page)
      reached == \E e \in entries : Older(e, walk.cursor)
      done == reached \/ IsLastPage(walk.page, counted)
      read == [walk EXCEPT !.items = Collected(entries, walk.cursor, @)]
  IN
  /\ walk.pc = "fetch"
  /\ walk' = IF done \/ OutOfPages(walk.page) THEN [read EXCEPT !.pc = "save"]
             ELSE [read EXCEPT !.page = @ + 1]
  /\ truncated' = (truncated \/ (~done /\ OutOfPages(walk.page)))
  /\ UNCHANGED <<watchlist, clock, listedAt, requests, shrunk, edits, faults, stops>>

\* Fault, for mutation: the pages read before a failure are queued.
FailFetchKeepingPages ==
  /\ walk.pc = "fetch" /\ faults < MaxFaults
  /\ walk' = [walk EXCEPT !.pc = "save"]
  /\ faults' = faults + 1
  /\ UNCHANGED <<watchlist, clock, listedAt, requests, truncated, shrunk, edits, stops>>

\* A page cannot be read, or the first 401 cannot be answered with a refresh: the
\* pages read so far are dropped.
FailFetch ==
  /\ walk.pc = "fetch" /\ faults < MaxFaults
  /\ walk' = NoWalk
  /\ faults' = faults + 1
  /\ UNCHANGED <<watchlist, clock, listedAt, requests, truncated, shrunk, edits, stops>>

\* The first 401 of a pass: the token is refreshed and the walk starts over, with
\* the cursor it had.
Unauthorized ==
  /\ walk.pc = "fetch" /\ ~walk.refreshed /\ faults < MaxFaults
  /\ walk' = [walk EXCEPT !.page = 1, !.items = {}, !.refreshed = TRUE]
  /\ faults' = faults + 1
  /\ UNCHANGED <<watchlist, clock, listedAt, requests, truncated, shrunk, edits, stops>>

\* Fault, for mutation: a row is looked up by its watchlist entry, not by its movie.
ScheduledByEntry == {e \in walk.items : listedAt[e.movie] # e.at}

\* CreateTraktRequests: one transaction, which skips every movie that has a row.
Scheduled == {e \in walk.items : ~Recorded(e.movie)}

CreateTraktRequests ==
  /\ walk.pc = "save"
  /\ listedAt' = [m \in Movies |->
       IF \E e \in Scheduled : e.movie = m
       THEN (CHOOSE e \in Scheduled : e.movie = m).at ELSE listedAt[m]]
  /\ requests' = [m \in Movies |->
       requests[m] + Cardinality({e \in Scheduled : e.movie = m})]
  /\ walk' = NoWalk
  /\ UNCHANGED <<watchlist, clock, truncated, shrunk, edits, faults, stops>>

FailSave ==
  /\ walk.pc = "save" /\ faults < MaxFaults
  /\ walk' = NoWalk
  /\ faults' = faults + 1
  /\ UNCHANGED <<watchlist, clock, listedAt, requests, truncated, shrunk, edits, stops>>

\* A crash or a shutdown ends the pass; the next one runs at start-up.
Stop ==
  /\ walk.pc # "idle" /\ stops < MaxStops
  /\ walk' = NoWalk
  /\ stops' = stops + 1
  /\ UNCHANGED <<watchlist, clock, listedAt, requests, truncated, shrunk, edits, faults>>

Sync ==
  \/ Begin
  \/ \E counted \in BOOLEAN : Fetch(counted)
  \/ CreateTraktRequests

Next ==
  \/ \E m \in Movies, tick \in {0, 1} : Add(m, tick)
  \/ \E i \in 1 .. Len(watchlist) : Remove(i)
  \/ Sync
  \/ FailFetch \/ Unauthorized \/ FailSave \/ Stop

Spec == Init /\ [][Next]_vars

\* The ticker starts a pass every interval, and every HTTP call has a timeout.
FairSpec == Spec /\ WF_vars(Sync)

----------------------------------------------------------------------------
(* Properties. *)

\* The types of the table, of the local variables of collect, and of the watchlist,
\* which trakt serves in the order of listed_at.
TypeOK ==
  /\ watchlist \in Seq(Entry)
  /\ \A i, j \in 1 .. Len(watchlist) :
       i < j => /\ watchlist[i].at >= watchlist[j].at
                /\ watchlist[i].movie # watchlist[j].movie
  /\ clock \in Nat \ {0} /\ \A e \in Listed : e.at <= clock
  /\ listedAt \in [Movies -> Nat] /\ requests \in [Movies -> Nat]
  /\ walk \in Walk
  /\ truncated \in BOOLEAN /\ shrunk \in BOOLEAN
  /\ edits \in Nat /\ faults \in Nat /\ stops \in Nat

\* No movie is ever scheduled twice: not when it is removed and added again, not
\* when a pass meets it on two pages, not after a failed or interrupted pass
\* (README, "Each movie is scheduled once").
OncePerMovie == \A m \in Movies : requests[m] <= 1

\* What lies below the cursor has been scheduled, so that stopping there loses
\* nothing: by all-or-nothing passes, whatever fails or is added in between
\* (collect).  The two ways in which the code does lose entries are excluded.
NothingBelowCursor ==
  ~truncated /\ ~shrunk =>
    \A e \in Listed : e.at < Cursor /\ e.movie \notin Unusable => Recorded(e.movie)

\* Every usable movie on the watchlist is scheduled, or taken off it, under the same
\* exclusions: a movie listed while a pass runs, or in the second of the cursor,
\* is not passed over.
EveryMovieScheduled ==
  \A m \in Movies \ Unusable :
    OnWatchlist(m) ~> (Recorded(m) \/ ~OnWatchlist(m) \/ truncated \/ shrunk)

\* What the documentation says and the code does not keep (see README, findings).

\* "A first import longer than TRAKT_PAGE_LIMIT x TRAKT_MAX_PAGES continues on the
\* following runs" (README.md:102-104): a movie the first pass did not reach is
\* scheduled by a later one.
ImportContinues ==
  \A m \in Movies \ Unusable :
    OnWatchlist(m) ~> (Recorded(m) \/ ~OnWatchlist(m) \/ shrunk)

=============================================================================
