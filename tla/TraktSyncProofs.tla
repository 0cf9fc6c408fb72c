---------------------------- MODULE TraktSyncProofs ----------------------------
(* Each movie is scheduled once and none is passed over, for any set of movies, *)
(* any page size and number of pages, edits, failures and stops.                *)
EXTENDS TraktSync, SequenceTheorems, FiniteSetTheorems, TLAPS

\* The walk in progress: its cursor is the table's, it has read nothing before its
\* first page, and it has taken each movie once, from the past.
WalkInv ==
  /\ walk.pc # "idle" => walk.cursor = Cursor
  /\ walk.pc = "fetch" => walk.page # 0 /\ (walk.page = 1 => walk.items = {})
  /\ \A x, y \in walk.items : x.movie = y.movie => x = y
  /\ \A x \in walk.items : x.at <= clock
  /\ \A m \in Movies : listedAt[m] <= clock

\* Requests are created with the row that remembers them.
RowPerRequest == \A m \in Movies : requests[m] = IF Recorded(m) THEN 1 ELSE 0

\* An entry the save of this walk would leave unscheduled.
Missing(e) ==
  e.movie \notin Unusable /\ ~Recorded(e.movie) /\ \A x \in walk.items : x.movie # e.movie

NewerThanItems(e) == \A x \in walk.items : x.at <= e.at

\* What the walk has missed so far is still to be read or was added behind its back,
\* on top of all it has read.
GapOnTop ==
  ~truncated /\ ~shrunk =>
    /\ walk.pc = "fetch" =>
         \A i \in 1 .. Len(watchlist) : Missing(watchlist[i]) =>
           (walk.page - 1) * PageLimit < i \/ NewerThanItems(watchlist[i])
    /\ walk.pc = "save" => \A e \in Listed : Missing(e) => NewerThanItems(e)

SyncInv == TypeOK /\ WalkInv /\ RowPerRequest /\ NothingBelowCursor /\ GapOnTop

----------------------------------------------------------------------------
(* Helpers. *)

\* A non-empty set of numbers with an upper bound has a greatest one.
LEMMA GreatestExists ==
  ASSUME NEW S \in SUBSET Nat, S # {}, NEW n \in Nat, \A s \in S : s <= n
  PROVE  \E c \in S : \A s \in S : s <= c
<1> DEFINE Above(c) == {d \in S : d > c}
           T == {Above(c) : c \in S}
<1>1. IsFiniteSet(S)
  BY FS_BoundedSetOfNaturals
<1>2. IsWellFoundedOn(StrictSubsetOrdering(S), FiniteSubsetsOf(S))
  BY FS_StrictSubsetOrderingWellFounded
<1>3. T \subseteq FiniteSubsetsOf(S) /\ T # {}
  <2>1. \A c \in S : Above(c) \in SUBSET S
    OBVIOUS
  <2>2. T \subseteq SUBSET S /\ T # {}
    BY <2>1
  <2> QED
    BY <1>1, <2>2, FS_FiniteSubsetsOfFinite
<1> HIDE DEF T
<1>4. PICK U \in T : \A V \in T : <<V, U>> \notin StrictSubsetOrdering(S)
  BY <1>2, <1>3, WFMin
<1>5. PICK c \in S : U = Above(c)
  BY DEF T
<1>6. ASSUME NEW s \in S, ~(s <= c) PROVE FALSE
  <2>1. s \in Nat /\ c \in Nat /\ s > c
    BY <1>6
  <2>2. s \in Above(c) /\ s \notin Above(s)
    BY <2>1
  <2>5. ASSUME NEW d \in Above(s) PROVE d \in Above(c)
    <3>1. d \in S /\ d \in Nat /\ d > s
      OBVIOUS
    <3> QED
      BY <2>1, <3>1
  <2>3. <<Above(s), Above(c)>> \in StrictSubsetOrdering(S)
    <3> HIDE DEF Above
    <3>1. Above(s) \subseteq Above(c) /\ Above(s) # Above(c)
      BY <2>2, <2>5
    <3>2. Above(s) \in SUBSET S /\ Above(c) \in SUBSET S
      BY DEF Above
    <3> QED
      BY <3>1, <3>2 DEF StrictSubsetOrdering
  <2>4. Above(s) \in T
    BY DEF T
  <2> QED
    BY <1>4, <1>5, <2>3, <2>4
<1> QED
  BY <1>6

\* TraktCursor: the greatest listed_at.
LEMMA CursorOfTable ==
  ASSUME NEW t \in [Movies -> Nat], NEW n \in Nat, \A m \in Movies : t[m] <= n,
         NEW cursor,
         cursor = CHOOSE c \in {t[m] : m \in Movies} \cup {0} : \A m \in Movies : t[m] <= c
  PROVE  /\ cursor \in Nat /\ cursor <= n
         /\ \A m \in Movies : t[m] <= cursor
         /\ cursor # 0 => \E m \in Movies : cursor = t[m]
<1> DEFINE S == {t[m] : m \in Movies} \cup {0}
<1>1. S \in SUBSET Nat /\ S # {} /\ \A s \in S : s <= n
  OBVIOUS
<1>2. \E c \in S : \A s \in S : s <= c
  BY <1>1, GreatestExists
<1>3. \E c \in S : \A m \in Movies : t[m] <= c
  BY <1>2
<1>4. cursor \in S /\ \A m \in Movies : t[m] <= cursor
  BY <1>3
<1> QED
  BY <1>1, <1>4

LEMMA CursorProperties ==
  ASSUME listedAt \in [Movies -> Nat], NEW n \in Nat, \A m \in Movies : listedAt[m] <= n
  PROVE  /\ Cursor \in Nat /\ Cursor <= n
         /\ \A m \in Movies : listedAt[m] <= Cursor
         /\ Cursor # 0 => \E m \in Movies : Cursor = listedAt[m]
<1> DEFINE S == {listedAt[m] : m \in Movies} \cup {0}
<1>1. S \in SUBSET Nat /\ S # {} /\ \A s \in S : s <= n
  OBVIOUS
<1>2. \E c \in S : \A s \in S : s <= c
  BY <1>1, GreatestExists
<1>3. \E c \in S : \A m \in Movies : listedAt[m] <= c
  BY <1>2
<1>4. Cursor \in S /\ \A m \in Movies : listedAt[m] <= Cursor
  BY <1>3 DEF Cursor
<1> QED
  BY <1>1, <1>4

\* The first entry moves all others down by one.
LEMMA OnTop ==
  ASSUME NEW w \in Seq(Entry), NEW e \in Entry
  PROVE  /\ <<e>> \o w \in Seq(Entry) /\ Len(<<e>> \o w) = Len(w) + 1
         /\ (<<e>> \o w)[1] = e
         /\ \A j \in 2 .. Len(w) + 1 : (<<e>> \o w)[j] = w[j - 1]
<1>1. <<e>> \in Seq(Entry) /\ Len(<<e>>) = 1 /\ <<e>>[1] = e
  OBVIOUS
<1> QED
  BY <1>1, ConcatProperties

\* A removed entry moves all later ones up by one.
LEMMA TakenOut ==
  ASSUME NEW w \in Seq(Entry), NEW i \in 1 .. Len(w),
         NEW v, v = SubSeq(w, 1, i - 1) \o SubSeq(w, i + 1, Len(w))
  PROVE  /\ v \in Seq(Entry) /\ Len(v) = Len(w) - 1
         /\ \A j \in 1 .. Len(w) - 1 : v[j] = w[IF j < i THEN j ELSE j + 1]
<1> DEFINE a == SubSeq(w, 1, i - 1)
           b == SubSeq(w, i + 1, Len(w))
<1>0. Len(w) \in Nat /\ i \in Nat /\ \A j \in 1 .. Len(w) : w[j] \in Entry
  OBVIOUS
<1>1. a \in Seq(Entry) /\ Len(a) = i - 1 /\ \A j \in 1 .. i - 1 : a[j] = w[j]
  BY <1>0, SubSeqProperties
<1>2. b \in Seq(Entry) /\ Len(b) = Len(w) - i /\ \A j \in 1 .. Len(w) - i : b[j] = w[i + j]
  BY <1>0, SubSeqProperties
<1>3. v = a \o b
  OBVIOUS
<1> HIDE DEF a, b
<1>4. /\ v \in Seq(Entry) /\ Len(v) = Len(w) - 1
      /\ \A j \in 1 .. Len(w) - 1 : v[j] = IF j <= i - 1 THEN a[j] ELSE b[j - (i - 1)]
  <2>1. i - 1 \in Nat /\ Len(w) - i \in Nat /\ (i - 1) + (Len(w) - i) = Len(w) - 1
    BY <1>0
  <2>2. /\ a \o b \in Seq(Entry) /\ Len(a \o b) = Len(a) + Len(b)
        /\ \A j \in 1 .. Len(a) + Len(b) : (a \o b)[j] = IF j <= Len(a) THEN a[j] ELSE b[j - Len(a)]
    BY <1>1, <1>2, ConcatProperties
  <2> QED
    BY <1>1, <1>2, <1>3, <2>1, <2>2
<1>5. ASSUME NEW j \in 1 .. Len(w) - 1 PROVE v[j] = w[IF j < i THEN j ELSE j + 1]
  <2>1. CASE j < i
    <3>1. j \in 1 .. i - 1 /\ j <= i - 1
      BY <1>0, <2>1
    <3>2. v[j] = a[j] /\ a[j] = w[j]
      BY <1>1, <1>4, <3>1
    <3> QED
      BY <2>1, <3>2
  <2>2. CASE ~(j < i)
    <3>1. j - (i - 1) \in 1 .. Len(w) - i /\ i + (j - (i - 1)) = j + 1
      BY <1>0, <2>2
    <3> QED
      <4>1. ~(j <= i - 1)
        BY <1>0, <2>2
      <4>2. v[j] = b[j - (i - 1)]
        BY <1>4, <4>1
      <4>3. b[j - (i - 1)] = w[i + (j - (i - 1))]
        BY <1>2, <3>1
      <4> QED
        BY <2>2, <3>1, <4>2, <4>3
  <2> QED
    BY <2>1, <2>2
<1> QED
  BY <1>4, <1>5

\* The last entry of a page comes PageLimit after the last of the page before.
LEMMA PageEnd ==
  ASSUME NEW page \in Nat \ {0}
  PROVE  /\ (page - 1) * PageLimit \in Nat /\ page * PageLimit \in Nat
         /\ page * PageLimit = (page - 1) * PageLimit + PageLimit
         /\ ((page + 1) - 1) * PageLimit = page * PageLimit
BY TraktAssumption DEF TraktAssumption

LEMMA EntryFields ==
  ASSUME NEW e \in Entry
  PROVE  e.movie \in Movies /\ e.at \in Nat /\ e.at # 0
BY DEF Entry

LEMMA NoWalkType == NoWalk \in Walk /\ NoWalk.pc = "idle" /\ NoWalk.items = {}
<1>1. 0 \in 0 .. MaxPages /\ 0 \in Nat
  BY TraktAssumption DEF TraktAssumption
<1> QED
  BY <1>1 DEF NoWalk, Walk

LEMMA WalkFields ==
  ASSUME walk \in Walk
  PROVE  /\ walk.pc \in {"idle", "fetch", "save"} /\ walk.page \in 0 .. MaxPages /\ walk.page \in Nat
         /\ walk.cursor \in Nat /\ walk.items \in SUBSET Entry /\ walk.refreshed \in BOOLEAN
BY TraktAssumption DEF Walk, TraktAssumption

----------------------------------------------------------------------------
(* What the invariant says of numbers and entries. *)

LEMMA InvFacts ==
  ASSUME SyncInv
  PROVE  /\ watchlist \in Seq(Entry) /\ Len(watchlist) \in Nat
         /\ \A i \in 1 .. Len(watchlist) :
              /\ watchlist[i] \in Entry /\ watchlist[i] \in Listed
              /\ watchlist[i].at \in Nat /\ watchlist[i].at <= clock
         /\ clock \in Nat /\ clock # 0
         /\ walk \in Walk /\ walk.items \in SUBSET Entry
         /\ Cursor \in Nat /\ Cursor <= clock
         /\ \A m \in Movies : listedAt[m] \in Nat /\ listedAt[m] <= Cursor
         /\ Cursor # 0 => \E m \in Movies : Cursor = listedAt[m]
<1> USE DEF SyncInv
<1>1. watchlist \in Seq(Entry) /\ clock \in Nat \ {0} /\ walk \in Walk /\ listedAt \in [Movies -> Nat]
  BY DEF TypeOK
<1>2. \A e \in Listed : e.at <= clock
  BY DEF TypeOK
<1>3. \A i \in 1 .. Len(watchlist) : watchlist[i] \in Entry /\ watchlist[i] \in Listed
  BY <1>1 DEF Listed
<1>4. \A m \in Movies : listedAt[m] <= clock
  BY DEF WalkInv
<1> QED
  BY <1>1, <1>2, <1>3, <1>4, CursorProperties, WalkFields, EntryFields

\* What the walk would leave unscheduled is not older than where it stops.
LEMMA MissingNotOlder ==
  ASSUME SyncInv, ~truncated, ~shrunk, walk.pc # "idle", NEW e \in Listed, Missing(e)
  PROVE  ~Older(e, walk.cursor)
<1>1. walk.cursor = Cursor
  BY DEF SyncInv, WalkInv
<1> QED
  BY <1>1 DEF SyncInv, NothingBelowCursor, Missing, Older

----------------------------------------------------------------------------

LEMMA SyncInit == Init => SyncInv
<1> SUFFICES ASSUME Init PROVE SyncInv
  OBVIOUS
<1> USE DEF Init
<1>1. Listed = {}
  BY DEF Listed
<1>2. walk \in Walk /\ walk.pc = "idle" /\ walk.items = {}
  BY NoWalkType
<1>3. TypeOK
  <2>1. watchlist \in Seq(Entry) /\ Len(watchlist) = 0
    OBVIOUS
  <2>2. listedAt \in [Movies -> Nat] /\ requests \in [Movies -> Nat]
    OBVIOUS
  <2>3. truncated \in BOOLEAN /\ shrunk \in BOOLEAN
    OBVIOUS
  <2>4. clock = 1 /\ edits = 0 /\ faults = 0 /\ stops = 0
    OBVIOUS
  <2> HIDE DEF Init
  <2> QED
    BY <1>1, <1>2, <2>1, <2>2, <2>3, <2>4 DEF TypeOK
<1>4. WalkInv /\ GapOnTop
  BY <1>2 DEF WalkInv, GapOnTop
<1>5. RowPerRequest /\ NothingBelowCursor
  BY <1>1 DEF RowPerRequest, Recorded, NothingBelowCursor
<1> QED
  BY <1>3, <1>4, <1>5 DEF SyncInv

----------------------------------------------------------------------------
(* Steps of the owner. *)

LEMMA AddKeeps ==
  ASSUME SyncInv, NEW m \in Movies, NEW tick \in {0, 1}, Add(m, tick)
  PROVE  SyncInv'
<1> DEFINE e == [movie |-> m, at |-> clock + tick]
<1>0. /\ clock' = clock + tick /\ clock' \in Nat \ {0} /\ clock <= clock'
      /\ watchlist' = <<e>> \o watchlist /\ edits' = edits + 1 /\ ~OnWatchlist(m)
      /\ UNCHANGED <<listedAt, requests, walk, truncated, shrunk, faults, stops>>
  BY InvFacts DEF Add
<1>1. e \in Entry /\ e.movie = m /\ e.at = clock'
  BY <1>0 DEF Entry
<1> HIDE DEF e
<1>2. /\ watchlist' \in Seq(Entry) /\ Len(watchlist') = Len(watchlist) + 1
      /\ watchlist'[1] = e /\ \A j \in 2 .. Len(watchlist) + 1 : watchlist'[j] = watchlist[j - 1]
  BY <1>0, <1>1, OnTop, InvFacts
<1>3. Listed' = Listed \cup {e}
  <2>1. ASSUME NEW x \in Listed PROVE x \in Listed'
    <3>1. PICK i \in 1 .. Len(watchlist) : x = watchlist[i]
      BY DEF Listed
    <3>2. i + 1 \in 2 .. Len(watchlist) + 1 /\ (i + 1) - 1 = i
      BY <3>1, InvFacts
    <3>3. i + 1 \in 1 .. Len(watchlist') /\ watchlist'[i + 1] = x
      BY <1>2, <3>1, <3>2, InvFacts
    <3> QED
      BY <3>3 DEF Listed
  <2>2. ASSUME NEW x \in Listed' PROVE x \in Listed \cup {e}
    <3>1. PICK i \in 1 .. Len(watchlist) + 1 : x = watchlist'[i]
      BY <1>2 DEF Listed
    <3>2. CASE i = 1
      BY <1>2, <3>1, <3>2
    <3>3. CASE i # 1
      <4>1. i \in 2 .. Len(watchlist) + 1 /\ i - 1 \in 1 .. Len(watchlist)
        BY <3>3, InvFacts
      <4> QED
        BY <1>2, <3>1, <4>1 DEF Listed
    <3> QED
      BY <3>2, <3>3
  <2>3. e \in Listed'
    <3>1. 1 \in 1 .. Len(watchlist')
      BY <1>2, InvFacts
    <3> QED
      BY <1>2, <3>1 DEF Listed
  <2> QED
    BY <2>1, <2>2, <2>3
<1>4. TypeOK'
  <2>1. ASSUME NEW i \in 1 .. Len(watchlist'), NEW j \in 1 .. Len(watchlist'), i < j
        PROVE  watchlist'[i].at >= watchlist'[j].at /\ watchlist'[i].movie # watchlist'[j].movie
    <3>1. /\ i \in Nat /\ j \in Nat /\ j - 1 \in 1 .. Len(watchlist) /\ watchlist'[j] = watchlist[j - 1]
      BY <1>2, <2>1, InvFacts
    <3>2. CASE i = 1
      BY <1>0, <1>1, <1>2, <3>1, <3>2, InvFacts DEF OnWatchlist
    <3>3. CASE i # 1
      <4>1. /\ i - 1 \in 1 .. Len(watchlist) /\ watchlist'[i] = watchlist[i - 1] /\ i - 1 < j - 1
        BY <1>2, <2>1, <3>1, <3>3, InvFacts
      <4> QED
        BY <3>1, <4>1 DEF SyncInv, TypeOK
    <3> QED
      BY <3>2, <3>3
  <2>2. \A x \in Listed' : x.at <= clock'
    <3>1. \A x \in Listed : x.at <= clock /\ x.at \in Nat
      BY InvFacts, EntryFields DEF SyncInv, TypeOK, Listed
    <3> QED
      BY <1>0, <1>1, <1>3, <3>1, InvFacts
  <2> QED
    BY <1>0, <1>2, <2>1, <2>2 DEF SyncInv, TypeOK
<1>5. Cursor' = Cursor /\ \A x \in Movies : Recorded(x)' = Recorded(x)
  BY <1>0 DEF Cursor, Recorded
<1>6. \A x \in walk.items : x.at \in Nat /\ x.at <= clock'
  BY <1>0, InvFacts, EntryFields DEF SyncInv, WalkInv
<1>7. WalkInv'
  <2>1. \A x \in Movies : listedAt[x] <= clock'
    BY <1>0, InvFacts
  <2> QED
    BY <1>0, <1>5, <1>6, <2>1 DEF SyncInv, WalkInv
<1>8. RowPerRequest'
  BY <1>0 DEF SyncInv, RowPerRequest, Recorded
<1>9. NothingBelowCursor'
  <2>1. ~(e.at < Cursor')
    BY <1>0, <1>1, <1>5, InvFacts
  <2> QED
    BY <1>0, <1>3, <1>5, <2>1 DEF SyncInv, NothingBelowCursor, Recorded
<1>10. GapOnTop'
  <2>1. NewerThanItems(e)
    BY <1>1, <1>6 DEF NewerThanItems
  <2>2. ASSUME ~truncated, ~shrunk, walk.pc = "fetch", NEW i \in 1 .. Len(watchlist'), Missing(watchlist'[i])
        PROVE  (walk.page - 1) * PageLimit < i \/ NewerThanItems(watchlist'[i])
    <3>1. CASE i = 1
      BY <1>2, <2>1, <3>1
    <3>2. CASE i # 1
      <4>1. /\ i - 1 \in 1 .. Len(watchlist) /\ watchlist'[i] = watchlist[i - 1] /\ i - 1 < i
        BY <1>2, <3>2, InvFacts
      <4>2. (walk.page - 1) * PageLimit < i - 1 \/ NewerThanItems(watchlist[i - 1])
        BY <2>2, <4>1 DEF SyncInv, GapOnTop
      <4>3. (walk.page - 1) * PageLimit \in Nat
        BY <2>2, PageEnd, WalkFields, InvFacts DEF SyncInv, WalkInv
      <4> QED
        BY <4>1, <4>2, <4>3
    <3> QED
      BY <3>1, <3>2
  <2>3. ASSUME ~truncated, ~shrunk, walk.pc = "save", NEW x \in Listed', Missing(x)
        PROVE  NewerThanItems(x)
    BY <1>3, <2>1, <2>3 DEF SyncInv, GapOnTop
  <2> QED
    BY <1>0, <2>2, <2>3 DEF GapOnTop, Missing, NewerThanItems, Recorded
<1> QED
  BY <1>4, <1>7, <1>8, <1>9, <1>10 DEF SyncInv

\* A removal behind a walk's back would move unread entries up; it is excluded.
LEMMA RemoveKeeps ==
  ASSUME SyncInv, NEW r \in 1 .. Len(watchlist), Remove(r)
  PROVE  SyncInv'
<1>0. /\ watchlist' = SubSeq(watchlist, 1, r - 1) \o SubSeq(watchlist, r + 1, Len(watchlist))
      /\ shrunk' = (shrunk \/ (walk.pc = "fetch" /\ walk.page > 1)) /\ edits' = edits + 1
      /\ UNCHANGED <<clock, listedAt, requests, walk, truncated, faults, stops>>
  BY DEF Remove
<1> DEFINE old(j) == IF j < r THEN j ELSE j + 1
<1>1. /\ watchlist' \in Seq(Entry) /\ Len(watchlist') = Len(watchlist) - 1
      /\ \A j \in 1 .. Len(watchlist) - 1 : watchlist'[j] = watchlist[old(j)]
  BY <1>0, TakenOut, InvFacts
<1>2. \A j \in 1 .. Len(watchlist') : old(j) \in 1 .. Len(watchlist) /\ watchlist'[j] = watchlist[old(j)]
  BY <1>1, InvFacts
<1>3. \A i, j \in 1 .. Len(watchlist') : i < j => old(i) < old(j)
  OBVIOUS
<1> HIDE DEF old
<1>4. Listed' \subseteq Listed
  BY <1>2 DEF Listed
<1>5. Cursor' = Cursor
  BY <1>0 DEF Cursor
<1>6. TypeOK'
  <2>1. ASSUME NEW i \in 1 .. Len(watchlist'), NEW j \in 1 .. Len(watchlist'), i < j
        PROVE  watchlist'[i].at >= watchlist'[j].at /\ watchlist'[i].movie # watchlist'[j].movie
    BY <1>2, <1>3, <2>1 DEF SyncInv, TypeOK
  <2>2. \A x \in Listed' : x.at <= clock'
    BY <1>0, <1>4 DEF SyncInv, TypeOK
  <2>3. shrunk' \in BOOLEAN
    BY <1>0 DEF SyncInv, TypeOK
  <2>4. edits' \in Nat
    BY <1>0 DEF SyncInv, TypeOK
  <2> QED
    BY <1>0, <1>1, <2>1, <2>2, <2>3, <2>4 DEF SyncInv, TypeOK
<1>7. WalkInv' /\ RowPerRequest'
  BY <1>0, <1>5 DEF SyncInv, WalkInv, RowPerRequest, Recorded
<1>8. NothingBelowCursor'
  BY <1>0, <1>4, <1>5 DEF SyncInv, NothingBelowCursor, Recorded
<1>9. GapOnTop'
  <2>1. ASSUME ~shrunk', walk.pc = "fetch" PROVE walk.items = {}
    <3>1. ~(walk.page > 1)
      BY <1>0, <2>1
    <3>2. walk.page \in Nat /\ walk.page # 0
      BY <2>1, WalkFields, InvFacts DEF SyncInv, WalkInv
    <3> QED
      BY <2>1, <3>1, <3>2 DEF SyncInv, WalkInv
  <2>2. ASSUME walk.pc = "save", ~truncated, ~shrunk, NEW x \in Listed', Missing(x)
        PROVE  NewerThanItems(x)
    BY <1>4, <2>2 DEF SyncInv, GapOnTop
  <2> QED
    BY <1>0, <2>1, <2>2 DEF GapOnTop, Missing, NewerThanItems, Recorded
<1> QED
  BY <1>6, <1>7, <1>8, <1>9 DEF SyncInv

----------------------------------------------------------------------------
(* Steps of a pass. *)

\* A step that leaves the watchlist and the table alone has only the walk to answer for.
LEMMA WalkOnly ==
  ASSUME SyncInv, UNCHANGED <<watchlist, clock, listedAt, requests, shrunk, edits>>,
         truncated' \in BOOLEAN, truncated => truncated',
         faults' \in Nat, stops' \in Nat, walk' \in Walk, WalkInv', GapOnTop'
  PROVE  SyncInv'
<1>1. UNCHANGED <<Listed, Cursor>>
  BY DEF Listed, Cursor
<1>2. TypeOK'
  BY <1>1 DEF SyncInv, TypeOK
<1>3. RowPerRequest'
  BY DEF SyncInv, RowPerRequest, Recorded
<1>4. NothingBelowCursor'
  BY <1>1 DEF SyncInv, NothingBelowCursor, Recorded
<1> QED
  BY <1>2, <1>3, <1>4 DEF SyncInv

LEMMA BeginKeeps ==
  ASSUME SyncInv, Begin
  PROVE  SyncInv'
<1>1. walk' = [NoWalk EXCEPT !.pc = "fetch", !.page = 1, !.cursor = Cursor]
  BY DEF Begin
<1>2. 1 \in 0 .. MaxPages /\ Cursor \in Nat
  BY TraktAssumption, InvFacts DEF TraktAssumption
<1>3. /\ walk' \in Walk /\ walk'.pc = "fetch" /\ walk'.page = 1 /\ walk'.cursor = Cursor
      /\ walk'.items = {}
  BY <1>1, <1>2, NoWalkType DEF Walk
<1>4. /\ UNCHANGED <<watchlist, clock, listedAt, requests, truncated, shrunk, edits, faults, stops>>
      /\ Cursor' = Cursor
  BY DEF Begin, Cursor
<1>5. WalkInv'
  BY <1>3, <1>4, InvFacts DEF SyncInv, WalkInv
<1>6. GapOnTop'
  BY <1>3 DEF GapOnTop, NewerThanItems
<1>7. truncated' \in BOOLEAN /\ (truncated => truncated')
  BY <1>4 DEF SyncInv, TypeOK
<1>8. faults' \in Nat /\ stops' \in Nat
  BY <1>4 DEF SyncInv, TypeOK
<1> QED
  BY <1>3, <1>4, <1>5, <1>6, <1>7, <1>8, WalkOnly

\* The ways in which a pass ends without a trace.
LEMMA DropKeeps ==
  ASSUME SyncInv, FailFetch \/ FailSave \/ Stop
  PROVE  SyncInv'
<1>1. /\ UNCHANGED <<watchlist, clock, listedAt, requests, truncated, shrunk, edits>>
      /\ walk' = NoWalk
  BY DEF FailFetch, FailSave, Stop
<1>2. faults' \in Nat /\ stops' \in Nat
  BY DEF FailFetch, FailSave, Stop, SyncInv, TypeOK
<1>3. WalkInv' /\ GapOnTop'
  BY <1>1, NoWalkType DEF SyncInv, WalkInv, GapOnTop
<1>4. truncated' \in BOOLEAN /\ (truncated => truncated')
  BY <1>1 DEF SyncInv, TypeOK
<1> QED
  BY <1>1, <1>2, <1>3, <1>4, NoWalkType, WalkOnly

LEMMA UnauthorizedKeeps ==
  ASSUME SyncInv, Unauthorized
  PROVE  SyncInv'
<1>1. /\ UNCHANGED <<watchlist, clock, listedAt, requests, truncated, shrunk, edits, stops>>
      /\ walk' = [walk EXCEPT !.page = 1, !.items = {}, !.refreshed = TRUE]
      /\ walk.pc = "fetch" /\ Cursor' = Cursor
  BY DEF Unauthorized, Cursor
<1>2. 1 \in 0 .. MaxPages
  BY TraktAssumption DEF TraktAssumption
<1>3. /\ walk' \in Walk /\ walk'.pc = "fetch" /\ walk'.page = 1 /\ walk'.cursor = walk.cursor
      /\ walk'.items = {}
  BY <1>1, <1>2, InvFacts DEF Walk
<1>4. WalkInv'
  BY <1>1, <1>3 DEF SyncInv, WalkInv
<1>5. GapOnTop'
  BY <1>3 DEF GapOnTop, NewerThanItems
<1>6. truncated' \in BOOLEAN /\ (truncated => truncated')
  BY <1>1 DEF SyncInv, TypeOK
<1>7. faults' \in Nat /\ stops' \in Nat
  BY <1>1 DEF SyncInv, TypeOK, Unauthorized
<1> QED
  BY <1>1, <1>3, <1>4, <1>5, <1>6, <1>7, WalkOnly

\* A page that trakt or its length calls the last is the last.
LEMMA LastPageEnds ==
  ASSUME SyncInv, NEW page \in Nat \ {0}, NEW counted \in BOOLEAN, IsLastPage(page, counted)
  PROVE  Len(watchlist) <= page * PageLimit
<1> DEFINE first == (page - 1) * PageLimit + 1
           last == page * PageLimit
<1>0. /\ first \in Nat /\ last \in Nat /\ last - first + 1 = PageLimit /\ first <= last
      /\ PageLimit \in Nat /\ Len(watchlist) \in Nat /\ first >= 1
  BY PageEnd, InvFacts, TraktAssumption DEF TraktAssumption
<1>1. CASE counted
  BY <1>0, <1>1 DEF IsLastPage
<1>2. CASE ~counted
  <2> SUFFICES ASSUME Len(watchlist) > last PROVE FALSE
    BY <1>0
  <2> DEFINE S == first .. last
             T == PageEntries(page)
             f == [j \in S |-> watchlist[j]]
  <2>1. S \subseteq 1 .. Len(watchlist)
    BY <1>0
  <2>2. T = {watchlist[j] : j \in S}
    <3>1. \A j \in 1 .. Len(watchlist) :
            (page - 1) * PageLimit < j /\ j <= page * PageLimit <=> j \in S
      BY <1>0, PageEnd
    <3> QED
      BY <2>1, <3>1 DEF PageEntries
  <2>3. IsFiniteSet(S) /\ Cardinality(S) = PageLimit
    <3>1. first \in Int /\ last \in Int /\ ~(first > last)
      BY <1>0
    <3> HIDE DEF first, last
    <3> QED
      BY <1>0, <3>1, FS_Interval
  <2>4. \A i, j \in S : watchlist[i] = watchlist[j] => i = j
    <3> SUFFICES ASSUME NEW i \in S, NEW j \in S, watchlist[i] = watchlist[j], i # j PROVE FALSE
      OBVIOUS
    <3>1. i \in 1 .. Len(watchlist) /\ j \in 1 .. Len(watchlist) /\ (i < j \/ j < i)
      BY <1>0, <2>1
    <3> QED
      BY <3>1 DEF SyncInv, TypeOK
  <2> HIDE DEF S, T
  <2>5. f \in Surjection(S, T) /\ f \in Injection(S, T)
    BY <2>2, <2>4 DEF Surjection, Injection, IsInjective
  <2>6. Cardinality(T) = PageLimit
    BY <2>3, <2>5, FS_Surjection
  <2> QED
    BY <1>0, <1>2, <2>6 DEF IsLastPage, T
<1> QED
  BY <1>1, <1>2

\* What a page adds to the walk: entries of it, each movie once.
LEMMA CollectedProperties ==
  ASSUME SyncInv, NEW page \in Nat \ {0}, NEW cursor
  PROVE  LET new == Collected(PageEntries(page), cursor, walk.items) IN
         /\ new \in SUBSET Entry /\ walk.items \subseteq new
         /\ \A x \in new \ walk.items : \E j \in 1 .. Len(watchlist) :
              (page - 1) * PageLimit < j /\ x = watchlist[j]
         /\ \A x, y \in new : x.movie = y.movie => x = y
         /\ \A x \in new : x.at <= clock
         /\ \A j \in 1 .. Len(watchlist) :
              /\ (page - 1) * PageLimit < j /\ j <= page * PageLimit
              /\ ~Older(watchlist[j], cursor) /\ watchlist[j].movie \notin Unusable
              => \E x \in new : x.movie = watchlist[j].movie
<1> DEFINE P == PageEntries(page)
           new == Collected(P, cursor, walk.items)
<1>1. \A x \in P : \E j \in 1 .. Len(watchlist) : (page - 1) * PageLimit < j /\ x = watchlist[j]
  BY DEF PageEntries
<1>2. \A j \in 1 .. Len(watchlist) :
        (page - 1) * PageLimit < j /\ j <= page * PageLimit => watchlist[j] \in P
  BY DEF PageEntries
<1>3. P \subseteq Listed /\ P \subseteq Entry
  BY <1>1, InvFacts
<1>4. \A x, y \in Listed : x.movie = y.movie => x = y
  <2> SUFFICES ASSUME NEW i \in 1 .. Len(watchlist), NEW j \in 1 .. Len(watchlist),
                      watchlist[i].movie = watchlist[j].movie, i # j
               PROVE  FALSE
    BY DEF Listed
  <2>1. i < j \/ j < i
    BY InvFacts
  <2> QED
    BY <2>1 DEF SyncInv, TypeOK
<1> HIDE DEF P
<1>5. new \in SUBSET Entry /\ walk.items \subseteq new /\ \A x \in new \ walk.items : x \in P
  BY <1>3, InvFacts DEF Collected
<1>6. \A x, y \in new : x.movie = y.movie => x = y
  BY <1>3, <1>4 DEF Collected, SyncInv, WalkInv
<1>7. \A x \in new : x.at <= clock
  BY <1>3, <1>5 DEF SyncInv, WalkInv, TypeOK
<1>8. \A x \in P : ~Older(x, cursor) /\ x.movie \notin Unusable => \E y \in new : y.movie = x.movie
  BY DEF Collected
<1> HIDE DEF new
<1> QED
  BY <1>1, <1>2, <1>5, <1>6, <1>7, <1>8 DEF new, P

LEMMA FetchKeeps ==
  ASSUME SyncInv, NEW counted \in BOOLEAN, Fetch(counted)
  PROVE  SyncInv'
<1> DEFINE entries == PageEntries(walk.page)
           done == (\E e \in entries : Older(e, walk.cursor)) \/ IsLastPage(walk.page, counted)
           new == Collected(entries, walk.cursor, walk.items)
           before == (walk.page - 1) * PageLimit
           last == walk.page * PageLimit
<1>0. /\ walk \in Walk /\ walk.page \in Nat \ {0} /\ walk.page \in 0 .. MaxPages /\ walk.pc = "fetch"
      /\ walk.cursor = Cursor
  BY InvFacts, WalkFields DEF SyncInv, WalkInv, Fetch
<1>1. /\ UNCHANGED <<watchlist, clock, listedAt, requests, shrunk, edits, faults, stops>>
      /\ truncated' = (truncated \/ (~done /\ OutOfPages(walk.page)))
      /\ walk' = IF done \/ OutOfPages(walk.page)
                 THEN [[walk EXCEPT !.items = new] EXCEPT !.pc = "save"]
                 ELSE [[walk EXCEPT !.items = new] EXCEPT !.page = @ + 1]
  BY DEF Fetch
<1>2. /\ new \in SUBSET Entry /\ walk.items \subseteq new
      /\ \A x \in new \ walk.items : \E j \in 1 .. Len(watchlist) : before < j /\ x = watchlist[j]
      /\ \A x, y \in new : x.movie = y.movie => x = y
      /\ \A x \in new : x.at <= clock
      /\ \A j \in 1 .. Len(watchlist) :
           /\ before < j /\ j <= last
           /\ ~Older(watchlist[j], walk.cursor) /\ watchlist[j].movie \notin Unusable
           => \E x \in new : x.movie = watchlist[j].movie
  BY <1>0, CollectedProperties
<1>3. before \in Nat /\ last \in Nat /\ before <= last /\ ((walk.page + 1) - 1) * PageLimit = last
  BY <1>0, PageEnd, TraktAssumption DEF TraktAssumption
<1>4. ASSUME IsLastPage(walk.page, counted) PROVE Len(watchlist) <= last
  BY <1>0, <1>4, LastPageEnds
<1>5. ASSUME NEW e \in entries PROVE \E j \in 1 .. Len(watchlist) : j <= last /\ e = watchlist[j]
  BY DEF PageEntries
<1> HIDE DEF new, before, last, entries
<1>6. /\ walk' \in Walk /\ walk'.items = new /\ walk'.cursor = walk.cursor
      /\ walk'.pc = IF done \/ OutOfPages(walk.page) THEN "save" ELSE "fetch"
      /\ walk'.pc = "fetch" => walk'.page = walk.page + 1
  <2>1. walk.page # MaxPages => walk.page + 1 \in 0 .. MaxPages
    BY <1>0, TraktAssumption DEF TraktAssumption
  <2> HIDE DEF done
  <2> QED
    BY <1>0, <1>1, <1>2, <2>1 DEF OutOfPages, Walk
<1>7. UNCHANGED <<Cursor, Listed>>
  BY <1>1 DEF Cursor, Listed
<1>8. WalkInv'
  BY <1>0, <1>1, <1>2, <1>6, <1>7 DEF SyncInv, WalkInv
\* On the page just read nothing is missing.
<1>9. ASSUME ~truncated, ~shrunk, NEW i \in 1 .. Len(watchlist), watchlist[i].movie \notin Unusable,
             ~Recorded(watchlist[i].movie), \A x \in new : x.movie # watchlist[i].movie
      PROVE  /\ Missing(watchlist[i]) /\ ~Older(watchlist[i], walk.cursor)
             /\ last < i \/ \A x \in new : x.at <= watchlist[i].at
  <2>1. Missing(watchlist[i])
    BY <1>2, <1>9 DEF Missing
  <2>2. ~Older(watchlist[i], walk.cursor)
    BY <1>0, <1>9, <2>1, MissingNotOlder, InvFacts
  <2>3. CASE i <= before
    <3>1. NewerThanItems(watchlist[i])
      BY <1>0, <1>3, <1>9, <2>1, <2>3 DEF SyncInv, GapOnTop, before
    <3>2. ASSUME NEW x \in new \ walk.items PROVE x.at <= watchlist[i].at
      <4>1. PICK j \in 1 .. Len(watchlist) : before < j /\ x = watchlist[j]
        BY <1>2
      <4>2. i < j
        BY <1>3, <2>3, <4>1
      <4>3. watchlist[i].at >= watchlist[j].at /\ watchlist[i].at \in Nat /\ watchlist[j].at \in Nat
        BY <4>2, InvFacts DEF SyncInv, TypeOK
      <4> QED
        BY <4>1, <4>3
    <3> QED
      BY <2>1, <2>2, <3>1, <3>2 DEF NewerThanItems
  <2>4. CASE before < i /\ i <= last
    BY <1>2, <1>9, <2>2, <2>4
  <2>5. CASE last < i
    BY <2>1, <2>2, <2>5
  <2>6. i \in Nat
    BY InvFacts
  <2> QED
    BY <1>3, <2>3, <2>4, <2>5, <2>6
\* Where the walk ends for good, nothing lies behind the page.
<1>10. ASSUME done, NEW i \in 1 .. Len(watchlist), last < i PROVE Older(watchlist[i], walk.cursor)
  <2>1. CASE IsLastPage(walk.page, counted)
    BY <1>3, <1>4, <1>10, <2>1, InvFacts
  <2>2. CASE \E e \in entries : Older(e, walk.cursor)
    <3>1. PICK j \in 1 .. Len(watchlist) : j <= last /\ Older(watchlist[j], walk.cursor)
      BY <1>5, <2>2
    <3>2. j < i
      BY <1>3, <1>10, <3>1
    <3>3. watchlist[j].at >= watchlist[i].at /\ watchlist[i].at \in Nat /\ watchlist[j].at \in Nat
      BY <3>2, InvFacts DEF SyncInv, TypeOK
    <3>4. walk.cursor \in Nat
      BY <1>0, WalkFields
    <3> QED
      BY <3>1, <3>3, <3>4 DEF Older
  <2> QED
    BY <1>10, <2>1, <2>2
<1>11. GapOnTop'
  <2>1. ASSUME ~truncated, ~shrunk, walk'.pc = "fetch", NEW i \in 1 .. Len(watchlist),
               watchlist[i].movie \notin Unusable, ~Recorded(watchlist[i].movie),
               \A x \in new : x.movie # watchlist[i].movie
        PROVE  (walk'.page - 1) * PageLimit < i \/ \A x \in new : x.at <= watchlist[i].at
    <3>1. (walk'.page - 1) * PageLimit = last
      BY <1>3, <1>6, <2>1
    <3> QED
      BY <1>9, <2>1, <3>1
  <2>2. ASSUME ~truncated, ~truncated', ~shrunk, walk'.pc = "save", NEW e \in Listed,
               e.movie \notin Unusable, ~Recorded(e.movie), \A x \in new : x.movie # e.movie
        PROVE  \A x \in new : x.at <= e.at
    <3>1. PICK i \in 1 .. Len(watchlist) : e = watchlist[i]
      BY DEF Listed
    <3>2. done
      <4> DEFINE out == OutOfPages(walk.page)
      <4> HIDE DEF done, out
      <4>1. done \/ out
        BY <1>6, <2>2 DEF out
      <4>2. truncated' = (truncated \/ (~done /\ out))
        BY <1>1 DEF out
      <4> QED
        BY <2>2, <4>1, <4>2, Zenon
    <3> HIDE DEF done
    <3> QED
      BY <1>9, <1>10, <2>2, <3>1, <3>2
  <2>3. /\ walk'.pc \in {"fetch", "save"} /\ walk'.items = new /\ (truncated => truncated')
        /\ UNCHANGED <<watchlist, listedAt, shrunk, Listed>>
    <3> HIDE DEF done
    <3> QED
      BY <1>1, <1>6, <1>7
  <2> HIDE DEF done
  <2> QED
    BY <2>1, <2>2, <2>3 DEF GapOnTop, Missing, NewerThanItems, Recorded
<1>12. truncated' \in BOOLEAN /\ (truncated => truncated')
  <2> HIDE DEF done
  <2> QED
    BY <1>1 DEF SyncInv, TypeOK
<1>13. faults' \in Nat /\ stops' \in Nat
  BY <1>1 DEF SyncInv, TypeOK
<1> QED
  BY <1>1, <1>6, <1>8, <1>11, <1>12, <1>13, WalkOnly

\* The save schedules what the walk has taken, once, and moves the cursor no further.
LEMMA CreateKeeps ==
  ASSUME SyncInv, CreateTraktRequests
  PROVE  SyncInv'
<1>1. /\ UNCHANGED <<watchlist, clock, truncated, shrunk, edits, faults, stops>>
      /\ walk' = NoWalk /\ walk.pc = "save"
      /\ listedAt' = [m \in Movies |-> IF \E e \in Scheduled : e.movie = m
                        THEN (CHOOSE e \in Scheduled : e.movie = m).at ELSE listedAt[m]]
      /\ requests' = [m \in Movies |->
                        requests[m] + Cardinality({e \in Scheduled : e.movie = m})]
  BY DEF CreateTraktRequests
<1>2. /\ \A x \in Scheduled : /\ x \in walk.items /\ x.movie \in Movies /\ ~Recorded(x.movie)
                              /\ x.at \in Nat /\ x.at # 0 /\ x.at <= clock
      /\ \A x, y \in Scheduled : x.movie = y.movie => x = y
  BY InvFacts, EntryFields DEF Scheduled, SyncInv, WalkInv
<1>3. ASSUME NEW x \in Scheduled
      PROVE  listedAt'[x.movie] = x.at /\ requests[x.movie] = 0 /\ requests'[x.movie] = 1
  <2>1. (CHOOSE e \in Scheduled : e.movie = x.movie) = x
    BY <1>2
  <2>2. listedAt'[x.movie] = x.at
    BY <1>1, <1>2, <2>1
  <2>3. {e \in Scheduled : e.movie = x.movie} = {x}
    BY <1>2
  <2>4. Cardinality({e \in Scheduled : e.movie = x.movie}) = 1
    BY <2>3, FS_Singleton
  <2>5. requests[x.movie] = 0
    BY <1>2 DEF SyncInv, RowPerRequest
  <2> QED
    BY <1>1, <1>2, <2>2, <2>4, <2>5
<1>4. ASSUME NEW m \in Movies, \A x \in Scheduled : x.movie # m
      PROVE  listedAt'[m] = listedAt[m] /\ requests'[m] = requests[m]
  <2>1. {e \in Scheduled : e.movie = m} = {}
    BY <1>4
  <2>2. Cardinality({e \in Scheduled : e.movie = m}) = 0
    BY <2>1, FS_EmptySet
  <2>3. requests[m] \in Nat
    BY DEF SyncInv, TypeOK
  <2> QED
    BY <1>1, <1>4, <2>2, <2>3
<1>5. /\ listedAt' \in [Movies -> Nat] /\ requests' \in [Movies -> Nat]
      /\ \A m \in Movies : listedAt'[m] <= clock
      /\ \A m \in Movies : requests'[m] = IF listedAt'[m] # 0 THEN 1 ELSE 0
  <2>1. ASSUME NEW m \in Movies
        PROVE  /\ listedAt'[m] \in Nat /\ requests'[m] \in Nat /\ listedAt'[m] <= clock
               /\ requests'[m] = IF listedAt'[m] # 0 THEN 1 ELSE 0
    <3>1. CASE \E x \in Scheduled : x.movie = m
      BY <1>2, <1>3, <3>1
    <3>2. CASE \A x \in Scheduled : x.movie # m
      BY <1>4, <3>2, InvFacts DEF SyncInv, TypeOK, RowPerRequest, Recorded, WalkInv
    <3> QED
      BY <3>1, <3>2
  <2> QED
    BY <1>1, <2>1
<1>6. Listed' = Listed
  BY <1>1 DEF Listed
<1>7. TypeOK'
  <2>1. truncated' \in BOOLEAN /\ shrunk' \in BOOLEAN
    BY <1>1 DEF SyncInv, TypeOK
  <2> QED
    BY <1>1, <1>5, <1>6, <2>1, NoWalkType DEF SyncInv, TypeOK
<1>8. WalkInv' /\ GapOnTop'
  BY <1>1, <1>5, NoWalkType DEF WalkInv, GapOnTop
<1>9. RowPerRequest'
  BY <1>5 DEF RowPerRequest, Recorded
<1>10. NothingBelowCursor'
  <2> SUFFICES ASSUME ~truncated, ~shrunk, NEW e \in Listed, e.at < Cursor', e.movie \notin Unusable,
                      listedAt'[e.movie] = 0
               PROVE  FALSE
    BY <1>1, <1>6 DEF NothingBelowCursor, Recorded
  <2>1. e \in Entry /\ e.movie \in Movies /\ e.at \in Nat
    BY InvFacts, EntryFields DEF Listed
  <2>2. \A x \in Scheduled : x.movie # e.movie
    BY <1>2, <1>3
  <2>3. ~Recorded(e.movie)
    BY <1>4, <2>1, <2>2 DEF Recorded
  <2>4. Missing(e) /\ NewerThanItems(e)
    BY <1>1, <2>2, <2>3 DEF SyncInv, GapOnTop, Missing, Scheduled
  <2>5. ~(e.at < Cursor)
    BY <2>3 DEF SyncInv, NothingBelowCursor
  <2>6. Cursor' \in Nat /\ (Cursor' # 0 => \E m \in Movies : Cursor' = listedAt'[m])
    <3> DEFINE t == listedAt'
    <3>1. Cursor' = CHOOSE c \in {t[m] : m \in Movies} \cup {0} : \A m \in Movies : t[m] <= c
      BY DEF Cursor
    <3>2. t \in [Movies -> Nat] /\ clock \in Nat /\ \A m \in Movies : t[m] <= clock
      BY <1>5, InvFacts DEF SyncInv, TypeOK
    <3> HIDE DEF t
    <3>3. Cursor' \in Nat /\ (Cursor' # 0 => \E m \in Movies : Cursor' = t[m])
      BY <3>1, <3>2, CursorOfTable
    <3> QED
      BY <3>3 DEF t
  <2>7. PICK m \in Movies : Cursor' = listedAt'[m]
    BY <2>1, <2>6
  <2>8. CASE \E x \in Scheduled : x.movie = m
    BY <1>2, <1>3, <2>1, <2>4, <2>7, <2>8 DEF NewerThanItems
  <2>9. CASE \A x \in Scheduled : x.movie # m
    BY <1>4, <2>1, <2>5, <2>7, <2>9, InvFacts
  <2> QED
    BY <2>8, <2>9
<1> QED
  BY <1>7, <1>8, <1>9, <1>10 DEF SyncInv

LEMMA SyncStep == SyncInv /\ [Next]_vars => SyncInv'
<1> SUFFICES ASSUME SyncInv, [Next]_vars PROVE SyncInv'
  OBVIOUS
<1>1. CASE UNCHANGED vars
  <2>1. UNCHANGED <<Listed, Cursor>>
    BY <1>1 DEF vars, Listed, Cursor
  <2>2. TypeOK'
    BY <1>1, <2>1 DEF vars, SyncInv, TypeOK
  <2>3. WalkInv' /\ RowPerRequest' /\ NothingBelowCursor'
    BY <1>1, <2>1 DEF vars, SyncInv, WalkInv, RowPerRequest, NothingBelowCursor, Recorded
  <2>4. GapOnTop'
    BY <1>1, <2>1 DEF vars, SyncInv, GapOnTop, Missing, NewerThanItems, Recorded
  <2> QED
    BY <2>2, <2>3, <2>4 DEF SyncInv
<1> QED
  BY <1>1, AddKeeps, RemoveKeeps, BeginKeeps, FetchKeeps, CreateKeeps, DropKeeps, UnauthorizedKeeps
  DEF Next, Sync

LEMMA SyncInvariant == Spec => []SyncInv
<1> QED
  BY SyncInit, SyncStep, PTL DEF Spec

----------------------------------------------------------------------------
(* Theorems. *)

\* The table, the walk and the watchlist keep their types, and the watchlist its order.
THEOREM SyncTypes == Spec => []TypeOK
<1>1. SyncInv => TypeOK
  BY DEF SyncInv
<1> QED
  BY <1>1, SyncInvariant, PTL

\* No movie is ever scheduled twice (CreateTraktRequests).
THEOREM ScheduledOnce == Spec => []OncePerMovie
<1>1. SyncInv => OncePerMovie
  BY DEF SyncInv, RowPerRequest, OncePerMovie
<1> QED
  BY <1>1, SyncInvariant, PTL

\* What lies below the cursor has been scheduled, unless a walk was cut off at its last
\* page or an entry removed behind its back (collect).
THEOREM NothingPassedOver == Spec => []NothingBelowCursor
<1>1. SyncInv => NothingBelowCursor
  BY DEF SyncInv
<1> QED
  BY <1>1, SyncInvariant, PTL

=============================================================================
