--------------------------- MODULE AttemptProofs ---------------------------
(***************************************************************************)
(* Proofs about Attempt: the sorts lose no candidate and put the better    *)
(* one first, so the release taken is the best genuine one offered.        *)
(***************************************************************************)
EXTENDS Attempt, FiniteSetTheorems, SequenceTheorems, WellFoundedInduction, TLAPS

----------------------------------------------------------------------------
(* Sorting by rank. *)

\* In a finite strict order, the number of elements below an element numbers them all.
LEMMA Ranking ==
  ASSUME NEW D, IsFiniteSet(D), NEW R,
         \A p \in D : <<p, p>> \notin R,
         \A p, q \in D : p # q => <<p, q>> \in R \/ <<q, p>> \in R,
         \A p, q, r \in D : <<p, q>> \in R /\ <<q, r>> \in R => <<p, r>> \in R,
         NEW rank, rank = [p \in D |-> Cardinality({q \in D : <<q, p>> \in R})]
  PROVE  /\ rank \in Bijection(D, 0 .. Cardinality(D) - 1)
         /\ \A p, q \in D : rank[p] < rank[q] => <<p, q>> \in R
<1> DEFINE Below(p) == {q \in D : <<q, p>> \in R}
<1> DEFINE N == Cardinality(D)
<1>1. \A p \in D : Below(p) \in SUBSET D /\ p \notin Below(p)
  OBVIOUS
<1>2. \A p \in D : rank[p] = Cardinality(Below(p))
  OBVIOUS
<1>3. N \in Nat
  BY FS_CardinalityType
<1>4. ASSUME NEW p \in D
      PROVE  IsFiniteSet(Below(p)) /\ Cardinality(Below(p)) \in Nat /\ Cardinality(Below(p)) < N
  <2>1. IsFiniteSet(Below(p)) /\ Cardinality(Below(p)) <= N
        /\ (N = Cardinality(Below(p)) => D = Below(p))
    <3> HIDE DEF Below
    <3> QED  BY <1>1, FS_Subset
  <2>2. Cardinality(Below(p)) \in Nat
    BY <2>1, FS_CardinalityType
  <2>3. D # Below(p)
    BY <1>1
  <2> HIDE DEF Below, N
  <2> QED  BY <2>1, <2>2, <2>3, <1>3
<1>5. ASSUME NEW p \in D, NEW q \in D, <<p, q>> \in R
      PROVE  Cardinality(Below(p)) < Cardinality(Below(q))
  <2>1. Below(p) \in SUBSET Below(q) /\ p \in Below(q) /\ p \notin Below(p)
    BY <1>5
  <2>2. Below(p) # Below(q)
    BY <2>1
  <2>3. IsFiniteSet(Below(q)) /\ Cardinality(Below(p)) \in Nat /\ Cardinality(Below(q)) \in Nat
    BY <1>4
  <2> HIDE DEF Below
  <2>4. Cardinality(Below(p)) <= Cardinality(Below(q))
        /\ (Cardinality(Below(q)) = Cardinality(Below(p)) => Below(q) = Below(p))
    BY <2>1, <2>3, FS_Subset
  <2> QED  BY <2>2, <2>3, <2>4
<1> HIDE DEF Below
<1>6. rank \in [D -> 0 .. N - 1]
  <2>1. \A p \in D : rank[p] \in 0 .. N - 1
    <3> HIDE DEF N
    <3> QED  BY <1>2, <1>3, <1>4
  <2> QED  BY <2>1
<1>7. \A p, q \in D : rank[p] < rank[q] => <<p, q>> \in R
  <2> SUFFICES ASSUME NEW p \in D, NEW q \in D, rank[p] < rank[q], <<p, q>> \notin R
               PROVE  FALSE
    OBVIOUS
  <2>1. CASE p = q
    BY <2>1, <1>4, <1>2
  <2>2. CASE <<q, p>> \in R
    BY <2>2, <1>5, <1>4, <1>2
  <2> QED  BY <2>1, <2>2
<1>8. rank \in Injection(D, 0 .. N - 1)
  <2>1. \A p, q \in D : rank[p] = rank[q] => p = q
    <3> SUFFICES ASSUME NEW p \in D, NEW q \in D, rank[p] = rank[q], p # q
                 PROVE  FALSE
      OBVIOUS
    <3>1. Cardinality(Below(p)) < Cardinality(Below(q)) \/ Cardinality(Below(q)) < Cardinality(Below(p))
      BY <1>5
    <3> QED  BY <3>1, <1>2, <1>4
  <2> QED  BY <2>1, <1>6 DEF Injection, IsInjective
<1>9. IsFiniteSet(0 .. N - 1) /\ Cardinality(0 .. N - 1) = N
  <2> HIDE DEF N
  <2>1. 0 \in Int /\ N - 1 \in Int
    BY <1>3
  <2>2. IsFiniteSet(0 .. N - 1) /\ Cardinality(0 .. N - 1) = IF 0 > N - 1 THEN 0 ELSE (N - 1) - 0 + 1
    BY <2>1, FS_Interval
  <2> QED  BY <2>2, <1>3
<1>10. rank \in Surjection(D, 0 .. N - 1)
  BY <1>8, <1>9, FS_Injection
<1> QED
  BY <1>7, <1>8, <1>10 DEF Bijection

----------------------------------------------------------------------------
(* Better and the place order candidates strictly. *)

LEMMA PriorityIsNat ==
  ASSUME config \in Config, NEW c \in Candidate
  PROVE  Priority(c) \in Nat
BY DEF Config, Candidate, Priority

LEMMA Ranks ==
  ASSUME NEW c \in Candidate
  PROVE  /\ c.torrent.quality \in Nat /\ c.torrent.codec \in Nat
         /\ c.torrent.size \in Nat /\ c.tracker \in 1 .. Trackers
BY AttemptAssumption DEF Candidate, Torrent

\* Better is a strict weak order, whatever the priorities.
LEMMA BetterOrders ==
  ASSUME config \in Config, NEW a \in Candidate, NEW b \in Candidate, NEW c \in Candidate
  PROVE  /\ ~Better(a, a)
         /\ Better(a, b) => ~Better(b, a)
         /\ Better(a, b) /\ Better(b, c) => Better(a, c)
         /\ ~Better(b, a) /\ ~Better(c, b) => ~Better(c, a)
<1> DEFINE pa == Priority(a)  pb == Priority(b)  pc_ == Priority(c)
<1>1. pa \in Nat /\ pb \in Nat /\ pc_ \in Nat
  BY PriorityIsNat
<1> HIDE DEF pa, pb, pc_
<1> QED
  BY <1>1, Ranks DEF Better, pa, pb, pc_

\* So Before is a strict total order on different places.
LEMMA BeforeOrders ==
  ASSUME config \in Config, NEW D \in SUBSET (Nat \X Nat), NEW at \in [D -> Candidate],
         NEW p \in D, NEW q \in D, NEW r \in D
  PROVE  /\ ~Before(at, p, p)
         /\ p # q => Before(at, p, q) \/ Before(at, q, p)
         /\ Before(at, p, q) /\ Before(at, q, r) => Before(at, p, r)
<1>1. at[p] \in Candidate /\ at[q] \in Candidate /\ at[r] \in Candidate
  OBVIOUS
<1>2. /\ ~Earlier(p, p)
      /\ p # q => Earlier(p, q) \/ Earlier(q, p)
      /\ Earlier(p, q) /\ Earlier(q, r) => Earlier(p, r)
  BY DEF Earlier
<1>3. /\ ~Better(at[p], at[p])
      /\ Better(at[p], at[q]) => ~Better(at[q], at[p])
      /\ Better(at[q], at[r]) => ~Better(at[r], at[q])
      /\ Better(at[p], at[q]) /\ Better(at[q], at[r]) => Better(at[p], at[r])
      /\ ~Better(at[q], at[p]) /\ ~Better(at[r], at[q]) => ~Better(at[r], at[p])
  BY <1>1, BetterOrders
<1>4. /\ Better(at[p], at[q]) /\ ~Better(at[r], at[q]) => Better(at[p], at[r])
      /\ ~Better(at[q], at[p]) /\ Better(at[q], at[r]) => Better(at[p], at[r])
  <2>1. ~Better(at[p], at[r]) /\ ~Better(at[r], at[q]) => ~Better(at[p], at[q])
    BY <1>1, BetterOrders
  <2>2. ~Better(at[q], at[p]) /\ ~Better(at[p], at[r]) => ~Better(at[q], at[r])
    BY <1>1, BetterOrders
  <2> QED  BY <2>1, <2>2
<1> QED
  BY <1>2, <1>3, <1>4 DEF Before

\* What a stable sort promises: every place has one rank, and ranks follow Before.
LEMMA SortRanks ==
  ASSUME config \in Config, NEW D \in SUBSET (Nat \X Nat), IsFiniteSet(D), NEW at \in [D -> Candidate]
  PROVE  /\ Cardinality(D) \in Nat
         /\ \A n \in 1 .. Cardinality(D) : Ranked(at, n) \in D
         /\ \A p \in D : \E n \in 1 .. Cardinality(D) : Ranked(at, n) = p
         /\ \A m, n \in 1 .. Cardinality(D) : m < n => Before(at, Ranked(at, m), Ranked(at, n))
<1> DEFINE R == {pq \in D \X D : Before(at, pq[1], pq[2])}
<1> DEFINE rank == [p \in D |-> Cardinality({q \in D : <<q, p>> \in R})]
<1> DEFINE N == Cardinality(D)
<1>1. \A p, q \in D : <<p, q>> \in R <=> Before(at, p, q)
  OBVIOUS
<1>2. \A p \in D : rank[p] = Cardinality({q \in D : Before(at, q, p)})
  <2> TAKE p \in D
  <2>1. {q \in D : <<q, p>> \in R} = {q \in D : Before(at, q, p)}
    BY <1>1
  <2> QED  BY <2>1
<1>3. N \in Nat
  BY FS_CardinalityType
<1>4. \A p, q, r \in D : /\ ~Before(at, p, p)
                         /\ p # q => Before(at, p, q) \/ Before(at, q, p)
                         /\ Before(at, p, q) /\ Before(at, q, r) => Before(at, p, r)
  BY BeforeOrders
<1>5. /\ rank \in Bijection(D, 0 .. N - 1)
      /\ \A p, q \in D : rank[p] < rank[q] => <<p, q>> \in R
  <2>1. /\ \A p \in D : <<p, p>> \notin R
        /\ \A p, q \in D : p # q => <<p, q>> \in R \/ <<q, p>> \in R
        /\ \A p, q, r \in D : <<p, q>> \in R /\ <<q, r>> \in R => <<p, r>> \in R
    BY <1>1, <1>4
  <2> HIDE DEF R
  <2>2. rank = [p \in D |-> Cardinality({q \in D : <<q, p>> \in R})]
    OBVIOUS
  <2> HIDE DEF rank
  <2> QED  BY <2>1, <2>2, Ranking
<1>6. \A n \in 1 .. N : Ranked(at, n) = CHOOSE p \in D : rank[p] = n - 1
  <2> TAKE n \in 1 .. N
  <2>1. DOMAIN at = D
    OBVIOUS
  <2>2. Ranked(at, n) = CHOOSE p \in D : Cardinality({q \in D : Before(at, q, p)}) = n - 1
    BY <2>1 DEF Ranked
  <2> QED  BY <2>2, <1>2
<1> HIDE DEF rank, R, N
<1>7. ASSUME NEW n \in 1 .. N
      PROVE  Ranked(at, n) \in D /\ rank[Ranked(at, n)] = n - 1
  <2>1. n - 1 \in 0 .. N - 1
    BY <1>3
  <2>2. \E p \in D : rank[p] = n - 1
    BY <1>5, <2>1 DEF Bijection, Surjection
  <2> QED  BY <2>2, <1>6
<1>8. ASSUME NEW p \in D
      PROVE  \E n \in 1 .. N : Ranked(at, n) = p
  <2>1. rank[p] \in 0 .. N - 1
    BY <1>5 DEF Bijection, Injection
  <2>2. rank[p] + 1 \in 1 .. N
    BY <2>1, <1>3
  <2>3. Ranked(at, rank[p] + 1) \in D /\ rank[Ranked(at, rank[p] + 1)] = rank[p]
    BY <2>1, <2>2, <1>7
  <2>4. Ranked(at, rank[p] + 1) = p
    BY <2>3, <1>5 DEF Bijection, Injection, IsInjective
  <2> QED  BY <2>2, <2>4
<1>9. ASSUME NEW m \in 1 .. N, NEW n \in 1 .. N, m < n
      PROVE  Before(at, Ranked(at, m), Ranked(at, n))
  <2> DEFINE p == Ranked(at, m)  q == Ranked(at, n)
  <2>1. p \in D /\ q \in D /\ rank[p] = m - 1 /\ rank[q] = n - 1
    BY <1>7
  <2> HIDE DEF p, q
  <2>2. rank[p] < rank[q]
    BY <2>1, <1>9, <1>3
  <2>3. Before(at, p, q)
    BY <2>1, <2>2, <1>5, <1>1
  <2> QED  BY <2>3 DEF p, q
<1> QED
  BY <1>3, <1>7, <1>8, <1>9 DEF N

----------------------------------------------------------------------------
(* What one tracker found, and what all of them found together. *)

\* What searchTracker may return for tracker i.
Outcomes(i) ==
  {Pending} \cup {[Pending EXCEPT !.error = e] : e \in Failure}
  \cup {Found(i, page) : page \in Pages[i]}

AnswersOK ==
  /\ answers = [i \in 1 .. Trackers |-> answers[i]]
  /\ \A i \in 1 .. Trackers : answers[i] \in Outcomes(i)

\* origin tells which row of the page each candidate is: every row that fits is one, and
\* the better one, or else the upper one, comes first.
RowsOf(i, page, found, origin) ==
  /\ origin \in [DOMAIN found -> DOMAIN page]
  /\ \A n \in DOMAIN found : /\ found[n] = [tracker |-> i, torrent |-> page[origin[n]]]
                             /\ Fits(i, page[origin[n]])
  /\ \A k \in DOMAIN page : Fits(i, page[k]) => \E n \in DOMAIN found : origin[n] = k
  /\ \A m, n \in DOMAIN found : m < n =>
       Better(found[m], found[n]) \/ (~Better(found[n], found[m]) /\ origin[m] < origin[n])

LEMMA ResultsRanked ==
  ASSUME config \in Config, NEW i \in 1 .. Trackers, NEW page \in Seq(Torrents)
  PROVE  Results(i, page) \in Seq(Candidate) /\ \E origin : RowsOf(i, page, Results(i, page), origin)
<1> DEFINE rows == {i} \X {n \in DOMAIN page : Fits(i, page[n])}
<1> DEFINE at == [p \in rows |-> [tracker |-> i, torrent |-> page[p[2]]]]
<1> DEFINE N == Cardinality(rows)
<1> DEFINE found == Sorted(at)
<1> DEFINE origin == [n \in 1 .. N |-> Ranked(at, n)[2]]
<1>1. DOMAIN page = 1 .. Len(page) /\ Len(page) \in Nat /\ \A n \in 1 .. Len(page) : page[n] \in Torrents
  OBVIOUS
<1>2. rows \in SUBSET (Nat \X Nat)
  BY <1>1
<1>3. IsFiniteSet(rows)
  <2> DEFINE fit == {n \in DOMAIN page : Fits(i, page[n])}
  <2>1. IsFiniteSet(1 .. Len(page))
    BY <1>1, FS_Interval
  <2>2. fit \in SUBSET (1 .. Len(page))
    BY <1>1
  <2> HIDE DEF fit
  <2>3. IsFiniteSet(fit)
    BY <2>1, <2>2, FS_Subset
  <2>4. IsFiniteSet({i} \X fit)
    BY <2>3, FS_Singleton, FS_Product
  <2> QED  BY <2>4 DEF fit
<1>4. at \in [rows -> Candidate] /\ DOMAIN at = rows
      /\ \A p \in rows : at[p] = [tracker |-> i, torrent |-> page[p[2]]]
  BY <1>1 DEF Candidate
<1>5. \A p \in rows : p = <<i, p[2]>> /\ p[2] \in DOMAIN page /\ Fits(i, page[p[2]])
  OBVIOUS
<1>6. \A n \in DOMAIN page : Fits(i, page[n]) => <<i, n>> \in rows /\ <<i, n>>[2] = n
  OBVIOUS
<1>7. Results(i, page) = found
  BY DEF Results
<1> HIDE DEF rows
<1> HIDE DEF at
<1>8. /\ N \in Nat
      /\ \A n \in 1 .. N : Ranked(at, n) \in rows
      /\ \A p \in rows : \E n \in 1 .. N : Ranked(at, n) = p
      /\ \A m, n \in 1 .. N : m < n => Before(at, Ranked(at, m), Ranked(at, n))
  BY <1>2, <1>3, <1>4, SortRanks
<1>9. found = [n \in 1 .. N |-> at[Ranked(at, n)]]
  BY <1>4 DEF Sorted
<1> HIDE DEF N, found
<1>10. found \in Seq(Candidate) /\ DOMAIN found = 1 .. N
  <2>1. \A n \in 1 .. N : at[Ranked(at, n)] \in Candidate
    BY <1>4, <1>8
  <2>2. found \in [1 .. N -> Candidate]
    BY <2>1, <1>9
  <2> QED  BY <2>2, <1>8
<1>11. RowsOf(i, page, found, origin)
  <2>1. origin \in [DOMAIN found -> DOMAIN page] /\ \A n \in 1 .. N : origin[n] = Ranked(at, n)[2]
    BY <1>5, <1>8, <1>10
  <2> HIDE DEF origin
  <2>2. ASSUME NEW n \in DOMAIN found
        PROVE  found[n] = [tracker |-> i, torrent |-> page[origin[n]]] /\ Fits(i, page[origin[n]])
    BY <2>1, <1>4, <1>5, <1>8, <1>9, <1>10
  <2>3. ASSUME NEW k \in DOMAIN page, Fits(i, page[k])
        PROVE  \E n \in DOMAIN found : origin[n] = k
    <3>1. PICK n \in 1 .. N : Ranked(at, n) = <<i, k>>
      BY <2>3, <1>6, <1>8
    <3> QED  BY <3>1, <2>1, <1>10
  <2>4. ASSUME NEW m \in DOMAIN found, NEW n \in DOMAIN found, m < n
        PROVE  Better(found[m], found[n]) \/ (~Better(found[n], found[m]) /\ origin[m] < origin[n])
    <3>1. Before(at, Ranked(at, m), Ranked(at, n))
      BY <2>4, <1>8, <1>10
    <3>2. found[m] = at[Ranked(at, m)] /\ found[n] = at[Ranked(at, n)]
      BY <1>9, <1>10
    <3>3. Earlier(Ranked(at, m), Ranked(at, n)) => origin[m] < origin[n]
      <4>1. Ranked(at, m)[1] = i /\ Ranked(at, n)[1] = i /\ i \in Nat
        BY <1>5, <1>8, <1>10
      <4> QED  BY <4>1, <2>1, <1>10 DEF Earlier
    <3> QED  BY <3>1, <3>2, <3>3 DEF Before
  <2> QED  BY <2>1, <2>2, <2>3, <2>4 DEF RowsOf
<1> QED
  BY <1>7, <1>10, <1>11

LEMMA AnswerRows ==
  ASSUME config \in Config, AnswersOK, NEW i \in 1 .. Trackers
  PROVE  /\ answers[i].page \in Seq(Torrents) /\ answers[i].found \in Seq(Candidate)
         /\ \E origin : RowsOf(i, answers[i].page, answers[i].found, origin)
<1>1. CASE \E page \in Pages[i] : answers[i] = Found(i, page)
  <2>1. PICK page \in Pages[i] : answers[i] = Found(i, page)
    BY <1>1
  <2>2. page \in Seq(Torrents)
    BY AttemptAssumption
  <2>3. answers[i].page = page /\ answers[i].found = Results(i, page)
    BY <2>1 DEF Found
  <2> QED  BY <2>2, <2>3, ResultsRanked
<1>2. CASE answers[i].page = <<>> /\ answers[i].found = <<>>
  <2>1. RowsOf(i, <<>>, <<>>, <<>>)
    BY DEF RowsOf
  <2> QED  BY <1>2, <2>1
<1> QED
  BY <1>1, <1>2 DEF AnswersOK, Outcomes, Pending

LEMMA SpotsFinite ==
  ASSUME config \in Config, AnswersOK
  PROVE  IsFiniteSet(Spots) /\ Spots \in SUBSET (Nat \X Nat)
<1> DEFINE f == [i \in 1 .. Trackers |-> {i} \X DOMAIN answers[i].found]
<1> DEFINE S == {{i} \X DOMAIN answers[i].found : i \in 1 .. Trackers}
<1>1. \A i \in 1 .. Trackers : answers[i].found \in Seq(Candidate)
  BY AnswerRows
<1>2. \A i \in 1 .. Trackers : IsFiniteSet({i} \X DOMAIN answers[i].found)
  <2> TAKE i \in 1 .. Trackers
  <2> DEFINE d == DOMAIN answers[i].found
  <2>1. d = 1 .. Len(answers[i].found) /\ Len(answers[i].found) \in Nat
    BY <1>1
  <2>2. IsFiniteSet(d)
    BY <2>1, FS_Interval
  <2> HIDE DEF d
  <2>3. IsFiniteSet({i} \X d)
    BY <2>2, FS_Singleton, FS_Product
  <2> QED  BY <2>3 DEF d
<1>3. IsFiniteSet(1 .. Trackers)
  BY AttemptAssumption, FS_Interval
<1>4. f \in Surjection(1 .. Trackers, S)
  BY DEF Surjection
<1>5. \A T \in S : IsFiniteSet(T)
  BY <1>2
<1>6. Spots = UNION S
  BY DEF Spots
<1>7. Spots \in SUBSET (Nat \X Nat)
  <2>1. \A i \in 1 .. Trackers : \A n \in DOMAIN answers[i].found : i \in Nat /\ n \in Nat
    BY <1>1, AttemptAssumption
  <2> QED  BY <2>1 DEF Spots
<1> HIDE DEF f, S
<1>8. IsFiniteSet(S)
  BY <1>3, <1>4, FS_Surjection
<1> QED
  BY <1>5, <1>6, <1>7, <1>8, FS_UNION

OfferAt(place) == [tracker |-> place[1], torrent |-> At(place)]

\* The documented precedence is the one the two sorts follow.
LEMMA SortedRight ==
  ASSUME config \in Config, NEW x \in Nat \X Nat, NEW y \in Nat \X Nat,
         OfferAt(x) \in Candidate, OfferAt(y) \in Candidate,
         Better(OfferAt(x), OfferAt(y)) \/ (~Better(OfferAt(y), OfferAt(x)) /\ Earlier(x, y))
  PROVE  ~Outranks(y, x)
<1> DEFINE s == At(x)  t == At(y)  p == config.priority[x[1]]  q == config.priority[y[1]]
<1>1. /\ s.quality \in Nat /\ s.codec \in Nat /\ s.size \in Nat
      /\ t.quality \in Nat /\ t.codec \in Nat /\ t.size \in Nat
      /\ x[1] \in Nat /\ x[2] \in Nat /\ y[1] \in Nat /\ y[2] \in Nat
  BY Ranks DEF OfferAt
<1>2. p \in Nat /\ q \in Nat
  BY PriorityIsNat DEF OfferAt, Priority
<1>3. \/ s.quality > t.quality
      \/ s.quality = t.quality /\ s.codec > t.codec
      \/ s.quality = t.quality /\ s.codec = t.codec /\ p < q
      \/ s.quality = t.quality /\ s.codec = t.codec /\ p = q /\ s.size > t.size
      \/ /\ s.quality = t.quality /\ s.codec = t.codec /\ p = q /\ s.size = t.size
         /\ x[1] < y[1] \/ (x[1] = y[1] /\ x[2] < y[2])
  <2> HIDE DEF s, t, p, q
  <2>1. OfferAt(x).torrent = s /\ OfferAt(y).torrent = t
        /\ Priority(OfferAt(x)) = p /\ Priority(OfferAt(y)) = q
    BY DEF OfferAt, Priority, s, t, p, q
  <2> QED  BY <1>1, <1>2, <2>1 DEF Better, Earlier
<1>4. /\ Merits(x)[1] = s.quality /\ Merits(x)[2] = s.codec /\ Merits(x)[3] = -p
      /\ Merits(x)[4] = s.size /\ Merits(x)[5] = -x[1] /\ Merits(x)[6] = -x[2]
  BY DEF Merits
<1>5. /\ Merits(y)[1] = t.quality /\ Merits(y)[2] = t.codec /\ Merits(y)[3] = -q
      /\ Merits(y)[4] = t.size /\ Merits(y)[5] = -y[1] /\ Merits(y)[6] = -y[2]
  BY DEF Merits
<1> HIDE DEF s, t, p, q
<1> SUFFICES ASSUME NEW k \in 1 .. 6, Merits(y)[k] > Merits(x)[k],
                    \A l \in 1 .. k - 1 : Merits(y)[l] = Merits(x)[l]
             PROVE  FALSE
  BY DEF Outranks
<1>6. \A l \in 1 .. 6 : l < k => Merits(y)[l] = Merits(x)[l]
  OBVIOUS
<1>7. /\ 1 < k => Merits(y)[1] = Merits(x)[1]
      /\ 2 < k => Merits(y)[2] = Merits(x)[2]
      /\ 3 < k => Merits(y)[3] = Merits(x)[3]
      /\ 4 < k => Merits(y)[4] = Merits(x)[4]
      /\ 5 < k => Merits(y)[5] = Merits(x)[5]
  BY <1>6
<1>8. k = 1 \/ k = 2 \/ k = 3 \/ k = 4 \/ k = 5 \/ k = 6
  OBVIOUS
<1> QED
  BY <1>1, <1>2, <1>3, <1>4, <1>5, <1>7, <1>8

LEMMA NotOverItself ==
  ASSUME config \in Config, NEW x \in Nat \X Nat, OfferAt(x) \in Candidate
  PROVE  ~Outranks(x, x)
<1> DEFINE s == At(x)  p == config.priority[x[1]]
<1>1. /\ s.quality \in Nat /\ s.codec \in Nat /\ s.size \in Nat
      /\ x[1] \in Nat /\ x[2] \in Nat
  BY Ranks DEF OfferAt
<1>2. p \in Nat
  BY PriorityIsNat DEF OfferAt, Priority
<1>3. /\ Merits(x)[1] = s.quality /\ Merits(x)[2] = s.codec /\ Merits(x)[3] = -p
      /\ Merits(x)[4] = s.size /\ Merits(x)[5] = -x[1] /\ Merits(x)[6] = -x[2]
  BY DEF Merits
<1> HIDE DEF s, p
<1>4. \A k \in 1 .. 6 : k = 1 \/ k = 2 \/ k = 3 \/ k = 4 \/ k = 5 \/ k = 6
  OBVIOUS
<1>5. \A k \in 1 .. 6 : Merits(x)[k] \in Int
  BY <1>1, <1>2, <1>3, <1>4
<1>6. \A k \in 1 .. 6 : ~(Merits(x)[k] > Merits(x)[k])
  BY <1>5
<1> QED
  BY <1>6 DEF Outranks

\* Candidates are the offers, each once at least, and none outranks one before it.
RankedAs(place) ==
  /\ place \in [DOMAIN Candidates -> Offers]
  /\ \A k \in DOMAIN Candidates : Candidates[k] = OfferAt(place[k])
  /\ \A offer \in Offers : \E k \in DOMAIN Candidates : place[k] = offer
  /\ \A k, l \in DOMAIN Candidates : k < l => ~Outranks(place[l], place[k])

LEMMA OffersRanked ==
  ASSUME config \in Config, AnswersOK
  PROVE  Candidates \in Seq(Candidate) /\ \E place : RankedAs(place)
<1> DEFINE rowOf(i) == CHOOSE origin : RowsOf(i, answers[i].page, answers[i].found, origin)
<1> DEFINE at == [p \in Spots |-> answers[p[1]].found[p[2]]]
<1> DEFINE N == Cardinality(Spots)
<1> DEFINE place == [k \in 1 .. N |-> <<Ranked(at, k)[1], rowOf(Ranked(at, k)[1])[Ranked(at, k)[2]]>>]
<1>1. \A i \in 1 .. Trackers : /\ RowsOf(i, answers[i].page, answers[i].found, rowOf(i))
                              /\ answers[i].page \in Seq(Torrents)
                              /\ answers[i].found \in Seq(Candidate)
  BY AnswerRows
<1>2. IsFiniteSet(Spots) /\ Spots \in SUBSET (Nat \X Nat)
  BY SpotsFinite
<1>3. \A p \in Spots : /\ p = <<p[1], p[2]>>
                       /\ p[1] \in 1 .. Trackers /\ p[2] \in DOMAIN answers[p[1]].found
  BY DEF Spots
<1>4. \A i \in 1 .. Trackers : \A n \in DOMAIN answers[i].found : <<i, n>> \in Spots
  BY DEF Spots
<1>5. at \in [Spots -> Candidate] /\ DOMAIN at = Spots
      /\ \A p \in Spots : at[p] = answers[p[1]].found[p[2]]
  <2>1. ASSUME NEW p \in Spots
        PROVE  answers[p[1]].found[p[2]] \in Candidate
    <3>1. answers[p[1]].found \in Seq(Candidate) /\ p[2] \in DOMAIN answers[p[1]].found
      BY <1>1, <1>3
    <3> QED  BY <3>1
  <2> QED  BY <2>1
<1>6. Candidates = Sorted(at)
  BY DEF Candidates
<1> HIDE DEF at, rowOf
<1>7. /\ N \in Nat
      /\ \A n \in 1 .. N : Ranked(at, n) \in Spots
      /\ \A p \in Spots : \E n \in 1 .. N : Ranked(at, n) = p
      /\ \A m, n \in 1 .. N : m < n => Before(at, Ranked(at, m), Ranked(at, n))
  BY <1>2, <1>5, SortRanks
<1>8. Candidates = [n \in 1 .. N |-> at[Ranked(at, n)]]
  BY <1>5, <1>6 DEF Sorted
<1> HIDE DEF N
<1>9. Candidates \in Seq(Candidate) /\ DOMAIN Candidates = 1 .. N
      /\ \A n \in 1 .. N : Candidates[n] = at[Ranked(at, n)]
  <2>1. \A n \in 1 .. N : at[Ranked(at, n)] \in Candidate
    BY <1>5, <1>7
  <2>2. Candidates \in [1 .. N -> Candidate]
    BY <2>1, <1>8
  <2> QED  BY <2>2, <1>7, <1>8
<1>10. ASSUME NEW k \in 1 .. N
       PROVE  /\ place[k] \in Offers /\ place[k] \in Nat \X Nat
              /\ Candidates[k] = OfferAt(place[k])
  <2> DEFINE s == Ranked(at, k)
  <2> DEFINE i == s[1]
  <2> DEFINE r == rowOf(i)[s[2]]
  <2>1. s \in Spots /\ i \in 1 .. Trackers /\ s[2] \in DOMAIN answers[i].found
    BY <1>3, <1>7
  <2>2. place[k] = <<i, r>>
    OBVIOUS
  <2>3. Candidates[k] = answers[i].found[s[2]]
    BY <2>1, <1>5, <1>9
  <2> HIDE DEF place, s, i
  <2>4. /\ r \in DOMAIN answers[i].page
        /\ answers[i].found[s[2]] = [tracker |-> i, torrent |-> answers[i].page[r]]
        /\ Fits(i, answers[i].page[r])
    BY <1>1, <2>1 DEF RowsOf
  <2>5. i \in Nat /\ r \in Nat
    BY <1>1, <2>1, <2>4
  <2> HIDE DEF r
  <2>6. <<i, r>> \in Places /\ At(<<i, r>>) = answers[i].page[r]
    BY <2>1, <2>4 DEF Places, At
  <2>7. <<i, r>> \in Offers
    BY <2>4, <2>6 DEF Offers, Fits
  <2>8. OfferAt(<<i, r>>) = [tracker |-> i, torrent |-> answers[i].page[r]]
    BY <2>6 DEF OfferAt
  <2> QED  BY <2>2, <2>3, <2>4, <2>5, <2>7, <2>8
<1>11. ASSUME NEW offer \in Offers
       PROVE  \E k \in 1 .. N : place[k] = offer
  <2>0. PICK i \in 1 .. Trackers : offer \in {i} \X DOMAIN answers[i].page
    BY DEF Offers, Places
  <2>1. PICK r \in DOMAIN answers[i].page : offer = <<i, r>>
    BY <2>0
  <2>2. Fits(i, answers[i].page[r])
    BY <2>1 DEF Offers, Fits, At
  <2>3. PICK n \in DOMAIN answers[i].found : rowOf(i)[n] = r
    BY <1>1, <2>2 DEF RowsOf
  <2>4. PICK k \in 1 .. N : Ranked(at, k) = <<i, n>>
    BY <1>4, <1>7
  <2> QED  BY <2>1, <2>3, <2>4
<1>12. ASSUME NEW k \in 1 .. N, NEW l \in 1 .. N, k < l
       PROVE  ~Outranks(place[l], place[k])
  <2> DEFINE s == Ranked(at, k)  t == Ranked(at, l)
  <2>1. s \in Spots /\ s[1] \in 1 .. Trackers /\ s[2] \in DOMAIN answers[s[1]].found
    BY <1>3, <1>7
  <2>2. t \in Spots /\ t[1] \in 1 .. Trackers /\ t[2] \in DOMAIN answers[t[1]].found
    BY <1>3, <1>7
  <2>3. place[k] = <<s[1], rowOf(s[1])[s[2]]>> /\ place[l] = <<t[1], rowOf(t[1])[t[2]]>>
    OBVIOUS
  <2>4. Before(at, s, t)
    BY <1>7, <1>12
  <2>5. Candidates[k] = at[s] /\ Candidates[l] = at[t]
    BY <1>9
  <2>6. at[s] = answers[s[1]].found[s[2]] /\ at[t] = answers[t[1]].found[t[2]]
    BY <1>5, <2>1, <2>2
  <2> HIDE DEF place, s, t
  <2>7. Better(at[s], at[t]) \/ (~Better(at[t], at[s]) /\ Earlier(place[k], place[l]))
    <3>1. CASE s[1] < t[1]
      BY <3>1, <2>3, <2>4 DEF Before, Earlier
    <3>2. CASE s[1] = t[1] /\ s[2] < t[2]
      <4>1. Better(at[s], at[t])
            \/ (~Better(at[t], at[s]) /\ rowOf(s[1])[s[2]] < rowOf(s[1])[t[2]])
        BY <3>2, <1>1, <2>1, <2>2, <2>6 DEF RowsOf
      <4> QED  BY <4>1, <3>2, <2>3 DEF Earlier
    <3> QED  BY <3>1, <3>2, <2>4 DEF Before, Earlier
  <2>8. /\ place[k] \in Nat \X Nat /\ place[l] \in Nat \X Nat
        /\ OfferAt(place[k]) = at[s] /\ OfferAt(place[l]) = at[t]
        /\ at[s] \in Candidate /\ at[t] \in Candidate
    BY <1>5, <1>10, <2>1, <2>2, <2>5
  <2> QED  BY <2>7, <2>8, SortedRight
<1>13. RankedAs(place)
  BY <1>9, <1>10, <1>11, <1>12 DEF RankedAs
<1> QED
  BY <1>9, <1>13

----------------------------------------------------------------------------
(* The delay doubles up to the cap. *)

LEMMA LeastExists ==
  ASSUME NEW T \in SUBSET Nat, T # {}
  PROVE  \E m \in T : \A k \in Nat : k < m => k \notin T
<1>1. PICK m \in T : \A k \in T : ~(<<k, m>> \in OpToRel(<, Nat))
  BY NatLessThanWellFounded, WFMin
<1> QED
  BY <1>1 DEF OpToRel

\* The recursion has a solution: the values up to m are determined, for every m.
LEMMA DelayDoubles ==
  \A n \in Nat :
    Delay[n] = IF n <= 1 THEN BaseSeconds
               ELSE IF 2 * Delay[n - 1] >= MaxBackoff THEN MaxBackoff ELSE 2 * Delay[n - 1]
<1> DEFINE Double(d) == IF 2 * d >= MaxBackoff THEN MaxBackoff ELSE 2 * d
<1> DEFINE Good(m) ==
      {f \in [0 .. m -> Nat] :
         \A n \in 0 .. m : f[n] = IF n <= 1 THEN BaseSeconds ELSE Double(f[n - 1])}
<1>1. \A d \in Nat : Double(d) \in Nat
  BY AttemptAssumption
<1>2. \A m \in Nat : Good(m) # {}
  <2> DEFINE T == {m \in Nat : Good(m) = {}}
  <2> SUFFICES ASSUME T # {} PROVE FALSE
    OBVIOUS
  <2>1. PICK m \in T : \A k \in Nat : k < m => k \notin T
    <3> HIDE DEF Good
    <3>1. T \in SUBSET Nat
      OBVIOUS
    <3> HIDE DEF T
    <3> QED  BY <3>1, LeastExists
  <2>2. CASE m = 0
    <3>1. [n \in 0 .. 0 |-> BaseSeconds] \in Good(0)
      BY AttemptAssumption
    <3> QED  BY <3>1, <2>2, <2>1
  <2>3. CASE m # 0
    <3>1. m \in Nat /\ m - 1 \in Nat /\ m - 1 < m
      BY <2>1, <2>3
    <3>2. PICK f : f \in Good(m - 1)
      BY <3>1, <2>1
    <3> HIDE DEF Double
    <3>3. /\ f \in [0 .. m - 1 -> Nat]
          /\ \A n \in 0 .. m - 1 : f[n] = IF n <= 1 THEN BaseSeconds ELSE Double(f[n - 1])
      BY <3>2
    <3> DEFINE g == [n \in 0 .. m |-> IF n < m THEN f[n]
                                      ELSE IF n <= 1 THEN BaseSeconds ELSE Double(f[n - 1])]
    <3>4. ASSUME NEW n \in 0 .. m
          PROVE  g[n] \in Nat
      <4>1. CASE n < m
        <5>1. n \in 0 .. m - 1 /\ g[n] = f[n]
          BY <4>1, <3>1
        <5> QED  BY <5>1, <3>3
      <4>2. CASE n = m /\ ~(n <= 1)
        <5>1. n - 1 \in 0 .. m - 1 /\ g[n] = Double(f[n - 1])
          BY <4>2, <3>1
        <5> HIDE DEF g
        <5> QED  BY <5>1, <3>3, <1>1
      <4>3. CASE n = m /\ n <= 1
        BY <4>3, AttemptAssumption
      <4> QED  BY <4>1, <4>2, <4>3, <3>1
    <3>5. \A n \in 0 .. m : g[n] = IF n <= 1 THEN BaseSeconds ELSE Double(g[n - 1])
      <4> TAKE n \in 0 .. m
      <4>1. n # 0 => n - 1 \in 0 .. m - 1 /\ n - 1 \in 0 .. m /\ g[n - 1] = f[n - 1]
        BY <3>1
      <4>2. g[n] = IF n < m THEN f[n] ELSE IF n <= 1 THEN BaseSeconds ELSE Double(f[n - 1])
        OBVIOUS
      <4>3. n < m => n \in 0 .. m - 1
        BY <3>1
      <4> HIDE DEF g
      <4> QED  BY <4>1, <4>2, <4>3, <3>3
    <3>6. g \in [0 .. m -> Nat]
      BY <3>4
    <3> HIDE DEF g
    <3>7. g \in Good(m)
      BY <3>5, <3>6
    <3> QED  BY <3>7, <2>1
  <2> QED  BY <2>2, <2>3
<1>3. ASSUME NEW m \in Nat, NEW k \in Nat, NEW f \in Good(m), NEW g \in Good(k),
             NEW n \in Nat, n <= m, n <= k
      PROVE  f[n] = g[n]
  <2> DEFINE T == {i \in Nat : i <= m /\ i <= k /\ f[i] # g[i]}
  <2> SUFFICES ASSUME T # {} PROVE FALSE
    BY <1>3
  <2>1. PICK i \in T : \A j \in Nat : j < i => j \notin T
    <3>1. T \in SUBSET Nat
      OBVIOUS
    <3> HIDE DEF T
    <3> QED  BY <3>1, LeastExists
  <2> HIDE DEF Double
  <2>2. /\ i \in Nat /\ i <= m /\ i <= k /\ f[i] # g[i]
        /\ f[i] = IF i <= 1 THEN BaseSeconds ELSE Double(f[i - 1])
        /\ g[i] = IF i <= 1 THEN BaseSeconds ELSE Double(g[i - 1])
    BY <2>1
  <2>3. i - 1 \in Nat /\ i - 1 < i /\ i - 1 <= m /\ i - 1 <= k /\ f[i - 1] # g[i - 1]
    BY <2>2
  <2> QED  BY <2>1, <2>3
<1> DEFINE chosen(n) == CHOOSE f : f \in Good(n)
<1> DEFINE D == [n \in Nat |-> chosen(n)[n]]
<1>4. \A n \in Nat : chosen(n) \in Good(n) /\ D[n] = chosen(n)[n]
  BY <1>2
<1>5. ASSUME NEW n \in Nat
      PROVE  D[n] = IF n <= 1 THEN BaseSeconds ELSE Double(D[n - 1])
  <2>1. chosen(n) \in Good(n) /\ D[n] = chosen(n)[n]
    BY <1>4
  <2> HIDE DEF chosen, D
  <2>2. ~(n <= 1) => /\ n - 1 \in Nat /\ n - 1 <= n
                     /\ D[n - 1] = chosen(n - 1)[n - 1] /\ chosen(n - 1) \in Good(n - 1)
    <3> HIDE DEF Good
    <3>1. ~(n <= 1) => n - 1 \in Nat /\ n - 1 <= n
      OBVIOUS
    <3> QED  BY <3>1, <1>4
  <2>3. ~(n <= 1) => chosen(n)[n - 1] = chosen(n - 1)[n - 1]
    <3> HIDE DEF Good
    <3> QED  BY <2>1, <2>2, <1>3
  <2> HIDE DEF Double
  <2>4. chosen(n)[n] = IF n <= 1 THEN BaseSeconds ELSE Double(chosen(n)[n - 1])
    BY <2>1
  <2> QED  BY <2>1, <2>2, <2>3, <2>4
<1>6. D = [n \in Nat |-> IF n <= 1 THEN BaseSeconds
                         ELSE IF 2 * D[n - 1] >= MaxBackoff THEN MaxBackoff ELSE 2 * D[n - 1]]
  <2>1. D = [n \in Nat |-> D[n]]
    OBVIOUS
  <2> HIDE DEF D
  <2> QED  BY <2>1, <1>5
<1> HIDE DEF D
<1>7. Delay = [n \in Nat |-> IF n <= 1 THEN BaseSeconds
                         ELSE IF 2 * Delay[n - 1] >= MaxBackoff THEN MaxBackoff ELSE 2 * Delay[n - 1]]
  BY <1>6 DEF Delay
<1> QED
  BY <1>7

LEMMA DelayGrows ==
  /\ Delay[0] = BaseSeconds /\ Delay[1] = BaseSeconds
  /\ \A n \in Nat : /\ Delay[n] \in Nat /\ 0 < Delay[n] /\ Delay[n] <= MaxBackoff
                    /\ Delay[n] <= Delay[n + 1]
                    /\ n # 0 => Delay[n + 1] = MaxBackoff \/ Delay[n + 1] = 2 * Delay[n]
<1> DEFINE T == {n \in Nat : ~(Delay[n] \in Nat /\ 0 < Delay[n] /\ Delay[n] <= MaxBackoff)}
<1>1. T = {}
  <2> SUFFICES ASSUME T # {} PROVE FALSE
    OBVIOUS
  <2>1. PICK n \in T : \A k \in Nat : k < n => k \notin T
    <3>1. T \in SUBSET Nat
      OBVIOUS
    <3> HIDE DEF T
    <3> QED  BY <3>1, LeastExists
  <2>2. n \in Nat
    OBVIOUS
  <2>3. CASE n <= 1
    BY <2>2, <2>3, DelayDoubles, AttemptAssumption
  <2>4. CASE n > 1
    <3>1. n - 1 \in Nat /\ n - 1 < n
      BY <2>2, <2>4
    <3>2. Delay[n - 1] \in Nat /\ 0 < Delay[n - 1] /\ Delay[n - 1] <= MaxBackoff
      BY <2>1, <3>1
    <3>3. Delay[n] = IF 2 * Delay[n - 1] >= MaxBackoff THEN MaxBackoff ELSE 2 * Delay[n - 1]
      BY <2>2, <2>4, DelayDoubles
    <3> QED  BY <3>2, <3>3, AttemptAssumption
  <2> QED  BY <2>2, <2>3, <2>4
<1>2. \A n \in Nat : Delay[n] \in Nat /\ 0 < Delay[n] /\ Delay[n] <= MaxBackoff
  BY <1>1
<1>3. Delay[0] = BaseSeconds /\ Delay[1] = BaseSeconds
  BY DelayDoubles
<1>4. ASSUME NEW n \in Nat
      PROVE  /\ Delay[n] <= Delay[n + 1]
             /\ n # 0 => Delay[n + 1] = MaxBackoff \/ Delay[n + 1] = 2 * Delay[n]
  <2>1. CASE n = 0
    BY <2>1, <1>3, AttemptAssumption
  <2>2. CASE n # 0
    <3>1. n + 1 \in Nat /\ ~(n + 1 <= 1) /\ (n + 1) - 1 = n
      BY <2>2
    <3>2. Delay[n + 1] = IF 2 * Delay[n] >= MaxBackoff THEN MaxBackoff ELSE 2 * Delay[n]
      BY <3>1, DelayDoubles
    <3> QED  BY <3>2, <1>2, AttemptAssumption
  <2> QED  BY <2>1, <2>2
<1> QED
  BY <1>2, <1>3, <1>4

----------------------------------------------------------------------------
(* The inductive invariant. *)

\* The row and what process holds fit the place where process is.
Course ==
  /\ pc \in {"search", "inspect"} => row.status = "SEARCHING" /\ best = None /\ errors = <<>>
  /\ pc = "search" => left = <<>>
  /\ pc \in {"fetch", "temp", "saved"} => row.status = "FOUND" /\ best # None
  /\ mode = "down" => pc = "idle"

\* A count above MaxAttempts is paid for by a restart: a row that may be claimed again is
\* below its budget, and so is every row once the process stops.
Budget ==
  /\ row.attempt <= MaxAttempts + stops
  /\ row.status = "QUEUED" \/ mode # "running" => row.attempt < MaxAttempts + stops

\* The latest wait was set by an attempt that is over.
Waited ==
  /\ pc # "idle" => row.attempt # 0
  /\ LET over == IF pc = "idle" THEN row.attempt ELSE row.attempt - 1
     IN IF over = 0 THEN wait = 0 ELSE wait <= Delay[over]

\* The candidates before the k-th are blocked.
PassedOver(k) == \A j \in 1 .. k - 1 : config.filter /\ Candidates[j].torrent.mock # "nowhere"

\* What process holds is a rest of the ranking, or the candidate it stopped at, and all
\* before it are blocked.
Choice ==
  /\ pc = "inspect" =>
       \E k \in 1 .. Len(Candidates) + 1 :
         /\ Candidates # <<>> /\ PassedOver(k)
         /\ Len(left) = Len(Candidates) - k + 1
         /\ \A j \in 1 .. Len(left) : left[j] = Candidates[k + j - 1]
  /\ best # None => \E k \in 1 .. Len(Candidates) : best = Candidates[k] /\ PassedOver(k)

AttemptInv == TypeOK /\ AnswersOK /\ Course /\ Budget /\ Waited /\ Choice

\* What Conclude makes of the row.
LEMMA Concluded ==
  ASSUME TypeOK, NEW error \in Failure, Conclude(error)
  PROVE  /\ mode = "running" /\ pc' = "idle"
         /\ row' \in [status : {"NOT_FOUND", "FAILED", "QUEUED"},
                      attempt : 0 .. MaxAttempts + MaxStops, next : {"null", "future"}]
         /\ row'.attempt = row.attempt
         /\ row'.status = "QUEUED" => row.attempt < MaxAttempts
         /\ row'.next = "future" <=> row'.status = "QUEUED"
         /\ row'.status = "NOT_FOUND" <=> error = "no_results"
         /\ row'.status = "FAILED" /\ row.attempt < MaxAttempts => error = "permanent"
         /\ wait' \in Nat /\ wait' <= Delay[row.attempt]
         /\ row'.status = "QUEUED" => 2 * wait' + 1 >= Delay[row.attempt]
<1>1. Verdict(error) \in {"NOT_FOUND", "FAILED", "QUEUED"}
  BY DEF Verdict
<1>2. row.attempt \in Nat /\ row.attempt \in 0 .. MaxAttempts + MaxStops
  BY AttemptAssumption DEF TypeOK
<1>3. row' = [row EXCEPT !.status = Verdict(error),
                         !.next = IF Verdict(error) = "QUEUED" THEN "future" ELSE "null"]
  BY DEF Conclude
<1>4. /\ row'.status = Verdict(error) /\ row'.attempt = row.attempt
      /\ row'.next = IF Verdict(error) = "QUEUED" THEN "future" ELSE "null"
      /\ row' \in [status : {"NOT_FOUND", "FAILED", "QUEUED"},
                   attempt : 0 .. MaxAttempts + MaxStops, next : {"null", "future"}]
  BY <1>1, <1>3 DEF TypeOK
<1>5. /\ Verdict(error) = "QUEUED" => row.attempt < MaxAttempts
      /\ Verdict(error) = "NOT_FOUND" <=> error = "no_results"
      /\ Verdict(error) = "FAILED" /\ row.attempt < MaxAttempts => error = "permanent"
  BY <1>2, AttemptAssumption DEF Verdict
<1>6. wait' \in Nat /\ wait' <= Delay[row.attempt]
      /\ (Verdict(error) = "QUEUED" => 2 * wait' + 1 >= Delay[row.attempt])
  <2>1. Delay[row.attempt] \in Nat
    BY <1>2, DelayGrows
  <2>2. wait' \in IF Verdict(error) = "QUEUED" THEN Jittered(row.attempt) ELSE {0}
    BY DEF Conclude
  <2>3. CASE Verdict(error) = "QUEUED"
    <3>1. wait' \in Delay[row.attempt] \div 2 .. Delay[row.attempt]
      BY <2>2, <2>3 DEF Jittered
    <3> QED  BY <2>1, <3>1
  <2>4. CASE Verdict(error) # "QUEUED"
    BY <2>1, <2>2, <2>4
  <2> QED  BY <2>3, <2>4
<1> QED
  BY <1>4, <1>5, <1>6 DEF Conclude

\* combineFailures answers with one of the three errors.
LEMMA CombinedFails ==
  /\ Combined \in Failure
  /\ Combined = "no_results" <=> {answers[i].error : i \in 1 .. Trackers} = {"no_results"}
  /\ Combined = "permanent" => \A i \in 1 .. Trackers : answers[i].error # "transient"
BY DEF Combined, Failure

LEMMA ConfigFixed ==
  ASSUME [Next]_vars
  PROVE  config' = config
BY DEF Next, Step, Begin, Answer, Rank, Skip, Choose, FilteredOut, FetchFails, NoAddress, Fetch,
       SaveFails, Save, MarkDownloaded, Abandon, LoseOutcome, Shutdown, Exit, Start, RetryDue,
       vars

LEMMA OutcomeTypes ==
  ASSUME config \in Config, NEW i \in 1 .. Trackers, NEW a \in Outcomes(i)
  PROVE  /\ a.error \in Failure \cup {"none", "pending"}
         /\ a.page \in Pages[i] \cup {<<>>} /\ a.found \in Seq(Candidate)
<1>1. CASE \E page \in Pages[i] : a = Found(i, page)
  <2>1. PICK page \in Pages[i] : a = Found(i, page)
    BY <1>1
  <2>2. Results(i, page) \in Seq(Candidate)
    BY AttemptAssumption, ResultsRanked
  <2> QED  BY <2>1, <2>2 DEF Found, Failure
<1>2. CASE a \in {Pending} \cup {[Pending EXCEPT !.error = e] : e \in Failure}
  <2>1. <<>> \in Seq(Candidate)
    OBVIOUS
  <2>2. a.page = <<>> /\ a.found = <<>> /\ a.error \in Failure \cup {"pending"}
    BY <1>2 DEF Pending
  <2> QED  BY <2>1, <2>2
<1> QED
  BY <1>1, <1>2 DEF Outcomes

LEMMA InitInv ==
  ASSUME Init
  PROVE  AttemptInv
<1> USE AttemptAssumption
<1>0. config \in Config
  BY DEF Init
<1>1. AnswersOK
  BY DEF Init, AnswersOK, Outcomes
<1>2. TypeOK
  <2>1. \A i \in 1 .. Trackers : answers[i] = Pending
    BY DEF Init
  <2>2. \A i \in 1 .. Trackers : /\ answers[i].error \in Failure \cup {"none", "pending"}
                                /\ answers[i].page \in Pages[i] \cup {<<>>}
                                /\ answers[i].found \in Seq(Candidate)
    <3> TAKE i \in 1 .. Trackers
    <3>1. answers[i] \in Outcomes(i)
      BY <2>1 DEF Outcomes
    <3> QED  BY <3>1, <1>0, OutcomeTypes
  <2>3. <<>> \in Seq(Candidate) /\ <<>> \in Seq({"permanent", "transient"})
    OBVIOUS
  <2>4. /\ mode = "running" /\ pc = "idle" /\ saved = {} /\ wait = 0 /\ stops = 0 /\ faults = 0
        /\ left = <<>> /\ best = None /\ unread = FALSE /\ errors = <<>> /\ config \in Configs
    BY DEF Init
  <2>5. row \in [status : {"QUEUED", "SEARCHING", "FOUND", "DOWNLOADED", "NOT_FOUND", "FAILED"},
                 attempt : 0 .. MaxAttempts + MaxStops, next : {"null", "future", "past"}]
    BY DEF Init
  <2>6. 0 \in 0 .. MaxBackoff /\ 0 \in 0 .. MaxStops /\ 0 \in 0 .. MaxFaults
    OBVIOUS
  <2> QED  BY <2>2, <2>3, <2>4, <2>5, <2>6 DEF TypeOK
<1>3. Course /\ Budget
  BY DEF Init, Course, Budget
<1>4. Waited
  <2>1. pc = "idle" /\ row.attempt = 0 /\ wait = 0
    BY DEF Init
  <2> QED  BY <2>1 DEF Waited
<1>5. Choice
  BY DEF Init, Choice
<1> QED
  BY <1>1, <1>2, <1>3, <1>4, <1>5 DEF AttemptInv

LEMMA AnswersStep ==
  ASSUME config \in Config, AnswersOK, [Next]_vars
  PROVE  AnswersOK'
<1>1. \A i \in 1 .. Trackers : Outcomes(i)' = Outcomes(i)
  <2>1. config' = config
    BY ConfigFixed
  <2> QED
    BY <2>1 DEF Outcomes, Found, Results, Sorted, Ranked, Before, Better, Priority, Earlier, Fits
<1>2. CASE Begin
  BY <1>1, <1>2 DEF Begin, AnswersOK, Outcomes
<1>3. CASE \E i \in 1 .. Trackers : Answer(i)
  <2>1. PICK i \in 1 .. Trackers : Answer(i)
    BY <1>3
  <2>2. PICK a \in Outcomes(i) : answers' = [answers EXCEPT ![i] = a]
    BY <2>1 DEF Answer, Outcomes
  <2>3. answers' = [k \in 1 .. Trackers |-> IF k = i THEN a ELSE answers[k]]
    BY <2>2 DEF AnswersOK
  <2> QED  BY <1>1, <2>2, <2>3 DEF AnswersOK
<1>4. CASE UNCHANGED answers
  BY <1>1, <1>4 DEF AnswersOK
<1> QED
  BY <1>2, <1>3, <1>4
  DEF Next, Step, Rank, Skip, Choose, FilteredOut, FetchFails, NoAddress, Fetch,
      SaveFails, Save, MarkDownloaded, Abandon, LoseOutcome, Shutdown, Exit, Start, RetryDue,
      vars, workVars

\* TypeOK without the answers, whose types follow from AnswersOK.
PlaceOK ==
  /\ mode \in {"running", "stopping", "down"}
  /\ pc \in {"idle", "search", "inspect", "fetch", "temp", "saved"}
  /\ stops \in 0 .. MaxStops /\ faults \in 0 .. MaxFaults

RowOK ==
  /\ row \in [status : {"QUEUED", "SEARCHING", "FOUND", "DOWNLOADED", "NOT_FOUND", "FAILED"},
              attempt : 0 .. MaxAttempts + MaxStops, next : {"null", "future", "past"}]
  /\ wait \in 0 .. MaxBackoff

HeldOK ==
  /\ left \in Seq(Candidate) /\ best \in Candidate \cup {None}
  /\ errors \in Seq({"permanent", "transient"}) /\ saved \subseteq Torrents

LEMMA PlaceStep ==
  ASSUME PlaceOK, unread \in BOOLEAN, [Next]_vars
  PROVE  PlaceOK' /\ unread' \in BOOLEAN
<1> USE AttemptAssumption DEF PlaceOK
<1>1. CASE Begin
  BY <1>1 DEF Begin
<1>2. CASE \E i \in 1 .. Trackers : Answer(i)
  BY <1>2 DEF Answer
<1>3. CASE Rank
  BY <1>3 DEF Rank, Conclude
<1>4. CASE Skip \/ Fetch \/ Save
  BY <1>4 DEF Skip, Fetch, Save
<1>5. CASE Choose
  BY <1>5 DEF Choose
<1>6. CASE FilteredOut
  BY <1>6 DEF FilteredOut, Conclude
<1>7. CASE FetchFails
  BY <1>7 DEF FetchFails, Conclude
<1>8. CASE NoAddress \/ SaveFails
  BY <1>8 DEF NoAddress, SaveFails, Conclude
<1>9. CASE MarkDownloaded \/ Abandon \/ LoseOutcome
  BY <1>9 DEF MarkDownloaded, Abandon, LoseOutcome
<1>10. CASE Shutdown \/ Exit \/ Start \/ RetryDue
  BY <1>10 DEF Shutdown, Exit, Start, RetryDue, workVars
<1>11. CASE UNCHANGED vars
  BY <1>11 DEF vars, workVars
<1> QED
  BY <1>1, <1>2, <1>3, <1>4, <1>5, <1>6, <1>7, <1>8, <1>9, <1>10, <1>11 DEF Next, Step

\* What Conclude is called with.
LEMMA ErrorsGiven ==
  ASSUME NEW error \in {"permanent", "transient"}
  PROVE  error \in Failure /\ "no_results" \in Failure /\ Combined \in Failure
BY CombinedFails DEF Failure

LEMMA RowStep ==
  ASSUME TypeOK, Budget, [Next]_vars
  PROVE  RowOK'
<1> USE AttemptAssumption
<1>0. RowOK /\ row.attempt \in 0 .. MaxAttempts + MaxStops /\ stops \in 0 .. MaxStops
  BY DEF TypeOK, RowOK
<1>1. ASSUME NEW error \in Failure, Conclude(error)
      PROVE  RowOK'
  <2>1. Delay[row.attempt] \in Nat /\ Delay[row.attempt] <= MaxBackoff
    BY <1>0, DelayGrows
  <2>2. /\ row' \in [status : {"NOT_FOUND", "FAILED", "QUEUED"},
                     attempt : 0 .. MaxAttempts + MaxStops, next : {"null", "future"}]
        /\ wait' \in Nat /\ wait' <= Delay[row.attempt]
    BY <1>1, Concluded
  <2>3. row' \in [status : {"QUEUED", "SEARCHING", "FOUND", "DOWNLOADED", "NOT_FOUND", "FAILED"},
                  attempt : 0 .. MaxAttempts + MaxStops, next : {"null", "future", "past"}]
    BY <2>2
  <2> QED  BY <2>1, <2>2, <2>3 DEF RowOK
<1>2. CASE UNCHANGED <<row, wait>>
  BY <1>0, <1>2 DEF RowOK
<1>3. CASE Begin
  <2>1. row.attempt + 1 \in 0 .. MaxAttempts + MaxStops
    BY <1>0, <1>3 DEF Begin, Budget
  <2> QED  BY <1>0, <1>3, <2>1 DEF Begin, RowOK
<1>4. CASE Choose \/ MarkDownloaded \/ Start \/ RetryDue
  <2>1. row' \in [status : {"QUEUED", "SEARCHING", "FOUND", "DOWNLOADED", "NOT_FOUND", "FAILED"},
                  attempt : 0 .. MaxAttempts + MaxStops, next : {"null", "future", "past"}]
    BY <1>0, <1>4 DEF Choose, MarkDownloaded, Start, RetryDue, RowOK
  <2>2. wait' \in 0 .. MaxBackoff
    BY <1>0, <1>4 DEF Choose, MarkDownloaded, Start, RetryDue, RowOK
  <2> QED  BY <2>1, <2>2 DEF RowOK
<1>5. CASE Rank
  BY <1>1, <1>2, <1>5, CombinedFails DEF Rank
<1>6. CASE FilteredOut
  BY <1>1, <1>6, ErrorsGiven DEF FilteredOut
<1>7. CASE FetchFails
  BY <1>1, <1>2, <1>7, ErrorsGiven DEF FetchFails
<1>8. CASE NoAddress \/ SaveFails
  BY <1>1, <1>8, ErrorsGiven DEF NoAddress, SaveFails
<1>9. CASE (\E i \in 1 .. Trackers : Answer(i)) \/ Skip \/ Fetch \/ Save \/ Abandon \/ LoseOutcome
  BY <1>2, <1>9 DEF Answer, Skip, Fetch, Save, Abandon, LoseOutcome
<1>10. CASE Shutdown \/ Exit \/ UNCHANGED vars
  BY <1>2, <1>10 DEF Shutdown, Exit, vars
<1> QED
  BY <1>3, <1>4, <1>5, <1>6, <1>7, <1>8, <1>9, <1>10 DEF Next, Step

LEMMA HeldStep ==
  ASSUME TypeOK, AnswersOK, Course, [Next]_vars
  PROVE  HeldOK'
<1> USE AttemptAssumption
<1>0. HeldOK /\ config \in Config
  BY DEF TypeOK, HeldOK
<1>1. CASE Begin
  BY <1>0, <1>1 DEF Begin, HeldOK
<1>2. CASE UNCHANGED <<left, best, errors, saved>>
  BY <1>0, <1>2 DEF HeldOK
<1>3. CASE Rank
  <2>1. Candidates \in Seq(Candidate)
    BY <1>0, OffersRanked
  <2> QED  BY <1>0, <1>3, <2>1 DEF Rank, HeldOK
<1>4. CASE Skip
  BY <1>0, <1>4 DEF Skip, HeldOK
<1>5. CASE Choose
  BY <1>0, <1>5 DEF Choose, HeldOK
<1>6. CASE FetchFails \/ NoAddress \/ SaveFails
  <2>1. PICK error \in {"permanent", "transient"} : errors' = Append(errors, error)
    BY <1>6 DEF FetchFails, NoAddress, SaveFails
  <2>2. errors' \in Seq({"permanent", "transient"})
    BY <1>0, <2>1 DEF HeldOK
  <2> QED  BY <1>0, <1>6, <2>2 DEF FetchFails, NoAddress, SaveFails, HeldOK
<1>7. CASE Save
  <2>1. best \in Candidate
    BY <1>0, <1>7 DEF Save, Course, HeldOK
  <2>2. best.torrent \in Torrents
    BY <2>1 DEF Candidate
  <2> QED  BY <1>0, <1>7, <2>2 DEF Save, HeldOK
<1>8. CASE (\E i \in 1 .. Trackers : Answer(i)) \/ FilteredOut \/ Fetch \/ MarkDownloaded
           \/ Abandon \/ LoseOutcome
  BY <1>2, <1>8 DEF Answer, FilteredOut, Fetch, MarkDownloaded, Abandon, LoseOutcome
<1>9. CASE Shutdown \/ Exit \/ Start \/ RetryDue \/ UNCHANGED vars
  BY <1>2, <1>9 DEF Shutdown, Exit, Start, RetryDue, vars, workVars
<1> QED
  BY <1>1, <1>3, <1>4, <1>5, <1>6, <1>7, <1>8, <1>9 DEF Next, Step

LEMMA TypeStep ==
  ASSUME TypeOK, AnswersOK, Course, Budget, [Next]_vars
  PROVE  TypeOK'
<1>0. config \in Config /\ config \in Configs
  BY AttemptAssumption DEF TypeOK
<1>1. config' = config
  BY ConfigFixed
<1>2. ASSUME NEW i \in 1 .. Trackers
      PROVE  /\ answers[i].error' \in Failure \cup {"none", "pending"}
             /\ answers[i].page' \in Pages[i] \cup {<<>>}
             /\ answers[i].found' \in Seq(Candidate)
  <2>1. AnswersOK'
    BY <1>0, AnswersStep
  <2>2. Outcomes(i)' = Outcomes(i)
    BY <1>1 DEF Outcomes, Found, Results, Sorted, Ranked, Before, Better, Priority, Earlier, Fits
  <2>3. answers'[i] \in Outcomes(i)
    BY <2>1, <2>2 DEF AnswersOK
  <2> QED  BY <1>0, <2>3, OutcomeTypes
<1>3. PlaceOK' /\ unread' \in BOOLEAN
  <2>1. PlaceOK /\ unread \in BOOLEAN
    BY DEF TypeOK, PlaceOK
  <2> QED  BY <2>1, PlaceStep
<1>4. RowOK' /\ HeldOK'
  BY RowStep, HeldStep
<1> QED
  BY <1>0, <1>1, <1>2, <1>3, <1>4 DEF TypeOK, PlaceOK, RowOK, HeldOK

LEMMA CourseStep ==
  ASSUME TypeOK, Course, [Next]_vars
  PROVE  Course'
<1> USE AttemptAssumption DEF Course
<1>0. row \in [status : {"QUEUED", "SEARCHING", "FOUND", "DOWNLOADED", "NOT_FOUND", "FAILED"},
               attempt : 0 .. MaxAttempts + MaxStops, next : {"null", "future", "past"}]
  BY DEF TypeOK
<1>1. ASSUME pc' = "idle"
      PROVE  Course'
  BY <1>1
<1>2. CASE Begin
  BY <1>0, <1>2 DEF Begin
<1>3. CASE Rank
  BY <1>1, <1>3 DEF Rank, Conclude
<1>4. CASE Choose
  <2>1. Head(left) # None
    BY <1>4 DEF Choose, TypeOK
  <2>2. row'.status = "FOUND"
    BY <1>0, <1>4 DEF Choose
  <2> QED  BY <1>4, <2>1, <2>2 DEF Choose
<1>5. CASE FilteredOut \/ NoAddress \/ SaveFails
  BY <1>1, <1>5 DEF FilteredOut, NoAddress, SaveFails, Conclude
<1>6. CASE FetchFails
  BY <1>1, <1>6 DEF FetchFails, Conclude
<1>7. CASE (\E i \in 1 .. Trackers : Answer(i)) \/ Skip \/ Fetch \/ Save
  BY <1>7 DEF Answer, Skip, Fetch, Save
<1>8. CASE MarkDownloaded \/ Abandon \/ LoseOutcome
  BY <1>1, <1>8 DEF MarkDownloaded, Abandon, LoseOutcome
<1>9. CASE Shutdown \/ Exit \/ Start
  BY <1>9 DEF Shutdown, Exit, Start, workVars
<1>10. CASE RetryDue
  BY <1>0, <1>10 DEF RetryDue, workVars
<1>11. CASE UNCHANGED vars
  BY <1>11 DEF vars, workVars
<1> QED
  BY <1>2, <1>3, <1>4, <1>5, <1>6, <1>7, <1>8, <1>9, <1>10, <1>11 DEF Next, Step

LEMMA BudgetStep ==
  ASSUME TypeOK, Course, Budget, [Next]_vars
  PROVE  Budget'
<1> USE AttemptAssumption DEF Budget
<1>0. /\ row.attempt \in Nat /\ stops \in Nat
      /\ row \in [status : {"QUEUED", "SEARCHING", "FOUND", "DOWNLOADED", "NOT_FOUND", "FAILED"},
                  attempt : 0 .. MaxAttempts + MaxStops, next : {"null", "future", "past"}]
  BY DEF TypeOK
<1>1. ASSUME NEW error \in Failure, Conclude(error), UNCHANGED <<mode, stops>>
      PROVE  Budget'
  <2>1. /\ mode = "running" /\ row'.attempt = row.attempt
        /\ row'.status = "QUEUED" => row.attempt < MaxAttempts
    BY <1>1, Concluded
  <2> QED  BY <1>0, <1>1, <2>1
<1>2. CASE UNCHANGED <<row, mode, stops>>
  BY <1>2
<1>3. CASE Begin
  <2>1. row'.attempt = row.attempt + 1 /\ row'.status = "SEARCHING"
    BY <1>0, <1>3 DEF Begin
  <2> QED  BY <1>0, <1>3, <2>1 DEF Begin
<1>4. CASE Choose
  <2>1. row'.attempt = row.attempt /\ row'.status = "FOUND"
    BY <1>0, <1>4 DEF Choose
  <2> QED  BY <1>0, <1>4, <2>1 DEF Choose
<1>5. CASE MarkDownloaded
  <2>1. row'.attempt = row.attempt /\ row'.status = "DOWNLOADED"
    BY <1>0, <1>5 DEF MarkDownloaded
  <2> QED  BY <1>0, <1>5, <2>1 DEF MarkDownloaded
<1>6. CASE Rank
  BY <1>1, <1>2, <1>6, CombinedFails DEF Rank
<1>7. CASE FilteredOut
  BY <1>1, <1>7, ErrorsGiven DEF FilteredOut
<1>8. CASE FetchFails
  BY <1>1, <1>2, <1>8, ErrorsGiven DEF FetchFails
<1>9. CASE NoAddress \/ SaveFails
  BY <1>1, <1>9, ErrorsGiven DEF NoAddress, SaveFails
<1>10. CASE (\E i \in 1 .. Trackers : Answer(i)) \/ Skip \/ Fetch \/ Save \/ Abandon \/ LoseOutcome
  BY <1>2, <1>10 DEF Answer, Skip, Fetch, Save, Abandon, LoseOutcome
<1>11. CASE Shutdown
  BY <1>0, <1>11 DEF Shutdown
<1>12. CASE Exit
  BY <1>0, <1>12 DEF Exit
<1>13. CASE Start
  <2>1. row'.attempt = row.attempt
    BY <1>0, <1>13 DEF Start
  <2> QED  BY <1>0, <1>13, <2>1 DEF Start
<1>14. CASE RetryDue
  <2>1. row'.attempt = row.attempt /\ row'.status = row.status
    BY <1>0, <1>14 DEF RetryDue
  <2> QED  BY <1>0, <1>14, <2>1 DEF RetryDue
<1>15. CASE UNCHANGED vars
  BY <1>2, <1>15 DEF vars
<1> QED
  BY <1>3, <1>4, <1>5, <1>6, <1>7, <1>8, <1>9, <1>10, <1>11, <1>12, <1>13, <1>14, <1>15
  DEF Next, Step

LEMMA WaitedStep ==
  ASSUME TypeOK, Course, Waited, [Next]_vars
  PROVE  Waited'
<1> USE AttemptAssumption
<1>0. /\ row.attempt \in Nat /\ wait \in Nat
      /\ row \in [status : {"QUEUED", "SEARCHING", "FOUND", "DOWNLOADED", "NOT_FOUND", "FAILED"},
                  attempt : 0 .. MaxAttempts + MaxStops, next : {"null", "future", "past"}]
  BY DEF TypeOK
\* Whether the attempt is over or not, the wait is at most the delay of its number.
<1>1. /\ wait <= Delay[row.attempt] /\ Delay[row.attempt] \in Nat
      /\ row.attempt = 0 => wait = 0
  <2>1. CASE pc = "idle"
    <3>1. Delay[row.attempt] \in Nat
      BY <1>0, DelayGrows
    <3> QED  BY <1>0, <2>1, <3>1 DEF Waited
  <2>2. CASE pc # "idle"
    <3> DEFINE n == row.attempt - 1
    <3>1. n \in Nat /\ n + 1 = row.attempt /\ IF n = 0 THEN wait = 0 ELSE wait <= Delay[n]
      BY <1>0, <2>2 DEF Waited
    <3> HIDE DEF n
    <3>2. Delay[n] \in Nat /\ Delay[n] <= Delay[n + 1]
      BY <3>1, DelayGrows
    <3>3. Delay[row.attempt] \in Nat
      BY <1>0, DelayGrows
    <3> QED  BY <1>0, <3>1, <3>2, <3>3
  <2> QED  BY <2>1, <2>2
<1>2. ASSUME pc' = "idle", row'.attempt = row.attempt, wait' \in {0, wait}
      PROVE  Waited'
  BY <1>0, <1>1, <1>2 DEF Waited
<1>3. ASSUME pc # "idle", NEW error \in Failure, Conclude(error)
      PROVE  Waited'
  <2>1. pc' = "idle" /\ row'.attempt = row.attempt /\ wait' <= Delay[row.attempt]
    BY <1>3, Concluded
  <2> QED  BY <1>3, <2>1 DEF Waited
<1>4. ASSUME pc # "idle" <=> pc' # "idle", row'.attempt = row.attempt, wait' = wait
      PROVE  Waited'
  BY <1>4 DEF Waited
<1>5. CASE Begin
  <2>1. /\ pc' = "search" /\ row'.attempt = row.attempt + 1 /\ (row.attempt + 1) - 1 = row.attempt
        /\ row.attempt + 1 # 0 /\ wait' = wait
    BY <1>0, <1>5 DEF Begin
  <2> QED  BY <1>1, <2>1 DEF Waited
<1>6. CASE Choose
  <2>1. row'.attempt = row.attempt
    BY <1>0, <1>6 DEF Choose
  <2> QED  BY <1>4, <1>6, <2>1 DEF Choose
<1>7. CASE MarkDownloaded
  <2>1. row'.attempt = row.attempt
    BY <1>0, <1>7 DEF MarkDownloaded
  <2> QED  BY <1>2, <1>7, <2>1 DEF MarkDownloaded
<1>8. CASE Rank
  BY <1>3, <1>4, <1>8, CombinedFails DEF Rank
<1>9. CASE FilteredOut
  BY <1>3, <1>9, ErrorsGiven DEF FilteredOut
<1>10. CASE FetchFails
  BY <1>3, <1>4, <1>10, ErrorsGiven DEF FetchFails
<1>11. CASE NoAddress \/ SaveFails
  BY <1>3, <1>11, ErrorsGiven DEF NoAddress, SaveFails
<1>12. CASE (\E i \in 1 .. Trackers : Answer(i)) \/ Skip \/ Fetch \/ Save
  BY <1>4, <1>12 DEF Answer, Skip, Fetch, Save
<1>13. CASE Abandon \/ LoseOutcome
  BY <1>2, <1>13 DEF Abandon, LoseOutcome
<1>14. CASE Start
  <2>1. row'.attempt = row.attempt /\ wait' \in {0, wait} /\ pc' = "idle"
    BY <1>0, <1>14 DEF Start, Course, workVars
  <2> QED  BY <1>2, <2>1
<1>15. CASE RetryDue
  <2>1. row'.attempt = row.attempt
    BY <1>0, <1>15 DEF RetryDue
  <2> QED  BY <1>4, <1>15, <2>1 DEF RetryDue, workVars
<1>16. CASE Shutdown \/ Exit \/ UNCHANGED vars
  BY <1>4, <1>16 DEF Shutdown, Exit, vars, workVars
<1> QED
  BY <1>5, <1>6, <1>7, <1>8, <1>9, <1>10, <1>11, <1>12, <1>13, <1>14, <1>15, <1>16 DEF Next, Step

LEMMA RankingKept ==
  ASSUME UNCHANGED <<config, answers>>
  PROVE  /\ Candidates' = Candidates
         /\ \A k \in Int : PassedOver(k)' <=> PassedOver(k)
<1>1. Candidates' = Candidates
  BY DEF Candidates, Sorted, Spots, Ranked, Before, Better, Priority, Earlier
<1> QED
  BY <1>1 DEF PassedOver

LEMMA ChoiceStep ==
  ASSUME TypeOK, AnswersOK, Course, Choice, [Next]_vars
  PROVE  Choice'
<1> USE AttemptAssumption
<1>0. /\ left \in Seq(Candidate) /\ Candidates \in Seq(Candidate)
      /\ Len(left) \in Nat /\ Len(Candidates) \in Nat
  <2>1. config \in Config
    BY DEF TypeOK
  <2>2. Candidates \in Seq(Candidate) /\ left \in Seq(Candidate)
    BY <2>1, OffersRanked DEF TypeOK
  <2> QED  BY <2>2
<1>1. ASSUME pc' # "inspect", best' = None
      PROVE  Choice'
  BY <1>1 DEF Choice
<1>2. ASSUME UNCHANGED <<config, answers, best>>,
             pc' = "inspect" => pc = "inspect" /\ left' = left
      PROVE  Choice'
  <2>1. Candidates' = Candidates /\ \A k \in Int : PassedOver(k)' <=> PassedOver(k)
    BY <1>2, RankingKept
  <2> HIDE DEF Candidates, PassedOver
  <2>2. CASE pc' = "inspect"
    <3>1. PICK k \in 1 .. Len(Candidates) + 1 :
             /\ Candidates # <<>> /\ PassedOver(k)
             /\ Len(left) = Len(Candidates) - k + 1
             /\ \A j \in 1 .. Len(left) : left[j] = Candidates[k + j - 1]
      BY <1>2, <2>2 DEF Choice
    <3>2. k \in Int
      BY <1>0
    <3>3. best' # None =>
            \E l \in 1 .. Len(Candidates) : best = Candidates[l] /\ PassedOver(l)
      BY <1>2 DEF Choice
    <3>4. /\ k \in 1 .. Len(Candidates') + 1 /\ Candidates' # <<>> /\ PassedOver(k)'
          /\ Len(left') = Len(Candidates') - k + 1
          /\ \A j \in 1 .. Len(left') : left'[j] = Candidates'[k + j - 1]
      BY <1>2, <2>1, <2>2, <3>1, <3>2
    <3>5. best' # None =>
            \E l \in 1 .. Len(Candidates') : best' = Candidates'[l] /\ PassedOver(l)'
      BY <1>0, <1>2, <2>1, <3>3
    <3> QED  BY <3>4, <3>5 DEF Choice
  <2>3. CASE pc' # "inspect"
    BY <1>0, <1>2, <2>1, <2>3 DEF Choice
  <2> QED  BY <2>2, <2>3
<1>3. CASE Begin
  BY <1>1, <1>3 DEF Begin
<1>4. CASE \E i \in 1 .. Trackers : Answer(i)
  BY <1>1, <1>4 DEF Answer, Course
<1>5. CASE Rank
  <2>1. best' = None /\ UNCHANGED <<config, answers>> /\ left' = Candidates
        /\ (pc' = "inspect" => Candidates # <<>>)
    BY <1>5 DEF Rank, Course, Conclude
  <2>2. Candidates' = Candidates /\ (PassedOver(1)' <=> PassedOver(1))
    BY <2>1, RankingKept
  <2>3. PassedOver(1)
    BY DEF PassedOver
  <2> HIDE DEF Candidates, PassedOver
  <2>4. 1 \in 1 .. Len(Candidates) + 1 /\ Len(Candidates) = Len(Candidates) - 1 + 1
        /\ \A j \in 1 .. Len(Candidates) : 1 + j - 1 = j
    BY <1>0
  <2>5. pc' = "inspect" =>
          /\ Candidates' # <<>> /\ PassedOver(1)' /\ Len(left') = Len(Candidates') - 1 + 1
          /\ \A j \in 1 .. Len(left') : left'[j] = Candidates'[1 + j - 1]
    BY <2>1, <2>2, <2>3, <2>4
  <2>6. 1 \in 1 .. Len(Candidates') + 1
    BY <2>2, <2>4
  <2> QED  BY <2>1, <2>5, <2>6 DEF Choice
<1>6. CASE Skip
  <2>1. PICK k \in 1 .. Len(Candidates) + 1 :
           /\ Candidates # <<>> /\ PassedOver(k)
           /\ Len(left) = Len(Candidates) - k + 1
           /\ \A j \in 1 .. Len(left) : left[j] = Candidates[k + j - 1]
    BY <1>6 DEF Choice, Skip
  <2>2. Candidates' = Candidates /\ \A l \in Int : PassedOver(l)' <=> PassedOver(l)
    BY <1>6, RankingKept DEF Skip
  <2>3. left # <<>> /\ left' = Tail(left) /\ best' = None /\ pc' = "inspect"
    BY <1>6 DEF Skip, Course
  <2>4. Len(left) > 0
    BY <1>0, <2>3
  <2>5. k \in 1 .. Len(Candidates) /\ Head(left) = Candidates[k] /\ k \in Int
    <3>1. k \in Int /\ k \in 1 .. Len(Candidates)
      BY <1>0, <2>1, <2>4
    <3>2. Head(left) = left[1]
      BY <1>0, <2>3
    <3>3. 1 \in 1 .. Len(left) /\ k + 1 - 1 = k
      BY <1>0, <2>4, <3>1
    <3>4. left[1] = Candidates[k + 1 - 1]
      BY <2>1, <3>3
    <3> QED  BY <3>1, <3>2, <3>3, <3>4
  <2>6. config.filter /\ Head(left).torrent.mock # "nowhere"
    BY <1>6 DEF Skip, Known, Inspected
  <2>7. PassedOver(k + 1)
    <3>1. \A j \in 1 .. (k + 1) - 1 : j = k \/ j \in 1 .. k - 1
      BY <2>5
    <3>2. \A j \in 1 .. k - 1 : config.filter /\ Candidates[j].torrent.mock # "nowhere"
      BY <2>1 DEF PassedOver
    <3>3. config.filter /\ Candidates[k].torrent.mock # "nowhere"
      BY <2>5, <2>6
    <3> HIDE DEF Candidates
    <3> QED  BY <3>1, <3>2, <3>3 DEF PassedOver
  <2> HIDE DEF Candidates, PassedOver
  <2>8. /\ k + 1 \in 1 .. Len(Candidates) + 1 /\ k + 1 \in Int
        /\ Len(left') = Len(Candidates) - (k + 1) + 1
    BY <1>0, <2>1, <2>3, <2>4, <2>5
  <2>9. ASSUME NEW j \in 1 .. Len(left')
        PROVE  left'[j] = Candidates[(k + 1) + j - 1]
    <3>1. left'[j] = left[j + 1] /\ j + 1 \in 1 .. Len(left)
      BY <1>0, <2>3, <2>4
    <3>2. left[j + 1] = Candidates[k + (j + 1) - 1]
      BY <2>1, <3>1
    <3>3. k + (j + 1) - 1 = (k + 1) + j - 1
      BY <2>5
    <3> QED  BY <3>1, <3>2, <3>3
  <2> QED  BY <2>1, <2>2, <2>3, <2>7, <2>8, <2>9 DEF Choice
<1>7. CASE Choose
  <2>1. PICK k \in 1 .. Len(Candidates) + 1 :
           /\ Candidates # <<>> /\ PassedOver(k)
           /\ Len(left) = Len(Candidates) - k + 1
           /\ \A j \in 1 .. Len(left) : left[j] = Candidates[k + j - 1]
    BY <1>7 DEF Choice, Choose
  <2>2. Candidates' = Candidates /\ \A l \in Int : PassedOver(l)' <=> PassedOver(l)
    BY <1>7, RankingKept DEF Choose
  <2>3. left # <<>> /\ best' = Head(left) /\ pc' = "fetch"
    BY <1>7 DEF Choose
  <2>4. Len(left) > 0
    BY <1>0, <2>3
  <2>5. k \in 1 .. Len(Candidates) /\ Head(left) = Candidates[k] /\ k \in Int
    <3>1. k \in Int /\ k \in 1 .. Len(Candidates)
      BY <1>0, <2>1, <2>4
    <3>2. Head(left) = left[1]
      BY <1>0, <2>3
    <3>3. 1 \in 1 .. Len(left) /\ k + 1 - 1 = k
      BY <1>0, <2>4, <3>1
    <3>4. left[1] = Candidates[k + 1 - 1]
      BY <2>1, <3>3
    <3> QED  BY <3>1, <3>2, <3>3, <3>4
  <2> HIDE DEF Candidates, PassedOver
  <2> QED  BY <2>1, <2>2, <2>3, <2>5 DEF Choice
<1>8. CASE FilteredOut \/ NoAddress \/ SaveFails
  BY <1>2, <1>8 DEF FilteredOut, NoAddress, SaveFails, Conclude
<1>9. CASE FetchFails
  BY <1>2, <1>9 DEF FetchFails, Conclude
<1>10. CASE Fetch \/ Save \/ MarkDownloaded \/ Abandon \/ LoseOutcome
  BY <1>2, <1>10 DEF Fetch, Save, MarkDownloaded, Abandon, LoseOutcome
<1>11. CASE Shutdown \/ Exit \/ Start \/ RetryDue \/ UNCHANGED vars
  BY <1>2, <1>11 DEF Shutdown, Exit, Start, RetryDue, vars, workVars
<1> QED
  BY <1>3, <1>4, <1>5, <1>6, <1>7, <1>8, <1>9, <1>10, <1>11 DEF Next, Step

LEMMA InvStep ==
  ASSUME AttemptInv, [Next]_vars
  PROVE  AttemptInv'
<1>1. config \in Config
  BY AttemptAssumption DEF AttemptInv, TypeOK
<1> QED
  BY <1>1, AnswersStep, TypeStep, CourseStep, BudgetStep, WaitedStep, ChoiceStep DEF AttemptInv

\* The invariant holds of every deployment: any number of trackers, any pages, any
\* priorities, any bounds.
LEMMA AttemptInvariant == Spec => []AttemptInv
<1>1. Init => AttemptInv
  BY InitInv
<1>2. AttemptInv /\ [Next]_vars => AttemptInv'
  BY InvStep
<1> QED
  BY <1>1, <1>2, PTL DEF Spec

----------------------------------------------------------------------------
(* What the invariant gives. *)

\* Every value keeps its type, the row's count included: a request is attempted at most
\* MaxAttempts times and once more for each restart, and no delay exceeds the cap.
THEOREM AttemptTypes == Spec => []TypeOK
BY AttemptInvariant, PTL DEF AttemptInv

\* The candidate at which process stops outranks every genuine offer there is: the
\* candidates before it are blocked, and none after it outranks it.
LEMMA BestOfOffers ==
  ASSUME AttemptInv
  PROVE  BestReleaseTaken
<1> SUFFICES ASSUME best # None
             PROVE  \E taken \in Offers :
                      /\ best = [tracker |-> taken[1], torrent |-> At(taken)]
                      /\ \A other \in Offers : Genuine(other) => ~Outranks(other, taken)
  BY DEF BestReleaseTaken
<1>1. Candidates \in Seq(Candidate) /\ \E place : RankedAs(place)
  BY AttemptAssumption, OffersRanked DEF AttemptInv, TypeOK
<1>2. PICK place : RankedAs(place)
  BY <1>1
<1>3. PICK k \in 1 .. Len(Candidates) : best = Candidates[k] /\ PassedOver(k)
  BY DEF AttemptInv, Choice
<1>4. DOMAIN Candidates = 1 .. Len(Candidates) /\ Len(Candidates) \in Nat
  BY <1>1
<1>5. \A j \in 1 .. k - 1 : config.filter /\ Candidates[j].torrent.mock # "nowhere"
  BY <1>3 DEF PassedOver
<1>6. Candidates[k] \in Candidate
  BY <1>1, <1>4
<1> HIDE DEF Candidates
<1>7. place[k] \in Offers /\ best = [tracker |-> place[k][1], torrent |-> At(place[k])]
  BY <1>2, <1>3, <1>4 DEF RankedAs, OfferAt
<1>8. ASSUME NEW other \in Offers, Genuine(other)
      PROVE  ~Outranks(other, place[k])
  <2>1. PICK l \in 1 .. Len(Candidates) : place[l] = other
    BY <1>2, <1>4 DEF RankedAs
  <2>2. CASE k < l
    BY <1>2, <1>4, <2>1, <2>2 DEF RankedAs
  <2>3. CASE k = l
    <3>1. place[k] = other
      BY <2>1, <2>3
    <3>2. OfferAt(other) \in Candidate
      BY <1>2, <1>3, <1>4, <1>6, <3>1 DEF RankedAs
    <3>3. other \in Nat \X Nat
      <4>1. \A i \in 1 .. Trackers : answers[i].page \in Seq(Torrents) /\ i \in Nat
        BY AttemptAssumption, AnswerRows DEF AttemptInv, TypeOK
      <4>2. PICK i \in 1 .. Trackers : other \in {i} \X DOMAIN answers[i].page
        BY DEF Offers, Places
      <4> QED  BY <4>1, <4>2
    <3>4. config \in Config
      BY AttemptAssumption DEF AttemptInv, TypeOK
    <3> QED  BY <3>1, <3>2, <3>3, <3>4, NotOverItself
  <2>4. CASE l < k
    <3>1. config.filter /\ Candidates[l].torrent.mock # "nowhere"
      BY <1>5, <2>4
    <3>2. Candidates[l].torrent = At(other)
      BY <1>2, <1>4, <2>1 DEF RankedAs, OfferAt
    <3> QED  BY <1>8, <3>1, <3>2 DEF Genuine
  <2> QED  BY <2>2, <2>3, <2>4
<1> QED
  BY <1>7, <1>8

\* The release taken is the best of all that were offered, for every number of trackers,
\* every page length and every assignment of priorities.
THEOREM BestIsTaken == Spec => []BestReleaseTaken
<1>1. AttemptInv => BestReleaseTaken
  BY BestOfOffers
<1> QED
  BY <1>1, AttemptInvariant, PTL

LEMMA KeptOutStep ==
  ASSUME AttemptInv, MockbustersKeptOut, [Next]_vars
  PROVE  MockbustersKeptOut'
<1>0. config' = config
  BY ConfigFixed
<1>1. CASE Choose
  <2>1. /\ best' = Head(left) /\ left \in Seq(Candidate) /\ left # <<>>
        /\ LET t == Head(left).torrent IN
             \/ ~Known(t) /\ ~(Inspected(t) /\ t.mock = "page") /\ unread' = FALSE
             \/ Inspected(t) /\ unread' = TRUE
    BY <1>1 DEF Choose, AttemptInv, TypeOK
  <2> DEFINE t == Head(left).torrent
  <2>2. t.mock \in {"nowhere", "title", "page"}
    <3>1. Head(left) \in Candidate
      BY <2>1
    <3> QED  BY <3>1, AttemptAssumption DEF Candidate, Torrent
  <2>3. t.topic \/ ~t.topic
    OBVIOUS
  <2> QED  BY <1>0, <2>1, <2>2, <2>3 DEF MockbustersKeptOut, Known, Inspected
<1>2. CASE Begin
  BY <1>2 DEF Begin, MockbustersKeptOut
<1>3. CASE UNCHANGED <<best, unread>>
  BY <1>0, <1>3 DEF MockbustersKeptOut
<1> QED
  BY <1>1, <1>2, <1>3
  DEF Next, Step, Answer, Rank, Skip, FilteredOut, FetchFails, NoAddress, Fetch,
      SaveFails, Save, MarkDownloaded, Abandon, LoseOutcome, Shutdown, Exit, Start, RetryDue,
      vars, workVars

\* A blocked release is taken only if neither its title nor its page could tell.
THEOREM BlockedStayOut == Spec => []MockbustersKeptOut
<1>1. Init => MockbustersKeptOut
  BY DEF Init, MockbustersKeptOut
<1>2. AttemptInv /\ MockbustersKeptOut /\ [Next]_vars => MockbustersKeptOut'
  BY KeptOutStep
<1> QED
  BY <1>1, <1>2, AttemptInvariant, PTL DEF Spec

\* The ways an attempt ends through handleError, with the error each hands it.
LEMMA Endings ==
  ASSUME AttemptInv, [Next]_vars, ~(UNCHANGED row \/ Begin \/ Choose \/ MarkDownloaded \/ Start \/ RetryDue)
  PROVE  /\ pc # "idle" /\ UNCHANGED <<config, mode, answers, best>>
         /\ \/ /\ Rank /\ Candidates = <<>> /\ UNCHANGED errors
               /\ Combined \in Failure /\ Conclude(Combined)
            \/ FilteredOut /\ "no_results" \in Failure /\ Conclude("no_results")
            \/ \E error \in {"permanent", "transient"} :
                 /\ best # None /\ errors' = Append(errors, error)
                 /\ error \in Failure /\ Conclude(error)
<1>1. CASE Rank
  BY <1>1, CombinedFails DEF Rank
<1>2. CASE FilteredOut
  BY <1>2, ErrorsGiven DEF FilteredOut
<1>3. CASE FetchFails
  BY <1>3, ErrorsGiven DEF FetchFails, AttemptInv, Course
<1>4. CASE NoAddress \/ SaveFails
  BY <1>4, ErrorsGiven DEF NoAddress, SaveFails, AttemptInv, Course
<1>5. ~((\E i \in 1 .. Trackers : Answer(i)) \/ Skip \/ Fetch \/ Save \/ Abandon \/ LoseOutcome)
  BY DEF Answer, Skip, Fetch, Save, Abandon, LoseOutcome
<1>6. ~(Shutdown \/ Exit \/ UNCHANGED vars)
  BY DEF Shutdown, Exit, vars
<1> QED
  BY <1>1, <1>2, <1>3, <1>4, <1>5, <1>6 DEF Next, Step

LEMMA OffersKept ==
  ASSUME UNCHANGED <<config, answers>>
  PROVE  /\ Offers' = Offers
         /\ \A place : Genuine(place)' <=> Genuine(place)
BY DEF Offers, Places, At, Genuine

\* A row in rest stays in rest, and so does what its attempt has found out.
LEMMA RestIsKept ==
  ASSUME AttemptInv, [Next]_vars, row'.status \in {"NOT_FOUND", "FAILED"},
         UNCHANGED row \/ Begin \/ Choose \/ MarkDownloaded \/ Start \/ RetryDue
  PROVE  UNCHANGED <<config, answers, best, errors>> /\ row'.status = row.status
         /\ row'.attempt = row.attempt
<1>1. row \in [status : {"QUEUED", "SEARCHING", "FOUND", "DOWNLOADED", "NOT_FOUND", "FAILED"},
               attempt : 0 .. MaxAttempts + MaxStops, next : {"null", "future", "past"}]
  BY DEF AttemptInv, TypeOK
<1>2. CASE UNCHANGED row
  <2>1. pc = "idle"
    <3>1. pc \in {"idle", "search", "inspect", "fetch", "temp", "saved"}
      BY DEF AttemptInv, TypeOK
    <3> QED  BY <1>2, <3>1 DEF AttemptInv, Course
  <2>2. CASE Step
    BY <1>1, <1>2, <2>1, <2>2
    DEF Step, Begin, Answer, Rank, Skip, Choose, FilteredOut, FetchFails, NoAddress, Fetch,
        SaveFails, Save, MarkDownloaded, Abandon
  <2>3. CASE LoseOutcome \/ Shutdown \/ Exit \/ Start \/ RetryDue \/ UNCHANGED vars
    BY <1>2, <2>3 DEF LoseOutcome, Shutdown, Exit, Start, RetryDue, vars, workVars
  <2> QED  BY <2>2, <2>3 DEF Next
<1>3. CASE Begin \/ Choose \/ MarkDownloaded
  BY <1>1, <1>3 DEF Begin, Choose, MarkDownloaded
<1>4. CASE Start
  BY <1>1, <1>4 DEF Start, workVars
<1>5. CASE RetryDue
  BY <1>1, <1>5 DEF RetryDue, workVars
<1> QED
  BY <1>2, <1>3, <1>4, <1>5

LEMMA SilenceStep ==
  ASSUME AttemptInv, SilenceIsTheAnswer, [Next]_vars
  PROVE  SilenceIsTheAnswer'
<1> SUFFICES ASSUME row'.status = "NOT_FOUND" PROVE SilenceIsTheAnswer'
  BY DEF SilenceIsTheAnswer
<1>1. CASE UNCHANGED row \/ Begin \/ Choose \/ MarkDownloaded \/ Start \/ RetryDue
  <2>1. UNCHANGED <<config, answers>> /\ row.status = "NOT_FOUND"
    BY <1>1, RestIsKept
  <2> QED  BY <2>1, OffersKept DEF SilenceIsTheAnswer
<1>2. CASE ~(UNCHANGED row \/ Begin \/ Choose \/ MarkDownloaded \/ Start \/ RetryDue)
  <2>1. UNCHANGED <<config, answers>>
    BY <1>2, Endings
  <2>2. Offers' = Offers /\ \A place : Genuine(place)' <=> Genuine(place)
    BY <2>1, OffersKept
  <2>3. Candidates \in Seq(Candidate) /\ \E place : RankedAs(place)
    BY AttemptAssumption, OffersRanked DEF AttemptInv, TypeOK
  <2>4. PICK place : RankedAs(place)
    BY <2>3
  <2>5. DOMAIN Candidates = 1 .. Len(Candidates) /\ Len(Candidates) \in Nat
    BY <2>3
  <2>6. TypeOK
    BY DEF AttemptInv
  <2>7. CASE /\ Rank /\ Candidates = <<>>
             /\ Combined \in Failure /\ Conclude(Combined)
    <3>1. Combined = "no_results"
      BY <2>6, <2>7, Concluded
    <3>2. \A i \in 1 .. Trackers : answers[i].error = "no_results"
      BY <3>1, CombinedFails
    <3>3. Offers = {}
      BY <2>4, <2>7 DEF RankedAs
    <3> QED  BY <2>1, <2>2, <3>2, <3>3 DEF SilenceIsTheAnswer
  <2>8. CASE FilteredOut
    <3>1. PICK k \in 1 .. Len(Candidates) + 1 :
             /\ Candidates # <<>> /\ PassedOver(k)
             /\ Len(left) = Len(Candidates) - k + 1
      BY <2>8 DEF AttemptInv, Choice, FilteredOut
    <3>2. Len(left) = 0
      BY <2>8 DEF FilteredOut
    <3>3. k - 1 = Len(Candidates) /\ Len(Candidates) # 0
      BY <2>3, <2>5, <3>1, <3>2
    <3>4. \A j \in 1 .. Len(Candidates) : config.filter /\ Candidates[j].torrent.mock # "nowhere"
      BY <3>1, <3>3 DEF PassedOver
    <3> HIDE DEF Candidates
    <3>5. \A offer \in Offers : ~Genuine(offer)
      <4> TAKE offer \in Offers
      <4>1. PICK j \in 1 .. Len(Candidates) : place[j] = offer
        BY <2>4, <2>5 DEF RankedAs
      <4>2. Candidates[j].torrent = At(offer)
        BY <2>4, <2>5, <4>1 DEF RankedAs, OfferAt
      <4> QED  BY <3>4, <4>2 DEF Genuine
    <3>6. Offers # {}
      BY <2>4, <2>5, <3>3 DEF RankedAs
    <3> QED  BY <2>2, <3>5, <3>6 DEF SilenceIsTheAnswer
  <2>9. ASSUME NEW error \in {"permanent", "transient"}, error \in Failure, Conclude(error)
        PROVE  FALSE
    <3>1. error = "no_results"
      BY <2>6, <2>9, Concluded
    <3> QED  BY <3>1
  <2> QED
    BY <1>2, <2>7, <2>8, <2>9, Endings
<1> QED
  BY <1>1, <1>2

\* A request is not found only when nothing offered was genuine, and when nothing was
\* offered, only if every tracker said so.
THEOREM SilenceOnlyIfSilent == Spec => []SilenceIsTheAnswer
<1>1. Init => SilenceIsTheAnswer
  BY DEF Init, SilenceIsTheAnswer
<1>2. AttemptInv /\ SilenceIsTheAnswer /\ [Next]_vars => SilenceIsTheAnswer'
  BY SilenceStep
<1> QED
  BY <1>1, <1>2, AttemptInvariant, PTL DEF Spec

LEMMA RetryableStep ==
  ASSUME AttemptInv, RetryableNotFinal, [Next]_vars
  PROVE  RetryableNotFinal'
<1> SUFFICES ASSUME row'.status = "FAILED", row'.attempt < MaxAttempts PROVE RetryableNotFinal'
  BY DEF RetryableNotFinal
<1>1. CASE UNCHANGED row \/ Begin \/ Choose \/ MarkDownloaded \/ Start \/ RetryDue
  BY <1>1, RestIsKept DEF RetryableNotFinal
<1>2. CASE ~(UNCHANGED row \/ Begin \/ Choose \/ MarkDownloaded \/ Start \/ RetryDue)
  <2>1. TypeOK /\ best' = best /\ answers' = answers
    BY <1>2, Endings DEF AttemptInv
  <2>2. ASSUME NEW error \in Failure, Conclude(error)
        PROVE  error = "permanent"
    BY <2>1, <2>2, Concluded
  <2>3. CASE Rank /\ Combined \in Failure /\ Conclude(Combined)
    <3>1. \A i \in 1 .. Trackers : answers[i].error # "transient"
      BY <2>2, <2>3, CombinedFails
    <3>2. best = None
      BY <2>3 DEF Rank, AttemptInv, Course
    <3> QED  BY <2>1, <3>1, <3>2 DEF RetryableNotFinal
  <2>4. ASSUME "no_results" \in Failure, Conclude("no_results")
        PROVE  FALSE
    BY <2>2, <2>4
  <2>5. ASSUME NEW error \in {"permanent", "transient"},
               best # None, errors' = Append(errors, error), error \in Failure, Conclude(error)
        PROVE  RetryableNotFinal'
    <3>1. error = "permanent"
      BY <2>2, <2>5
    <3>2. errors \in Seq({"permanent", "transient"})
      BY <2>1 DEF TypeOK
    <3>3. Len(errors) + 1 \in 1 .. Len(errors') /\ errors'[Len(errors) + 1] = "permanent"
      BY <2>5, <3>1, <3>2
    <3> QED  BY <2>1, <2>5, <3>3 DEF RetryableNotFinal
  <2> QED
    BY <1>2, <2>3, <2>4, <2>5, Endings
<1> QED
  BY <1>1, <1>2

\* What may still work is not given up before the last attempt.
THEOREM GivenUpForGood == Spec => []RetryableNotFinal
<1>1. Init => RetryableNotFinal
  BY DEF Init, RetryableNotFinal
<1>2. AttemptInv /\ RetryableNotFinal /\ [Next]_vars => RetryableNotFinal'
  BY RetryableStep
<1> QED
  BY <1>1, <1>2, AttemptInvariant, PTL DEF Spec

LEMMA BackoffStep ==
  ASSUME AttemptInv, [Next]_vars, row.next # "future", row'.next = "future"
  PROVE  /\ wait' <= MaxBackoff /\ (row.attempt = 1 => wait' <= BaseSeconds)
         /\ wait' >= wait \/ 2 * wait' + 1 >= MaxBackoff
<1> USE AttemptAssumption
<1>0. /\ TypeOK /\ row.attempt \in Nat /\ wait \in Nat
      /\ row \in [status : {"QUEUED", "SEARCHING", "FOUND", "DOWNLOADED", "NOT_FOUND", "FAILED"},
                  attempt : 0 .. MaxAttempts + MaxStops, next : {"null", "future", "past"}]
  BY DEF AttemptInv, TypeOK
<1>1. ~(UNCHANGED row \/ Begin \/ Choose \/ MarkDownloaded \/ Start \/ RetryDue)
  BY <1>0 DEF Begin, Choose, MarkDownloaded, Start, RetryDue
<1>2. pc # "idle" /\ \E error \in Failure : Conclude(error)
  BY <1>1, Endings
<1>3. /\ wait' \in Nat /\ wait' <= Delay[row.attempt] /\ 2 * wait' + 1 >= Delay[row.attempt]
  <2>1. PICK error \in Failure : Conclude(error)
    BY <1>2
  <2>2. row'.status = "QUEUED"
    BY <1>0, <2>1, Concluded
  <2> QED  BY <1>0, <2>1, <2>2, Concluded
<1> DEFINE n == row.attempt - 1
<1>4. n \in Nat /\ n + 1 = row.attempt /\ IF n = 0 THEN wait = 0 ELSE wait <= Delay[n]
  BY <1>0, <1>2 DEF AttemptInv, Waited
<1>5. row.attempt = 1 <=> n = 0
  BY <1>0
<1> HIDE DEF n
<1>6. /\ Delay[n] \in Nat /\ Delay[n + 1] \in Nat /\ Delay[n + 1] <= MaxBackoff
      /\ n # 0 => Delay[n + 1] = MaxBackoff \/ Delay[n + 1] = 2 * Delay[n]
      /\ n = 0 => Delay[n + 1] = BaseSeconds
  <2>1. n + 1 \in Nat /\ (n = 0 => n + 1 = 1)
    BY <1>4
  <2> QED  BY <1>4, <2>1, DelayGrows
<1>7. wait' <= Delay[n + 1] /\ 2 * wait' + 1 >= Delay[n + 1]
  BY <1>3, <1>4
<1> DEFINE d == Delay[n + 1]  e == Delay[n]  w == wait'
<1>8. /\ w \in Nat /\ d \in Nat /\ e \in Nat /\ w <= d /\ 2 * w + 1 >= d /\ d <= MaxBackoff
      /\ n = 0 => d = BaseSeconds /\ wait = 0
      /\ n # 0 => (d = MaxBackoff \/ d = 2 * e) /\ wait <= e
  BY <1>3, <1>4, <1>6, <1>7
<1> HIDE DEF d, e, w
<1>9. w <= MaxBackoff /\ (n = 0 => w <= BaseSeconds)
  BY <1>8
<1>10. w >= wait \/ 2 * w + 1 >= MaxBackoff
  BY <1>0, <1>8
<1> QED
  BY <1>5, <1>9, <1>10 DEF w

\* What is stored for a retry, cut to whole seconds, is never sooner than for the one
\* before, until the cap, nor later than the cap.
THEOREM DelaysGrow == Spec => BackoffGrows
<1>1. AttemptInv /\ [Next]_vars =>
        [row.next # "future" /\ row'.next = "future" =>
           /\ wait' <= MaxBackoff /\ (row.attempt = 1 => wait' <= BaseSeconds)
           /\ wait' >= wait \/ 2 * wait' + 1 >= MaxBackoff]_vars
  BY BackoffStep
<1> QED
  BY <1>1, AttemptInvariant, PTL DEF Spec, BackoffGrows

----------------------------------------------------------------------------
(* The steps of the queue. *)

\* Queue's variables, as Attempt keeps them.
LEMMA QueueSame ==
  ASSUME QueueRow' = QueueRow, QueueTask' = QueueTask, UNCHANGED <<mode, saved, stops, faults>>
  PROVE  UNCHANGED Queue!vars
BY DEF Queue!vars

LEMMA QueueFields ==
  ASSUME AttemptInv
  PROVE  /\ QueueRow.status = row.status /\ QueueRow.attempt = row.attempt
         /\ QueueRow.next = row.next /\ row.status \in Queue!Live
         /\ Queue!Exists(1)
         /\ pc # "idle" => /\ row.status # "DOWNLOADED"
                           /\ QueueTask = [pc |-> IF pc = "inspect" THEN "search" ELSE pc, req |-> 1,
                                           attempt |-> row.attempt,
                                           release |-> IF best = None THEN None ELSE best.torrent]
         /\ pc = "idle" => QueueTask = Queue!Idle
         /\ QueueTask.pc = "idle" <=> pc = "idle"
<1>1. row \in [status : {"QUEUED", "SEARCHING", "FOUND", "DOWNLOADED", "NOT_FOUND", "FAILED"},
               attempt : 0 .. MaxAttempts + MaxStops, next : {"null", "future", "past"}]
      /\ pc \in {"idle", "search", "inspect", "fetch", "temp", "saved"}
  BY DEF AttemptInv, TypeOK
<1>2. row.status \in Queue!Live
  BY <1>1 DEF Queue!Live, Queue!InFlight, Queue!Terminal
<1>3. Queue!Exists(1)
  BY <1>2 DEF Queue!Exists, QueueRow
<1>4. pc # "idle" => row.status # "DOWNLOADED"
  BY <1>1 DEF AttemptInv, Course
<1> QED
  BY <1>1, <1>2, <1>3, <1>4 DEF QueueRow, QueueTask, Queue!Idle

\* The record of a row whose file is at path.
RowWith(status, attempt, next, force, path) ==
  [status |-> status, attempt |-> attempt, next |-> next, force |-> force,
   query |-> "query", created |-> 0, path |-> path]

Plain(status, attempt, next, path) == RowWith(status, attempt, next, FALSE, path)

\* What the queue's UPDATE statements make of such a record.
LEMMA Updates ==
  ASSUME NEW status, NEW attempt, NEW next, NEW path
  PROVE  /\ Queue!Claimed(Plain(status, attempt, next, path))
              = Plain("SEARCHING", attempt + 1, next, path)
         /\ Queue!Found(Plain(status, attempt, next, path)) = Plain("FOUND", attempt, next, path)
         /\ Queue!RetryTimePassed(Plain(status, attempt, next, path))
              = Plain(status, attempt, "past", path)
<1> DEFINE force == FALSE
<1>0. force \in BOOLEAN
  OBVIOUS
<1> HIDE DEF force
<1> DEFINE r == RowWith(status, attempt, next, force, path)
<1>1. r.attempt = attempt
  BY <1>0 DEF RowWith
<1>2. [r EXCEPT !.status = "SEARCHING"] = RowWith("SEARCHING", attempt, next, force, path)
  BY <1>0 DEF RowWith
<1>3. [RowWith("SEARCHING", attempt, next, force, path) EXCEPT !.attempt = attempt + 1]
        = RowWith("SEARCHING", attempt + 1, next, force, path)
  BY <1>0 DEF RowWith
<1>4. [r EXCEPT !.status = "FOUND"] = RowWith("FOUND", attempt, next, force, path)
  BY <1>0 DEF RowWith
<1>5. [r EXCEPT !.next = "past"] = RowWith(status, attempt, "past", force, path)
  BY <1>0 DEF RowWith
<1> HIDE DEF r
<1>6. Queue!Claimed(r) = [[r EXCEPT !.status = "SEARCHING"] EXCEPT !.attempt = r.attempt + 1]
  BY DEF Queue!Claimed
<1>7. Queue!Claimed(r) = RowWith("SEARCHING", attempt + 1, next, force, path)
  BY <1>1, <1>2, <1>3, <1>6
<1>8. Queue!Found(r) = RowWith("FOUND", attempt, next, force, path)
  BY <1>4 DEF Queue!Found
<1>9. Queue!RetryTimePassed(r) = RowWith(status, attempt, "past", force, path)
  BY <1>5 DEF Queue!RetryTimePassed
<1> QED
  BY <1>7, <1>8, <1>9, Zenon DEF force, r, Plain

LEMMA SavedPath ==
  ASSUME NEW status, NEW attempt, NEW next, NEW path, NEW file
  PROVE  Queue!Downloaded(Plain(status, attempt, next, path), file)
           = Plain("DOWNLOADED", attempt, "null", file)
<1> DEFINE force == FALSE
<1>0. force \in BOOLEAN
  OBVIOUS
<1> HIDE DEF force
<1> DEFINE r == RowWith(status, attempt, next, force, path)
<1>1. [r EXCEPT !.status = "DOWNLOADED"] = RowWith("DOWNLOADED", attempt, next, force, path)
  BY <1>0 DEF RowWith
<1>2. [RowWith("DOWNLOADED", attempt, next, force, path) EXCEPT !.next = "null"]
        = RowWith("DOWNLOADED", attempt, "null", force, path)
  BY <1>0 DEF RowWith
<1>3. [RowWith("DOWNLOADED", attempt, "null", force, path) EXCEPT !.path = file]
        = RowWith("DOWNLOADED", attempt, "null", force, file)
  BY <1>0 DEF RowWith
<1> HIDE DEF r
<1>4. Queue!Downloaded(r, file)
        = [[[r EXCEPT !.status = "DOWNLOADED"] EXCEPT !.next = "null"] EXCEPT !.path = file]
  BY DEF Queue!Downloaded
<1>5. Queue!Downloaded(r, file) = RowWith("DOWNLOADED", attempt, "null", force, file)
  BY <1>1, <1>2, <1>3, <1>4
<1> QED
  BY <1>5, Zenon DEF force, r, Plain

\* handleError's outcome is the one the queue computes from the same error.
LEMMA ConcludeMaps ==
  ASSUME AttemptInv, pc # "idle", NEW error \in Failure, Conclude(error),
         error \in Queue!ErrorsOf(QueueTask.pc), UNCHANGED <<mode, best, saved, stops, faults>>
  PROVE  Queue!HandleError(1)
<1>1. row \in [status : {"QUEUED", "SEARCHING", "FOUND", "DOWNLOADED", "NOT_FOUND", "FAILED"},
               attempt : 0 .. MaxAttempts + MaxStops, next : {"null", "future", "past"}]
  BY DEF AttemptInv, TypeOK
<1>2. /\ mode = "running" /\ pc' = "idle"
      /\ row' = [row EXCEPT !.status = Verdict(error),
                            !.next = IF Verdict(error) = "QUEUED" THEN "future" ELSE "null"]
  BY DEF Conclude
<1>3. Verdict(error) \in {"NOT_FOUND", "FAILED", "QUEUED"}
  BY DEF Verdict
<1>4. QueueRow' = Queue!AfterError(QueueRow, error, row.attempt)
  <2>1. row.status # "DOWNLOADED"
    BY QueueFields
  <2>2. /\ row'.status = Verdict(error) /\ row'.attempt = row.attempt
        /\ row'.next = IF Verdict(error) = "QUEUED" THEN "future" ELSE "null"
    BY <1>1, <1>2
  <2>3. QueueRow' = [status |-> Verdict(error), attempt |-> row.attempt,
                     next |-> IF Verdict(error) = "QUEUED" THEN "future" ELSE "null",
                     force |-> FALSE, query |-> "query", created |-> 0, path |-> <<>>]
    BY <1>3, <2>2 DEF QueueRow
  <2>4. QueueRow = [status |-> row.status, attempt |-> row.attempt, next |-> row.next,
                    force |-> FALSE, query |-> "query", created |-> 0, path |-> <<>>]
    BY <2>1 DEF QueueRow
  <2> HIDE DEF QueueRow
  <2> QED
    BY <2>3, <2>4
    DEF Verdict, Queue!AfterError, Queue!Closed, Queue!Rescheduled, Queue!Exhausted
<1>5. QueueTask' = Queue!Idle
  BY <1>2 DEF QueueTask, Queue!Idle
<1>6. QueueTask.attempt = row.attempt /\ QueueTask.req = 1 /\ Queue!Exists(1)
  BY QueueFields
<1> HIDE DEF QueueRow, QueueTask
<1>7. Queue!Record(1, Queue!AfterError(QueueRow, error, row.attempt))
  BY <1>4, <1>6 DEF Queue!Record
<1>8. Queue!Drop(1)
  BY <1>5 DEF Queue!Drop
<1> QED
  BY <1>2, <1>6, <1>7, <1>8 DEF Queue!HandleError

LEMMA BeginMaps ==
  ASSUME AttemptInv, Begin
  PROVE  Queue!Claim(1)
<1>1. row \in [status : {"QUEUED", "SEARCHING", "FOUND", "DOWNLOADED", "NOT_FOUND", "FAILED"},
               attempt : 0 .. MaxAttempts + MaxStops, next : {"null", "future", "past"}]
  BY DEF AttemptInv, TypeOK
<1>2. /\ row'.status = "SEARCHING" /\ row'.attempt = row.attempt + 1 /\ row'.next = row.next
      /\ row.status = "QUEUED" /\ row.next # "future" /\ pc' = "search" /\ best' = None
  BY <1>1 DEF Begin
<1>3. QueueRow' = Queue!Claimed(QueueRow)
  <2>1. QueueRow' = Plain("SEARCHING", row.attempt + 1, row.next, <<>>)
    BY <1>1, <1>2 DEF QueueRow, Plain, RowWith
  <2>2. QueueRow = Plain(row.status, row.attempt, row.next, <<>>)
    BY <1>1, <1>2 DEF QueueRow, Plain, RowWith
  <2> HIDE DEF QueueRow
  <2>3. Queue!Claimed(Plain(row.status, row.attempt, row.next, <<>>))
          = Plain("SEARCHING", row.attempt + 1, row.next, <<>>)
    BY Updates
  <2> QED  BY <2>1, <2>2, <2>3
<1>4. QueueTask' = [pc |-> "search", req |-> 1, attempt |-> row.attempt + 1, release |-> None]
  BY <1>2 DEF QueueTask
<1>5. Queue!OldestDue(1)
  BY <1>1, <1>2 DEF Queue!OldestDue, Queue!Due, QueueRow
<1>6. QueueRow.attempt = row.attempt /\ Queue!Exists(1) /\ QueueTask.pc = "idle"
  BY QueueFields DEF Begin
<1> HIDE DEF QueueRow, QueueTask
<1>7. Queue!Record(1, Queue!Claimed(QueueRow)) /\ Queue!Move(1, "search", 1, row.attempt + 1, None)
  BY <1>3, <1>4, <1>6 DEF Queue!Record, Queue!Move
<1> QED
  BY <1>5, <1>6, <1>7 DEF Begin, Queue!Claim

LEMMA ChooseMaps ==
  ASSUME AttemptInv, Choose
  PROVE  \E release \in Torrents : Queue!MarkFound(1, release)
<1>1. /\ row \in [status : {"QUEUED", "SEARCHING", "FOUND", "DOWNLOADED", "NOT_FOUND", "FAILED"},
                  attempt : 0 .. MaxAttempts + MaxStops, next : {"null", "future", "past"}]
      /\ row.status = "SEARCHING"
  BY DEF AttemptInv, TypeOK, Course, Choose
<1>2. row'.status = "FOUND" /\ row'.attempt = row.attempt /\ row'.next = row.next /\ pc' = "fetch"
  BY <1>1 DEF Choose
<1>3. best' \in Candidate /\ best' # None
  <2>1. left \in Seq(Candidate) /\ left # <<>> /\ best' = Head(left)
    BY DEF Choose, AttemptInv, TypeOK
  <2>2. best' \in Candidate
    BY <2>1
  <2> QED  BY <2>2, AttemptAssumption
<1> DEFINE release == best'.torrent
<1>4. release \in Torrents
  BY <1>3 DEF Candidate
<1>5. QueueRow' = Queue!Found(QueueRow)
  <2>1. QueueRow' = Plain("FOUND", row.attempt, row.next, <<>>)
    BY <1>1, <1>2 DEF QueueRow, Plain, RowWith
  <2>2. QueueRow = Plain(row.status, row.attempt, row.next, <<>>)
    BY <1>1, <1>2 DEF QueueRow, Plain, RowWith
  <2> HIDE DEF QueueRow
  <2>3. Queue!Found(Plain(row.status, row.attempt, row.next, <<>>))
          = Plain("FOUND", row.attempt, row.next, <<>>)
    BY Updates
  <2> QED  BY <2>1, <2>2, <2>3
<1>6. QueueTask' = [pc |-> "fetch", req |-> 1, attempt |-> row.attempt, release |-> release]
  BY <1>2, <1>3 DEF QueueTask
<1>7. /\ Queue!Exists(1) /\ QueueTask.pc = "search" /\ QueueTask.req = 1
      /\ QueueTask.attempt = row.attempt
  BY QueueFields DEF Choose
<1> HIDE DEF QueueRow, QueueTask, release
<1>8. Queue!Record(1, Queue!Found(QueueRow)) /\ Queue!Move(1, "fetch", 1, row.attempt, release)
  BY <1>5, <1>6, <1>7 DEF Queue!Record, Queue!Move
<1>9. Queue!MarkFound(1, release)
  BY <1>7, <1>8 DEF Choose, Queue!MarkFound
<1> QED
  BY <1>4, <1>9

LEMMA FetchMaps ==
  ASSUME AttemptInv, Fetch
  PROVE  Queue!CreateTemp(1)
<1>1. /\ QueueTask.pc = "fetch" /\ QueueTask.req = 1 /\ QueueTask.attempt = row.attempt
      /\ QueueTask.release = IF best = None THEN None ELSE best.torrent
      /\ mode # "down"
  BY QueueFields DEF Fetch, AttemptInv, Course
<1>2. QueueRow' = QueueRow
  BY DEF Fetch, QueueRow
<1>3. QueueTask' = [pc |-> "temp", req |-> 1, attempt |-> row.attempt,
                    release |-> IF best = None THEN None ELSE best.torrent]
  BY DEF Fetch, QueueTask
<1> HIDE DEF QueueRow, QueueTask
<1>4. Queue!Move(1, "temp", 1, row.attempt, QueueTask.release)
  BY <1>1, <1>3 DEF Queue!Move
<1> QED
  BY <1>1, <1>2, <1>4 DEF Fetch, Queue!CreateTemp

LEMMA SaveMaps ==
  ASSUME AttemptInv, Save
  PROVE  Queue!Rename(1)
<1>1. /\ QueueTask.pc = "temp" /\ QueueTask.req = 1 /\ QueueTask.attempt = row.attempt
      /\ QueueTask.release = best.torrent /\ best # None
      /\ mode # "down"
  BY QueueFields DEF Save, AttemptInv, Course
<1>2. QueueRow' = QueueRow
  BY DEF Save, QueueRow
<1>3. QueueTask' = [pc |-> "saved", req |-> 1, attempt |-> row.attempt, release |-> best.torrent]
  BY <1>1 DEF Save, QueueTask
<1>4. {<<1, t>> : t \in saved}' = {<<1, t>> : t \in saved} \cup {<<1, best.torrent>>}
  BY DEF Save
<1> HIDE DEF QueueRow, QueueTask
<1>5. Queue!Move(1, "saved", 1, row.attempt, QueueTask.release)
  BY <1>1, <1>3 DEF Queue!Move
<1> QED
  BY <1>1, <1>2, <1>4, <1>5 DEF Save, Queue!Rename, Queue!Filename

LEMMA MarkDownloadedMaps ==
  ASSUME AttemptInv, MarkDownloaded
  PROVE  Queue!MarkDownloaded(1)
<1>1. row \in [status : {"QUEUED", "SEARCHING", "FOUND", "DOWNLOADED", "NOT_FOUND", "FAILED"},
               attempt : 0 .. MaxAttempts + MaxStops, next : {"null", "future", "past"}]
  BY DEF AttemptInv, TypeOK
<1>2. /\ QueueTask.pc = "saved" /\ QueueTask.req = 1 /\ QueueTask.attempt = row.attempt
      /\ QueueTask.release = best.torrent /\ Queue!Exists(1) /\ row.status # "DOWNLOADED"
  BY QueueFields DEF MarkDownloaded, AttemptInv, Course
<1>3. row'.status = "DOWNLOADED" /\ row'.attempt = row.attempt /\ row'.next = "null" /\ best' = best
  BY <1>1 DEF MarkDownloaded
<1>4. QueueRow' = Queue!Downloaded(QueueRow, <<1, best.torrent>>)
  <2>1. QueueRow' = Plain("DOWNLOADED", row.attempt, "null", <<1, best.torrent>>)
    BY <1>2, <1>3 DEF QueueRow, Plain, RowWith
  <2>2. QueueRow = Plain(row.status, row.attempt, row.next, <<>>)
    BY <1>2, <1>3 DEF QueueRow, Plain, RowWith
  <2> HIDE DEF QueueRow
  <2>3. Queue!Downloaded(Plain(row.status, row.attempt, row.next, <<>>), <<1, best.torrent>>)
          = Plain("DOWNLOADED", row.attempt, "null", <<1, best.torrent>>)
    BY SavedPath
  <2> QED  BY <2>1, <2>2, <2>3
<1>5. QueueTask' = Queue!Idle
  BY DEF MarkDownloaded, QueueTask, Queue!Idle
<1> HIDE DEF QueueRow, QueueTask
<1>6. Queue!Record(1, Queue!Downloaded(QueueRow, <<1, best.torrent>>)) /\ Queue!Drop(1)
  BY <1>2, <1>4, <1>5 DEF Queue!Record, Queue!Drop
<1> QED
  BY <1>2, <1>6 DEF MarkDownloaded, Queue!MarkDownloaded, Queue!Filename

LEMMA DropMaps ==
  ASSUME AttemptInv, Abandon \/ LoseOutcome
  PROVE  Queue!Abandon(1) \/ Queue!LoseOutcome(1)
<1>1. QueueTask.pc # "idle"
  BY QueueFields DEF Abandon, LoseOutcome
<1>2. QueueRow' = QueueRow
  BY DEF Abandon, LoseOutcome, QueueRow
<1>3. QueueTask' = Queue!Idle
  BY DEF Abandon, LoseOutcome, QueueTask, Queue!Idle
<1> HIDE DEF QueueRow, QueueTask
<1>4. Queue!Drop(1)
  BY <1>3 DEF Queue!Drop
<1> QED
  BY <1>1, <1>2, <1>4 DEF Abandon, LoseOutcome, Queue!Abandon, Queue!LoseOutcome

LEMMA ProcessMaps ==
  ASSUME AttemptInv, Shutdown \/ Exit \/ Start
  PROVE  Queue!Shutdown \/ Queue!Exit \/ Queue!Start
<1>1. CASE Shutdown
  <2>1. QueueRow' = QueueRow /\ QueueTask' = QueueTask
    BY <1>1 DEF Shutdown, workVars, QueueRow, QueueTask
  <2> HIDE DEF QueueRow, QueueTask
  <2> QED  BY <1>1, <2>1 DEF Shutdown, Queue!Shutdown
<1>2. CASE Exit
  <2>1. QueueRow' = QueueRow /\ QueueTask' = QueueTask
    BY <1>2 DEF Exit, workVars, QueueRow, QueueTask
  <2>2. QueueTask.pc = "idle"
    BY <1>2, QueueFields DEF Exit
  <2> HIDE DEF QueueRow, QueueTask
  <2>3. [o \in {} |-> None] = [o \in {} |-> Queue!Quiet]
    OBVIOUS
  <2> QED  BY <1>2, <2>1, <2>2, <2>3 DEF Exit, Queue!Exit
<1>3. CASE Start
  <2>1. row \in [status : {"QUEUED", "SEARCHING", "FOUND", "DOWNLOADED", "NOT_FOUND", "FAILED"},
                 attempt : 0 .. MaxAttempts + MaxStops, next : {"null", "future", "past"}]
    BY DEF AttemptInv, TypeOK
  <2>2. UNCHANGED <<best, saved>> /\ pc = "idle" /\ pc' = "idle"
    BY <1>3 DEF Start, workVars, AttemptInv, Course
  <2>3. QueueTask' = QueueTask
    BY <2>2 DEF QueueTask
  <2>4. QueueRow' = Queue!Requeued(QueueRow)
    <3>1. CASE row.status \in {"SEARCHING", "FOUND"}
      <4>1. row'.status = "QUEUED" /\ row'.next = "null" /\ row'.attempt = row.attempt
        BY <1>3, <2>1, <3>1 DEF Start
      <4> QED
        BY <3>1, <4>1 DEF QueueRow, Queue!Requeued, Queue!InFlight, Queue!Closed
    <3>2. CASE row.status \notin {"SEARCHING", "FOUND"}
      BY <1>3, <2>2, <3>2 DEF Start, QueueRow, Queue!Requeued, Queue!InFlight
    <3> QED  BY <3>1, <3>2
  <2> HIDE DEF QueueRow, QueueTask
  <2>5. [r \in {1} |-> QueueRow]' = [r \in {1} |-> Queue!Requeued([s \in {1} |-> QueueRow][r])]
    BY <2>4
  <2> QED  BY <1>3, <2>2, <2>3, <2>5 DEF Start, Queue!Start
<1> QED
  BY <1>1, <1>2, <1>3

LEMMA RetryDueMaps ==
  ASSUME AttemptInv, RetryDue
  PROVE  Queue!RetryDue(1)
<1>1. row \in [status : {"QUEUED", "SEARCHING", "FOUND", "DOWNLOADED", "NOT_FOUND", "FAILED"},
               attempt : 0 .. MaxAttempts + MaxStops, next : {"null", "future", "past"}]
  BY DEF AttemptInv, TypeOK
<1>2. row'.status = row.status /\ row'.attempt = row.attempt /\ row'.next = "past"
      /\ UNCHANGED <<best, pc>>
  BY <1>1 DEF RetryDue, workVars
<1>3. QueueRow' = Queue!RetryTimePassed(QueueRow)
  <2>0. row.status = "QUEUED"
    BY DEF RetryDue
  <2>1. QueueRow' = Plain(row.status, row.attempt, "past", <<>>)
    BY <1>2, <2>0 DEF QueueRow, Plain, RowWith
  <2>2. QueueRow = Plain(row.status, row.attempt, row.next, <<>>)
    BY <1>2, <2>0 DEF QueueRow, Plain, RowWith
  <2> HIDE DEF QueueRow
  <2>3. Queue!RetryTimePassed(Plain(row.status, row.attempt, row.next, <<>>))
          = Plain(row.status, row.attempt, "past", <<>>)
    BY Updates
  <2> QED  BY <2>1, <2>2, <2>3
<1>4. QueueTask' = QueueTask
  <2>1. pc = "idle"
    BY DEF AttemptInv, TypeOK, Course, RetryDue
  <2> QED  BY <1>2, <2>1 DEF QueueTask
<1>5. Queue!Exists(1) /\ QueueRow.status = "QUEUED" /\ QueueRow.next = "future"
  BY QueueFields DEF RetryDue
<1> HIDE DEF QueueRow, QueueTask
<1>6. Queue!Record(1, Queue!RetryTimePassed(QueueRow))
  BY <1>3, <1>5 DEF Queue!Record
<1> QED
  BY <1>4, <1>5, <1>6 DEF RetryDue, Queue!RetryDue

\* Every step of the attempt is one of the queue, or one the queue does not see.
LEMMA QueueStep ==
  ASSUME AttemptInv, [Next]_vars
  PROVE  [Queue!Next]_(Queue!vars)
<1>1. CASE Begin \/ Choose \/ Fetch \/ Save \/ MarkDownloaded
  <2>1. Queue!WorkerStep(1)
    BY <1>1, BeginMaps, ChooseMaps, FetchMaps, SaveMaps, MarkDownloadedMaps DEF Queue!WorkerStep
  <2> QED  BY <2>1 DEF Queue!Next
<1>2. CASE Abandon \/ LoseOutcome
  <2>1. Queue!WorkerStep(1) \/ Queue!LoseOutcome(1)
    BY <1>2, DropMaps DEF Queue!WorkerStep
  <2> QED  BY <2>1 DEF Queue!Next
<1>3. CASE Shutdown \/ Exit \/ Start
  BY <1>3, ProcessMaps DEF Queue!Next
<1>4. CASE RetryDue
  BY <1>4, RetryDueMaps DEF Queue!Next
<1>5. ASSUME Queue!HandleError(1)
      PROVE  Queue!Next
  BY <1>5 DEF Queue!WorkerStep, Queue!Next
<1>6. pc # "idle" => QueueTask.pc = IF pc = "inspect" THEN "search" ELSE pc
  BY QueueFields
<1>7. ASSUME UNCHANGED <<mode, row, best, saved, stops, faults>>,
             pc' = pc \/ (pc = "search" /\ pc' = "inspect")
      PROVE  UNCHANGED Queue!vars
  <2>1. QueueRow' = QueueRow
    BY <1>7 DEF QueueRow
  <2>2. QueueTask' = QueueTask
    BY <1>7 DEF QueueTask
  <2> QED  BY <1>7, <2>1, <2>2, QueueSame
<1>8. CASE Rank
  <2>1. CASE Conclude(Combined)
    <3>1. pc = "search" /\ UNCHANGED <<mode, best, saved, stops, faults>>
      BY <1>8 DEF Rank
    <3>2. Combined \in Queue!ErrorsOf(QueueTask.pc)
      BY <1>6, <3>1, CombinedFails DEF Queue!ErrorsOf, Failure
    <3>3. Queue!HandleError(1)
      BY <2>1, <3>1, <3>2, CombinedFails, ConcludeMaps
    <3> QED  BY <1>5, <3>3
  <2>2. CASE pc' = "inspect" /\ UNCHANGED <<row, wait>>
    BY <1>7, <1>8, <2>2 DEF Rank
  <2> QED  BY <1>8, <2>1, <2>2 DEF Rank
<1>9. CASE FilteredOut
  <2>1. pc = "inspect" /\ UNCHANGED <<mode, best, saved, stops, faults>> /\ Conclude("no_results")
    BY <1>9 DEF FilteredOut
  <2>2. "no_results" \in Queue!ErrorsOf(QueueTask.pc) /\ "no_results" \in Failure
    BY <1>6, <2>1 DEF Queue!ErrorsOf, Failure
  <2>3. Queue!HandleError(1)
    BY <2>1, <2>2, ConcludeMaps
  <2> QED  BY <1>5, <2>3
<1>10. CASE FetchFails \/ NoAddress \/ SaveFails
  <2>1. UNCHANGED <<mode, best, saved, stops, faults>> /\ pc \in {"fetch", "temp"}
    BY <1>10 DEF FetchFails, NoAddress, SaveFails
  <2>2. CASE UNCHANGED <<row, wait, pc>>
    BY <1>7, <2>1, <2>2
  <2>3. CASE ~UNCHANGED <<row, wait, pc>>
    <3>1. PICK error \in {"permanent", "transient"} :
            Conclude(error) /\ (pc = "temp" => error = "permanent")
      BY <1>10, <2>3 DEF FetchFails, NoAddress, SaveFails
    <3>2. error \in Queue!ErrorsOf(QueueTask.pc) /\ error \in Failure
      BY <1>6, <2>1, <3>1 DEF Queue!ErrorsOf, Failure
    <3>3. Queue!HandleError(1)
      BY <2>1, <3>1, <3>2, ConcludeMaps
    <3> QED  BY <1>5, <3>3
  <2> QED  BY <2>2, <2>3
<1>11. CASE (\E i \in 1 .. Trackers : Answer(i)) \/ Skip \/ UNCHANGED vars
  BY <1>7, <1>11 DEF Answer, Skip, vars, workVars
<1> QED
  BY <1>1, <1>2, <1>3, <1>4, <1>8, <1>9, <1>10, <1>11 DEF Next, Step

\* An attempt, with its trackers, pages and mirrors, takes only steps that RequestQueue
\* allows its worker, and leaves the row, the file and the retry RequestQueue expects.
THEOREM AttemptIsOfTheQueue == Spec => ImplementsQueue
<1>1. AttemptInv /\ [Next]_vars => [Queue!Next]_(Queue!vars)
  BY QueueStep
<1> QED
  BY <1>1, AttemptInvariant, PTL DEF Spec, ImplementsQueue

=============================================================================
