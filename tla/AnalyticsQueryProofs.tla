------------------------ MODULE AnalyticsQueryProofs ------------------------
(***************************************************************************)
(* Proofs about AnalyticsQuery, for any ranges, days, users and ingestion. *)
(* All three queries add up the same rows in groups of their own, and a    *)
(* sum does not depend on its groups.  The table is read as the pipeline   *)
(* leaves it: its invariants are those of EventPipelineProofs and          *)
(* EventLedgerProofs.                                                      *)
(***************************************************************************)
EXTENDS AnalyticsQuery, EventLedgerProofs, SumLemmas

(***************************************************************************)
(* Tables are finite.                                                      *)
(***************************************************************************)
Support(counts) == {r \in Row : counts[r] # 0}

(* Finitely many rows are stored or about to be. *)
StoreInv ==
    /\ IsFiniteSet(Support(agg))
    /\ \A p \in Procs : IsFiniteSet(Support(written[p]))

LEMMA NoWritesEmpty == Support(NoWrites) = {} /\ IsFiniteSet(Support(NoWrites))
  <1>1. Support(NoWrites) = {}
    BY DEF Support, NoWrites
  <1> QED BY <1>1, FS_EmptySet

LEMMA StoreInit == ASSUME Init PROVE StoreInv
  BY NoWritesEmpty DEF Init, StoreInv

LEMMA StoreNext == ASSUME TypeInv, StoreInv, [Next]_vars PROVE StoreInv'
  <1>1. CASE Quiet
    BY <1>1 DEF Quiet, StoreInv
  <1>2. ASSUME NEW p \in Procs, agg' = agg, written' = [written EXCEPT ![p] = NoWrites]
        PROVE  StoreInv'
    <2>1. \A q \in Procs : written'[q] = written[q] \/ written'[q] = NoWrites
      BY <1>2 DEF TypeInv, TypeOK
    <2> QED BY <1>2, <2>1, NoWritesEmpty DEF StoreInv
  <1>3. ASSUME NEW p \in Procs, Forget(p) PROVE StoreInv'
    BY <1>2, <1>3 DEF Forget
  <1>4. ASSUME NEW p \in Procs, SkipEvent(p) PROVE StoreInv'
    BY <1>4 DEF SkipEvent, StoreInv
  <1>5. ASSUME NEW p \in Procs, NEW r \in Row, CountEvent(p, r) PROVE StoreInv'
    BY <1>5 DEF CountEvent, StoreInv
  <1>6. ASSUME NEW p \in Procs, WriteCount(p) PROVE StoreInv'
    <2> DEFINE row == pending[p].row
    <2>1. /\ agg' = agg
          /\ \A q \in Procs : q # p => written'[q] = written[q]
          /\ written'[p] = [written[p] EXCEPT ![row] = pending[p].count]
      BY <1>6 DEF WriteCount, TypeInv, TypeOK
    <2>2. Support(written'[p]) \subseteq Support(written[p]) \cup {row}
      BY <2>1 DEF Support, TypeInv, TypeOK
    <2>3. IsFiniteSet(Support(written[p]) \cup {row})
      BY FS_AddElement DEF StoreInv
    <2>4. IsFiniteSet(Support(written'[p]))
      BY <2>2, <2>3, FS_Subset
    <2> QED BY <2>1, <2>4 DEF StoreInv
  <1>7. ASSUME NEW p \in Procs, CommitCounts(p) PROVE StoreInv'
    <2>1. Support(agg') \subseteq Support(agg) \cup Support(written[p])
      BY <1>7 DEF CommitCounts, Support, Visible
    <2>2. IsFiniteSet(Support(agg) \cup Support(written[p]))
      BY FS_Union DEF StoreInv
    <2>3. IsFiniteSet(Support(agg'))
      BY <2>1, <2>2, FS_Subset
    <2>4. \A q \in Procs : written'[q] = written[q] \/ written'[q] = NoWrites
      BY <1>7 DEF CommitCounts, TypeInv, TypeOK
    <2> QED BY <2>3, <2>4, NoWritesEmpty DEF StoreInv
  <1> QED BY <1>1, <1>3, <1>4, <1>5, <1>6, <1>7, StepKinds DEF CountStep

(***************************************************************************)
(* What the queries add up.                                                *)
(***************************************************************************)
CountOf(f, from, to) == SumFunctionOnSet(agg, RowsOf(f, from, to))

LEMMA RowsFinite ==
  ASSUME TypeInv, StoreInv, NEW f \in Flag, NEW from, NEW to
  PROVE  /\ RowsOf(f, from, to) \in SUBSET Row
         /\ IsFiniteSet(RowsOf(f, from, to))
         /\ \A r \in RowsOf(f, from, to) : agg[r] \in Nat /\ agg[r] # 0 /\ r.flag = f
  <1>1. RowsOf(f, from, to) \in SUBSET Support(agg)
    BY DEF RowsOf, Row, Support
  <1>2. IsFiniteSet(RowsOf(f, from, to))
    BY <1>1, FS_Subset DEF StoreInv
  <1> QED BY <1>1, <1>2 DEF Support, TypeInv, TypeOK, RowsOf

(* The counts of the variations add up to that of the rows. *)
LEMMA VariationsAddUp ==
  ASSUME NEW counts, NEW rows, IsFiniteSet(rows), \A r \in rows : counts[r] \in Nat
  PROVE  SumFunction([v \in {r.variation : r \in rows} |->
                        SumFunctionOnSet(counts, {r \in rows : r.variation = v})])
         = SumFunctionOnSet(counts, rows)
  <1> DEFINE key == [r \in rows |-> r.variation]
             V == {r.variation : r \in rows}
             by == [v \in V |-> SumFunctionOnSet(counts, {r \in rows : r.variation = v})]
             byKey == [v \in V |-> SumFunctionOnSet(counts, {r \in rows : key[r] = v})]
  <1>1. V = {key[r] : r \in rows} /\ \A r \in rows : key[r] \in V
    OBVIOUS
  <1>2. by = byKey /\ DOMAIN by = V
    OBVIOUS
  <1> HIDE DEF key, by
  <1>3. IsFiniteSet({key[r] : r \in rows})
    BY FiniteImage
  <1> HIDE DEF V
  <1>4. SumFunctionOnSet(counts, rows) = SumFunctionOnSet(byKey, V)
    <2>1. IsFiniteSet(V)
      BY <1>1, <1>3
    <2> QED BY <1>1, <2>1, SumGroups
  <1>5. SumFunction(by) = SumFunctionOnSet(counts, rows)
    BY <1>2, <1>4 DEF SumFunction
  <1> QED BY <1>5 DEF by, V

LEMMA SummaryTotal ==
  ASSUME TypeInv, StoreInv, NEW f \in Flag, NEW from, NEW to
  PROVE  Summary(f, from, to).total = CountOf(f, from, to)
  <1> DEFINE rows == RowsOf(f, from, to)
  <1>1. IsFiniteSet(rows) /\ \A r \in rows : agg[r] \in Nat
    BY RowsFinite
  <1>2. Summary(f, from, to).total =
          SumFunction([v \in {r.variation : r \in rows} |->
                         SumFunctionOnSet(agg, {r \in rows : r.variation = v})])
    BY DEF Summary, Whole, DayCount
  <1> HIDE DEF rows
  <1>3. Summary(f, from, to).total = SumFunctionOnSet(agg, rows)
    BY <1>1, <1>2, VariationsAddUp
  <1> QED BY <1>3 DEF CountOf, rows

(* Buckets that stand for groups of rows have the total of the rows. *)
LEMMA BucketsAddUp ==
  ASSUME NEW counts, NEW rows, IsFiniteSet(rows), \A r \in rows : counts[r] \in Nat,
         NEW key,
         \A r \in rows : key[r].count = SumFunctionOnSet(counts, {s \in rows : key[s] = key[r]})
  PROVE  Total({key[r] : r \in rows}) = SumFunctionOnSet(counts, rows)
  <1> DEFINE K == {key[r] : r \in rows}
             g == [k \in K |-> SumFunctionOnSet(counts, {s \in rows : key[s] = k})]
             h == [k \in K |-> k.count]
  <1>1. IsFiniteSet(K) /\ \A r \in rows : key[r] \in K
    BY FiniteImage
  <1>2. \A k \in K : g[k] = h[k]
    OBVIOUS
  <1>3. Total(K) = SumFunctionOnSet(h, K)
    BY DEF Total, SumFunction
  <1> HIDE DEF K
  <1>4. SumFunctionOnSet(counts, rows) = SumFunctionOnSet(g, K)
    BY <1>1, SumGroups
  <1> HIDE DEF g, h
  <1>5. SumFunctionOnSet(g, K) = SumFunctionOnSet(h, K)
    BY <1>1, <1>2, SumSame
  <1> QED BY <1>3, <1>4, <1>5 DEF K

LEMMA HourTotal ==
  ASSUME TypeInv, StoreInv, NEW f \in Flag, NEW from, NEW to
  PROVE  Total(HourBuckets(f, from, to)) = CountOf(f, from, to)
  <1> DEFINE rows == RowsOf(f, from, to)
             key == [r \in rows |-> Bucket(r.hour, r.variation, agg[r])]
  <1>1. /\ rows \in SUBSET Row /\ IsFiniteSet(rows)
        /\ \A r \in rows : agg[r] \in Nat /\ r.flag = f
    BY RowsFinite
  <1>2. HourBuckets(f, from, to) = {key[r] : r \in rows}
    BY DEF HourBuckets
  <1>3. ASSUME NEW r \in rows
        PROVE  key[r].count = SumFunctionOnSet(agg, {s \in rows : key[s] = key[r]})
    <2>1. \A s \in rows : key[s] = key[r] => s = r
      <3> SUFFICES ASSUME NEW s \in rows, key[s] = key[r] PROVE s = r
        OBVIOUS
      <3>1. s \in Row /\ r \in Row /\ s.flag = r.flag
        BY <1>1
      <3>2. s.hour = r.hour /\ s.variation = r.variation
        BY DEF Bucket
      <3> HIDE DEF key, rows
      <3> QED BY <3>1, <3>2 DEF Row
    <2>2. {s \in rows : key[s] = key[r]} = {r}
      BY <2>1
    <2>3. SumFunctionOnSet(agg, {r}) = agg[r]
      BY <1>1, SumSingle
    <2>4. key[r].count = agg[r]
      BY DEF Bucket
    <2> QED BY <2>2, <2>3, <2>4
  <1> HIDE DEF rows, key
  <1>4. Total({key[r] : r \in rows}) = SumFunctionOnSet(agg, rows)
    BY <1>1, <1>3, BucketsAddUp
  <1> QED BY <1>2, <1>4 DEF CountOf, rows

(* A day's bucket stands for the rows of its hours. *)
SameDay(rows, r) == {s \in rows : DayOf(s.hour) = DayOf(r.hour) /\ s.variation = r.variation}
DayBucket(rows, r) == Bucket(DayOf(r.hour), r.variation, DayCount(SameDay(rows, r)))

LEMMA DayBucketsAre ==
  ASSUME NEW f, NEW from, NEW to
  PROVE  DayBuckets(f, from, to) =
            {DayBucket(RowsOf(f, from, to), r) : r \in RowsOf(f, from, to)}
  <1> DEFINE rows == RowsOf(f, from, to)
             keys == {<<DayOf(r.hour), r.variation>> : r \in rows}
             of(k) == {r \in rows : <<DayOf(r.hour), r.variation>> = k}
  <1>1. DayBuckets(f, from, to) = {Bucket(k[1], k[2], DayCount(of(k))) : k \in keys}
    BY DEF DayBuckets
  <1>2. ASSUME NEW r \in rows, NEW k, k = <<DayOf(r.hour), r.variation>>
        PROVE  Bucket(k[1], k[2], DayCount(of(k))) = DayBucket(rows, r)
    <2>1. of(k) = SameDay(rows, r)
      BY <1>2 DEF SameDay
    <2>2. k[1] = DayOf(r.hour) /\ k[2] = r.variation
      BY <1>2
    <2> HIDE DEF of
    <2> QED BY <2>1, <2>2 DEF DayBucket
  <1> HIDE DEF rows, of
  <1> QED BY <1>1, <1>2 DEF rows

LEMMA DayTotal ==
  ASSUME TypeInv, StoreInv, NEW f \in Flag, NEW from, NEW to
  PROVE  Total(DayBuckets(f, from, to)) = CountOf(f, from, to)
  <1> DEFINE rows == RowsOf(f, from, to)
             key == [r \in rows |-> DayBucket(rows, r)]
  <1>1. /\ rows \in SUBSET Row /\ IsFiniteSet(rows)
        /\ \A r \in rows : agg[r] \in Nat
    BY RowsFinite
  <1>2. DayBuckets(f, from, to) = {key[r] : r \in rows}
    BY DayBucketsAre
  <1> HIDE DEF rows
  <1>3. ASSUME NEW r \in rows
        PROVE  key[r].count = SumFunctionOnSet(agg, {s \in rows : key[s] = key[r]})
    <2>1. ASSUME NEW s \in rows
          PROVE  key[s] = key[r] <=> s \in SameDay(rows, r)
      <3>1. ASSUME key[s] = key[r] PROVE s \in SameDay(rows, r)
        BY <3>1 DEF DayBucket, Bucket, SameDay
      <3>2. ASSUME s \in SameDay(rows, r) PROVE key[s] = key[r]
        <4>1. DayOf(s.hour) = DayOf(r.hour) /\ s.variation = r.variation
          BY <3>2 DEF SameDay
        <4>2. SameDay(rows, s) = SameDay(rows, r)
          BY <4>1 DEF SameDay
        <4> QED BY <4>1, <4>2 DEF DayBucket
      <3> QED BY <3>1, <3>2
    <2>2. {s \in rows : key[s] = key[r]} = SameDay(rows, r)
      <3>1. SameDay(rows, r) \subseteq rows
        BY DEF SameDay
      <3> HIDE DEF key
      <3> QED BY <2>1, <3>1
    <2>3. key[r].count = DayCount(SameDay(rows, r))
      BY DEF DayBucket, Bucket
    <2> QED BY <2>2, <2>3 DEF DayCount
  <1> HIDE DEF key
  <1>4. Total({key[r] : r \in rows}) = SumFunctionOnSet(agg, rows)
    BY <1>1, <1>3, BucketsAddUp
  <1> QED BY <1>2, <1>4 DEF CountOf, rows

LEMMA CountType ==
  ASSUME TypeInv, StoreInv, NEW f \in Flag, NEW from, NEW to
  PROVE  CountOf(f, from, to) \in Nat
  BY RowsFinite, SumType DEF CountOf

LEMMA HourSeries ==
  ASSUME TypeInv, StoreInv, NEW f \in Flag, NEW from, NEW to
  PROVE  [total |-> Total(HourBuckets(f, from, to)),
          buckets |-> HourBuckets(f, from, to)] \in Series
  <1>1. Total(HourBuckets(f, from, to)) \in Nat
    BY HourTotal, CountType
  <1>2. ASSUME NEW r \in RowsOf(f, from, to)
        PROVE  Bucket(r.hour, r.variation, agg[r])
                  \in [timestamp : Int, variation : Variations, count : Nat]
    <2>1. r \in Row /\ agg[r] \in Nat
      BY RowsFinite
    <2>2. r.hour \in Int /\ r.variation \in Variations
      BY <2>1, ParametersTyped DEF Row, Hours, ParametersTyped
    <2> QED BY <2>1, <2>2 DEF Bucket
  <1>3. HourBuckets(f, from, to) \in SUBSET [timestamp : Int, variation : Variations, count : Nat]
    BY <1>2 DEF HourBuckets
  <1> QED BY <1>1, <1>3 DEF Series

(* The three queries of any table the pipeline leaves agree. *)
LEMMA Agreement == ASSUME TypeInv, StoreInv PROVE QueriesAgree
  <1> SUFFICES ASSUME NEW user \in User, NEW f \in Flag, NEW from \in Times, NEW to \in Times,
                      from < to
               PROVE  LET hourly == GetTimeseries(user, f, from, to, "hour")
                          daily == GetTimeseries(user, f, from, to, "day")
                          summary == GetSummary(user, f, from, to) IN
                      IF hourly = None THEN daily = None /\ summary = None
                      ELSE /\ hourly.total = summary.total /\ daily.total = summary.total
                           /\ \A d, e \in daily.buckets :
                                 d.timestamp = e.timestamp /\ d.variation = e.variation => d = e
    BY DEF QueriesAgree
  <1> DEFINE hours == HourBuckets(f, from, to)
             days == DayBuckets(f, from, to)
             hourly == [total |-> Total(hours), buckets |-> hours]
             daily == [total |-> Total(days), buckets |-> days]
             summary == Summary(f, from, to)
             granted == Owner[f.project] = user /\ f \in flags
  <1>1. /\ GetTimeseries(user, f, from, to, "hour") = IF granted THEN hourly ELSE None
        /\ GetTimeseries(user, f, from, to, "day") = IF granted THEN daily ELSE None
        /\ GetSummary(user, f, from, to) = IF granted THEN summary ELSE None
    BY DEF GetTimeseries, GetSummary, Answered
  <1>2. hourly # None
    BY HourSeries, NoneIsNoSeries
  <1>3. hourly.total = summary.total /\ daily.total = summary.total
    BY HourTotal, DayTotal, SummaryTotal
  <1>4. \A d, e \in daily.buckets :
           d.timestamp = e.timestamp /\ d.variation = e.variation => d = e
    <2> SUFFICES ASSUME NEW d \in days, NEW e \in days,
                        d.timestamp = e.timestamp, d.variation = e.variation
                 PROVE  d = e
      OBVIOUS
    <2> DEFINE rows == RowsOf(f, from, to)
    <2>1. PICK r \in rows : d = DayBucket(rows, r)
      BY DayBucketsAre
    <2>2. PICK s \in rows : e = DayBucket(rows, s)
      BY DayBucketsAre
    <2> HIDE DEF rows
    <2>3. DayOf(r.hour) = DayOf(s.hour) /\ r.variation = s.variation
      BY <2>1, <2>2 DEF DayBucket, Bucket
    <2>4. SameDay(rows, r) = SameDay(rows, s)
      BY <2>3 DEF SameDay
    <2> QED BY <2>1, <2>2, <2>3, <2>4 DEF DayBucket
  <1> HIDE DEF hourly, daily, summary, granted
  <1> QED BY <1>1, <1>2, <1>3, <1>4

(* Rows of adjoining ranges are disjoint and together those of the whole. *)
LEMMA Adjoining == ASSUME TypeInv, StoreInv PROVE RangesAddUp
  <1> SUFFICES ASSUME NEW f \in flags, NEW from \in Times, NEW mid \in Times, NEW to \in Times,
                      from < mid, mid < to
               PROVE  Summary(f, from, to).total =
                         Summary(f, from, mid).total + Summary(f, mid, to).total
    BY DEF RangesAddUp
  <1> DEFINE A == RowsOf(f, from, mid)
             B == RowsOf(f, mid, to)
  <1>1. f \in Flag
    BY DEF TypeInv, TypeOK
  <1>2. from \in Int /\ mid \in Int /\ to \in Int /\ Hours \subseteq Int
    BY QueryParameters, ParametersTyped DEF Hours, ParametersTyped
  <1>3. \A h \in Hours : /\ from <= h /\ h < to <=> (from <= h /\ h < mid) \/ (mid <= h /\ h < to)
                         /\ ~((from <= h /\ h < mid) /\ (mid <= h /\ h < to))
    BY <1>2
  <1>4. A \cup B = RowsOf(f, from, to) /\ A \cap B = {}
    BY <1>3 DEF RowsOf, InRange
  <1>5. IsFiniteSet(A) /\ IsFiniteSet(B) /\ \A r \in A \cup B : agg[r] \in Nat
    BY <1>1, RowsFinite
  <1>6. /\ Summary(f, from, to).total = CountOf(f, from, to)
        /\ Summary(f, from, mid).total = CountOf(f, from, mid)
        /\ Summary(f, mid, to).total = CountOf(f, mid, to)
    BY <1>1, SummaryTotal
  <1> HIDE DEF A, B
  <1>7. SumFunctionOnSet(agg, A \cup B) = SumFunctionOnSet(agg, A) + SumFunctionOnSet(agg, B)
    BY <1>4, <1>5, SumUnion
  <1> QED BY <1>4, <1>6, <1>7 DEF CountOf, A, B

LEMMA StoredNext ==
  TypeInv /\ StoreInv /\ [Next]_vars => (TypeInv /\ StoreInv)'
  BY TypeNext, StoreNext

(* Whatever range is asked for and whoever asks, the hourly series, the    *)
(* daily series and the summary are all refused or count the same events,  *)
(* and no day has two buckets of one variation.                            *)
THEOREM DashboardsAgree == Spec => []QueriesAgree
  <1>1. Init => TypeInv /\ StoreInv
    BY TypeInit, StoreInit
  <1>2. TypeInv /\ StoreInv => QueriesAgree
    BY Agreement
  <1> QED BY <1>1, <1>2, StoredNext, PTL DEF Spec

(* Ranges that follow each other count no event twice and lose none, even  *)
(* when they meet within an hour.                                          *)
THEOREM AdjoiningRangesAddUp == Spec => []RangesAddUp
  <1>1. Init => TypeInv /\ StoreInv
    BY TypeInit, StoreInit
  <1>2. TypeInv /\ StoreInv => RangesAddUp
    BY Adjoining
  <1> QED BY <1>1, <1>2, StoredNext, PTL DEF Spec

(***************************************************************************)
(* Percentages.                                                            *)
(***************************************************************************)

LEMMA NearWhole ==
  ASSUME NEW sum \in Nat, NEW n \in Nat, NEW total \in Nat \ {0},
         Close(sum, total, total, n)
  PROVE  2 * (sum - 10000) \in -n .. n
  <1> DEFINE e == 2 * (sum - 10000)
  <1>1. e \in Int /\ e * total = 2 * (sum * total - total * 10000)
    OBVIOUS
  <1>2. e * total <= n * total /\ -(n * total) <= e * total
    <2> DEFINE a == e * total
               b == n * total
    <2>1. a \in Int /\ b \in Int /\ a \in -b .. b
      BY <1>1 DEF Close
    <2> HIDE DEF a, b
    <2>2. a <= b /\ -b <= a
      BY <2>1
    <2> QED BY <2>2 DEF a, b
  <1> HIDE DEF e
  <1>3. e <= n
    <2> SUFFICES ASSUME e >= n + 1 PROVE FALSE
      BY <1>1
    <2>1. e * total >= (n + 1) * total
      BY <1>1
    <2>2. (n + 1) * total = n * total + total
      OBVIOUS
    <2> QED BY <1>1, <1>2, <2>1, <2>2
  <1>4. -n <= e
    <2> SUFFICES ASSUME -e >= n + 1 PROVE FALSE
      BY <1>1
    <2>1. (-e) * total >= (n + 1) * total
      BY <1>1
    <2>2. (n + 1) * total = n * total + total /\ (-e) * total = -(e * total)
      BY <1>1
    <2> QED BY <1>1, <1>2, <2>1, <2>2
  <1> QED BY <1>1, <1>3, <1>4 DEF e

LEMMA RoundedClose ==
  ASSUME NEW c \in Nat, NEW total \in Nat \ {0}, NEW x \in Rounded(c, total)
  PROVE  x \in Nat /\ Close(x, c, total, 1)
  <1> DEFINE below == (c * 10000) \div total
  <1>1. below \in Nat
    OBVIOUS
  <1>2. x \in {below, below + 1} /\ 2 * (x * total - c * 10000) \in -total .. total
    BY DEF Rounded
  <1> HIDE DEF below
  <1>3. x \in Nat
    BY <1>1, <1>2
  <1>4. 1 * total = total
    OBVIOUS
  <1> QED BY <1>2, <1>3, <1>4 DEF Close

LEMMA Percentages == ASSUME TypeInv, StoreInv PROVE PercentagesNearWhole
  <1> SUFFICES ASSUME NEW f \in flags, NEW from \in Times, NEW to \in Times, from < to
               PROVE  LET s == Summary(f, from, to)
                          n == Cardinality(DOMAIN s.counts) IN
                      n > 0 => \A p \in [DOMAIN s.counts ->
                                            UNION {s.percentage[v] : v \in DOMAIN s.counts}] :
                         (\A v \in DOMAIN p : p[v] \in s.percentage[v]) =>
                            2 * (SumFunction(p) - 10000) \in -n .. n
    BY DEF PercentagesNearWhole
  <1> DEFINE rows == RowsOf(f, from, to)
             V == {r.variation : r \in rows}
             counts == [v \in V |-> SumFunctionOnSet(agg, {r \in rows : r.variation = v})]
             total == SumFunction(counts)
             shares == [v \in V |-> Rounded(counts[v], total)]
             s == Summary(f, from, to)
  <1>1. s.counts = counts /\ s.percentage = shares /\ DOMAIN counts = V
    BY DEF Summary, Whole, DayCount
  <1>2. f \in Flag
    BY DEF TypeInv, TypeOK
  <1>3. IsFiniteSet(rows) /\ \A r \in rows : agg[r] \in Nat /\ agg[r] # 0
    BY <1>2, RowsFinite
  <1> HIDE DEF rows
  <1>4. IsFiniteSet(V)
    <2> DEFINE key == [r \in rows |-> r.variation]
    <2>1. V = {key[r] : r \in rows}
      OBVIOUS
    <2>2. IsFiniteSet({key[r] : r \in rows})
      BY <1>3, FiniteImage
    <2> HIDE DEF key, V
    <2> QED BY <2>1, <2>2
  <1>5. \A v \in V : counts[v] \in Nat
    <2> SUFFICES ASSUME NEW v \in V PROVE counts[v] \in Nat
      OBVIOUS
    <2> DEFINE of == {r \in rows : r.variation = v}
    <2>1. IsFiniteSet(of) /\ \A r \in of : agg[r] \in Nat
      BY <1>3, FS_Subset
    <2>2. counts[v] = SumFunctionOnSet(agg, of)
      OBVIOUS
    <2> HIDE DEF of, counts
    <2> QED BY <2>1, <2>2, SumType
  <1>6. total = SumFunctionOnSet(agg, rows)
    BY <1>3, VariationsAddUp
  <1>7. total = SumFunctionOnSet(counts, V)
    BY <1>1 DEF SumFunction
  <1>8. V # {} => rows # {}
    OBVIOUS
  <1>9. ASSUME V # {} PROVE total \in Nat \ {0}
    <2>1. PICK r \in rows : TRUE
      BY <1>8, <1>9
    <2>2. SumFunctionOnSet(agg, rows) = agg[r] + SumFunctionOnSet(agg, rows \ {r})
      BY <1>3, SumAny
    <2>3. IsFiniteSet(rows \ {r}) /\ \A x \in rows \ {r} : agg[x] \in Nat
      BY <1>3, FS_RemoveElement
    <2>4. SumFunctionOnSet(agg, rows \ {r}) \in Nat
      BY <2>3, SumType
    <2>5. agg[r] \in Nat /\ agg[r] # 0
      BY <1>3
    <2> HIDE DEF total
    <2> QED BY <1>6, <2>2, <2>4, <2>5
  <1> DEFINE n == Cardinality(V)
  <1>10. n \in Nat /\ (n > 0 => V # {})
    BY <1>4, FS_CardinalityType, FS_EmptySet
  <1>11. \A v \in V : shares[v] = Rounded(counts[v], total)
    OBVIOUS
  <1> HIDE DEF V, counts, total, shares, s, n
  <1>12. ASSUME n > 0, NEW p \in [V -> UNION {shares[v] : v \in V}],
                \A v \in V : p[v] \in shares[v]
         PROVE  2 * (SumFunction(p) - 10000) \in -n .. n
    <2>1. total \in Nat \ {0}
      BY <1>9, <1>10, <1>12
    <2>2. \A v \in V : counts[v] \in Nat /\ p[v] \in Nat /\ Close(p[v], counts[v], total, 1)
      BY <1>5, <1>11, <1>12, <2>1, RoundedClose
    <2>3. Close(SumFunctionOnSet(p, V), SumFunctionOnSet(counts, V), total, Cardinality(V))
      BY <1>4, <2>1, <2>2, ErrorsAddUp
    <2>4. SumFunction(p) = SumFunctionOnSet(p, V)
      BY DEF SumFunction
    <2>5. SumFunctionOnSet(p, V) \in Nat
      BY <1>4, <2>2, SumType
    <2>6. Close(SumFunction(p), total, total, n)
      BY <1>7, <2>3, <2>4 DEF n
    <2> QED BY <1>10, <2>1, <2>4, <2>5, <2>6, NearWhole
  <1>13. n = Cardinality(DOMAIN s.counts) /\ DOMAIN s.counts = V /\ s.percentage = shares
    BY <1>1 DEF n
  <1> QED BY <1>12, <1>13 DEF s

(* The percentages of a summary are rounded one by one: together they miss *)
(* 100 by half a hundredth for each variation at most, however many there  *)
(* are and whatever they count.                                            *)
THEOREM PercentagesAddUp == Spec => []PercentagesNearWhole
  <1>1. Init => TypeInv /\ StoreInv
    BY TypeInit, StoreInit
  <1>2. TypeInv /\ StoreInv => PercentagesNearWhole
    BY Percentages
  <1> QED BY <1>1, <1>2, StoredNext, PTL DEF Spec

(***************************************************************************)
(* One process: totals only grow.                                          *)
(***************************************************************************)
LEMMA CreditGrows ==
  ASSUME TypeInv, [Next]_vars
  PROVE  \A r \in Row : credited[r] <= credited'[r]
  <1>1. \A r \in Row : credited[r] \in Nat
    BY DEF TypeInv, TypeOK
  <1>2. \A p \in Procs, r \in Row : Landings(p, r) \in Nat
    BY LandingsType DEF TypeInv
  <1>3. ASSUME NEW p \in Procs, CommitCounts(p)
        PROVE  \A r \in Row : credited[r] <= credited'[r]
    BY <1>1, <1>2, <1>3 DEF CommitCounts
  <1>4. CASE credited' = credited
    BY <1>1, <1>4
  <1> QED
    BY <1>3, <1>4, StepKinds
    DEF Quiet, CountStep, Forget, SkipEvent, CountEvent, WriteCount

LEMMA TotalGrows ==
  ASSUME OneProcess, TypeInv, StoreInv, ExactInv, [Next]_vars,
         NEW f \in flags, NEW from, NEW to
  PROVE  Summary(f, from, to).total <= Summary(f, from, to).total'
  <1> DEFINE rows == RowsOf(f, from, to)
             then == RowsOf(f, from, to)'
  <1>1. f \in Flag
    BY DEF TypeInv, TypeOK
  <1>2. TypeInv' /\ StoreInv' /\ ExactInv'
    BY TypeNext, StoreNext, ExactNext
  <1>3. \A r \in Row : /\ agg[r] \in Nat /\ agg'[r] \in Nat
                       /\ agg[r] <= agg'[r]
    <2>1. \A r \in Row : agg[r] = credited[r] /\ agg'[r] = credited'[r]
      BY <1>2 DEF ExactInv
    <2>2. \A r \in Row : agg[r] \in Nat /\ agg'[r] \in Nat
      BY <1>2 DEF TypeInv, TypeOK
    <2> QED BY <2>1, <2>2, CreditGrows
  <1>4. IsFiniteSet(rows) /\ rows \subseteq Row
    BY <1>1, RowsFinite
  <1>5. then \subseteq Row /\ IsFiniteSet(then)
    <2>1. then \in SUBSET Support(agg')
      BY <1>1 DEF RowsOf, InRange, Row, Support
    <2>2. IsFiniteSet(Support(agg'))
      BY <1>2 DEF StoreInv
    <2>3. IsFiniteSet(then)
      BY <2>1, <2>2, FS_Subset
    <2> QED BY <2>1, <2>3 DEF Support
  <1>6. rows \subseteq then
    <2> SUFFICES ASSUME NEW r \in rows PROVE r \in then
      OBVIOUS
    <2>1. r \in Row /\ agg[r] # 0
      BY <1>4 DEF RowsOf
    <2>2. agg'[r] # 0
      BY <1>3, <2>1
    <2> QED BY <2>2 DEF RowsOf, InRange
  <1>7. Summary(f, from, to).total = SumFunctionOnSet(agg, rows)
    BY <1>1, SummaryTotal DEF CountOf
  <1>8. Summary(f, from, to).total' = SumFunctionOnSet(agg', then)
    <2>1. Summary(f, from, to).total' =
            SumFunction([v \in {r.variation : r \in then} |->
                           SumFunctionOnSet(agg', {r \in then : r.variation = v})])
      BY DEF Summary, Whole, DayCount
    <2>2. \A r \in then : agg'[r] \in Nat
      BY <1>3, <1>5
    <2> HIDE DEF then
    <2> QED BY <1>5, <2>1, <2>2, VariationsAddUp
  <1> HIDE DEF rows, then
  <1>9. SumFunctionOnSet(agg, rows) <= SumFunctionOnSet(agg', rows)
    <2>1. \A r \in rows : agg[r] \in Nat /\ agg'[r] \in Nat /\ agg[r] <= agg'[r]
      BY <1>3, <1>4
    <2> QED BY <1>4, <2>1, SumMonotone
  <1>10. SumFunctionOnSet(agg', rows) <= SumFunctionOnSet(agg', then)
    <2>1. \A r \in then : agg'[r] \in Nat
      BY <1>3, <1>5
    <2> QED BY <1>5, <1>6, <2>1, SumSubset
  <1>11. /\ SumFunctionOnSet(agg, rows) \in Nat
         /\ SumFunctionOnSet(agg', rows) \in Nat
         /\ SumFunctionOnSet(agg', then) \in Nat
    <2>1. \A r \in rows : agg[r] \in Nat /\ agg'[r] \in Nat
      BY <1>3, <1>4
    <2>2. \A r \in then : agg'[r] \in Nat
      BY <1>3, <1>5
    <2> QED BY <1>4, <1>5, <2>1, <2>2, SumType
  <1> QED BY <1>7, <1>8, <1>9, <1>10, <1>11

(* With one process, a total that a dashboard has shown never goes down:   *)
(* no rollback, crash or error takes back what was counted.                *)
THEOREM SingleProcessTotalsGrow == ASSUME OneProcess PROVE Spec => TotalsNeverShrink
  <1> DEFINE Inv == TypeInv /\ StoreInv /\ ExactInv
             Grow == \A f \in flags, from, to \in Times : from < to =>
                        Summary(f, from, to).total <= Summary(f, from, to).total'
  <1>1. Init => Inv
    BY TypeInit, StoreInit, ExactInit
  <1>2. Inv /\ [Next]_vars => Inv'
    BY TypeNext, StoreNext, ExactNext
  <1>3. Inv /\ [Next]_vars => [Grow]_vars
    <2> SUFFICES ASSUME Inv, [Next]_vars PROVE Grow
      OBVIOUS
    <2> QED BY TotalGrows
  <1> QED BY <1>1, <1>2, <1>3, PTL DEF Spec, TotalsNeverShrink

(***************************************************************************)
(* One process: a range counts its events.                                 *)
(***************************************************************************)

(* Every event tells its time, in a zone of whole hours.  An event that    *)
(* does not is counted at the hour it is processed, and half-hour zones    *)
(* have hours of their own: neither need be in the range it happened in.   *)
AllDated ==
    \A b \in Batches : \A i \in DOMAIN Events[b] :
       Events[b][i].ts # None /\ Events[b][i].ts.off = 0

(* The credit of a row of a flag that existed from the start is exactly    *)
(* the committed events that fit it.                                       *)
DatedInv == \A r \in Row : r.flag \in InitFlags => credited[r] = Cardinality(CommittedEvents(r))

LEMMA DatedFits ==
  ASSUME AllDated, NEW b \in Batches, NEW i \in DOMAIN Events[b], NEW r \in Row
  PROVE  /\ Fits(b, i, r)' <=> Fits(b, i, r)
         /\ Fits(b, i, r) /\ r.flag \in InitFlags => MayLand(b, i) = {r}
  <1>1. Events[b][i].ts # None
    BY DEF AllDated
  <1>2. Fits(b, i, r)' <=> Fits(b, i, r)
    BY <1>1 DEF Fits
  <1>3. ASSUME Fits(b, i, r), r.flag \in InitFlags
        PROVE  MayLand(b, i) = {r}
    <2>1. /\ r.flag = [project |-> Project[b], name |-> Events[b][i].key]
          /\ r.variation = Events[b][i].variation
          /\ r.hour = Trunc(Events[b][i].ts)
      BY <1>1, <1>3 DEF Fits
    <2>2. \A s \in Row : s.flag = r.flag /\ s.variation = r.variation /\ s.hour = r.hour => s = r
      BY DEF Row
    <2> QED BY <1>1, <1>3, <2>1, <2>2 DEF MayLand
  <1> QED BY <1>2, <1>3

LEMMA DatedInit == ASSUME Init PROVE DatedInv
  <1>1. \A r \in Row : CommittedEvents(r) = {}
    BY DEF Init, CommittedEvents, Counted
  <1>2. \A r \in Row : credited[r] = 0
    BY DEF Init, NoWrites
  <1> QED BY <1>1, <1>2, FS_EmptySet DEF DatedInv

LEMMA DatedNext ==
  ASSUME AllDated, TypeInv, OwnInv, LandInv, CoverInv, DatedInv, [Next]_vars
  PROVE  DatedInv'
  <1>1. \A r \in Row : CommittedEvents(r) =
           UNION {{<<b, i>> : i \in {j \in DOMAIN Events[b] : Fits(b, j, r)}} : b \in Committed}
    BY DEF CommittedEvents, Committed
  <1>2. \A r \in Row : CommittedEvents(r)' =
           UNION {{<<b, i>> : i \in {j \in DOMAIN Events[b] : Fits(b, j, r)}} : b \in Committed'}
    <2> SUFFICES ASSUME NEW r \in Row
                 PROVE  CommittedEvents(r)' =
                          UNION {{<<b, i>> : i \in {j \in DOMAIN Events[b] : Fits(b, j, r)}} :
                                 b \in Committed'}
      OBVIOUS
    <2>1. CommittedEvents(r)' =
            UNION {{<<b, i>> : i \in {j \in DOMAIN Events[b] : Fits(b, j, r)'}} :
                   b \in Committed'}
      BY DEF CommittedEvents, Committed
    <2>2. Committed' \subseteq Batches
      BY DEF Committed
    <2>3. \A b \in Committed' : \A j \in DOMAIN Events[b] : Fits(b, j, r)' <=> Fits(b, j, r)
      BY <2>2, DatedFits
    <2> QED BY <2>1, <2>3
  <1>3. CASE Committed' = Committed /\ credited' = credited
    BY <1>1, <1>2, <1>3 DEF DatedInv
  <1>4. ASSUME NEW p \in Procs, NEW b \in Batches \ Committed, cur[p] = b,
               Commit(p), Committed' = Committed \cup {b},
               NEW r \in Row, r.flag \in InitFlags
        PROVE  credited'[r] = Cardinality(CommittedEvents(r)')
    <2> DEFINE hits == {i \in DOMAIN landed[p] : landed[p][i] = r}
               added == {<<b, i>> : i \in hits}
               old == CommittedEvents(r)
               new == CommittedEvents(r)'
    <2>1. /\ IsFiniteSet(hits)
          /\ credited'[r] = credited[r] + Cardinality(hits)
      <3>1. landed[p] \in Seq(Row \cup {None})
        BY DEF TypeInv, TypeOK
      <3>2. IsFiniteSet(hits)
        BY <3>1, OccurrencesType
      <3>3. Landings(p, r) = Cardinality(hits)
        BY DEF Landings, Occurrences
      <3> HIDE DEF hits
      <3> QED BY <1>4, <3>2, <3>3 DEF Commit
    <2>2. DOMAIN landed[p] = DOMAIN Events[b]
      <3>1. landed[p] \in Seq(Row \cup {None}) /\ Len(landed[p]) = Len(Events[b])
        BY <1>4 DEF Commit, Exhausted, TypeInv, TypeOK
      <3> QED BY <3>1, ParametersTyped, LenProperties DEF ParametersTyped
    <2>3. hits = {i \in DOMAIN Events[b] : Fits(b, i, r)}
      <3>1. ASSUME NEW i \in DOMAIN Events[b]
            PROVE  landed[p][i] = r <=> Fits(b, i, r)
        <4>1. r # None
          BY NoneIsFresh DEF NoneIsFresh
        <4>2. landed[p][i] = r => Fits(b, i, r)
          BY <1>4, <2>2, <4>1 DEF LandInv
        <4>3. landed[p][i] \in MayLand(b, i)
          BY <1>4, <2>2 DEF LandInv
        <4>4. Fits(b, i, r) => landed[p][i] = r
          BY <1>4, <4>3, DatedFits
        <4> QED BY <4>2, <4>4
      <3> QED BY <2>2, <3>1
    <2> HIDE DEF hits
    <2>4. IsFiniteSet(added) /\ Cardinality(added) = Cardinality(hits)
      BY <2>1, Paired
    <2>5. new = old \cup added /\ old \cap added = {}
      BY <1>1, <1>2, <1>4, <2>3
    <2>6. IsFiniteSet(old) /\ credited[r] = Cardinality(old)
      <3>1. old \in SUBSET AllCommitted
        BY DEF CommittedEvents, AllCommitted, Committed
      <3>2. IsFiniteSet(old)
        BY <3>1, FS_Subset DEF CoverInv
      <3> QED BY <1>4, <3>2 DEF DatedInv
    <2> HIDE DEF added, old, new
    <2>7. Cardinality(new) = Cardinality(old) + Cardinality(added) - Cardinality(old \cap added)
      BY <2>4, <2>5, <2>6, FS_Union
    <2>8. Cardinality(old \cap added) = 0
      BY <2>5, FS_EmptySet
    <2>9. Cardinality(old) \in Nat /\ Cardinality(added) \in Nat
      BY <2>4, <2>6, FS_CardinalityType
    <2>10. credited'[r] = Cardinality(new)
      BY <2>1, <2>4, <2>6, <2>7, <2>8, <2>9
    <2> QED BY <2>10 DEF new
  <1>5. ASSUME NEW p \in Procs, Commit(p), cur[p] \in Batches \ Committed,
               Committed' = Committed \cup {cur[p]}
        PROVE  DatedInv'
    <2>1. PICK b \in Batches \ Committed : cur[p] = b
      BY <1>5
    <2> QED BY <1>4, <1>5, <2>1 DEF DatedInv
  <1> QED BY <1>3, <1>5, CommittedNext

(* Truncation to the hour does not cross the bounds of whole hours. *)
LEMMA HourInRange ==
  ASSUME NEW t \in Nat, NEW from \in Int, NEW to \in Int, from % 2 = 0, to % 2 = 0
  PROVE  t \in from .. to - 1 <=> from <= t - (t % 2) /\ t - (t % 2) < to
  OBVIOUS

(* The row of a committed event of flag f. *)
Target(f, a) ==
    [flag |-> f, hour |-> Trunc(Events[a[1]][a[2]].ts), variation |-> Events[a[1]][a[2]].variation]

LEMMA TargetOf ==
  ASSUME AllDated, NEW f \in Flag, NEW from \in WholeHours, NEW to \in WholeHours,
         NEW b \in Batches, NEW i \in DOMAIN Events[b]
  PROVE  /\ Project[b] = f.project /\ Events[b][i].key = f.name
               <=> f = [project |-> Project[b], name |-> Events[b][i].key]
         /\ Target(f, <<b, i>>) \in Row
         /\ InRange(Target(f, <<b, i>>), from, to) <=> Events[b][i].ts.t \in from .. to - 1
         /\ \A r \in Row : r.flag = f =>
               (Fits(b, i, r) <=> /\ f = [project |-> Project[b], name |-> Events[b][i].key]
                                  /\ Target(f, <<b, i>>) = r)
  <1> DEFINE e == Events[b][i]
  <1>1. e \in Event /\ e.ts # None /\ e.ts.off = 0
    BY ParametersTyped DEF ParametersTyped, AllDated
  <1>2. e.ts \in Stamp /\ e.ts.t \in Nat
    BY <1>1, ParametersTyped DEF Event, Stamp, ParametersTyped
  <1>3. Trunc(e.ts) = e.ts.t - (e.ts.t % 2)
    BY <1>1, <1>2 DEF Trunc
  <1>4. Target(f, <<b, i>>) = [flag |-> f, hour |-> Trunc(e.ts), variation |-> e.variation]
    BY DEF Target
  <1>5. from \in Int /\ to \in Int /\ from % 2 = 0 /\ to % 2 = 0
    BY QueryParameters DEF WholeHours
  <1>6. Trunc(e.ts) \in Hours /\ e.variation \in Variations
    BY <1>1, <1>2, TruncHour DEF Event
  <1>7. Fits(b, i, [flag |-> f, hour |-> Trunc(e.ts), variation |-> e.variation])
           <=> f = [project |-> Project[b], name |-> e.key]
    BY <1>1 DEF Fits
  <1>8. \A r \in Row : r.flag = f =>
           (Fits(b, i, r) <=> /\ f = [project |-> Project[b], name |-> e.key]
                              /\ r.variation = e.variation /\ r.hour = Trunc(e.ts))
    BY <1>1 DEF Fits
  <1> HIDE DEF e
  <1>9. Target(f, <<b, i>>) \in Row
    BY <1>4, <1>6 DEF Row
  <1>10. InRange(Target(f, <<b, i>>), from, to) <=> e.ts.t \in from .. to - 1
    BY <1>2, <1>3, <1>4, <1>5, HourInRange DEF InRange
  <1>11. Project[b] = f.project /\ e.key = f.name
            <=> f = [project |-> Project[b], name |-> e.key]
    BY DEF Flag
  <1>12. \A r \in Row : r.flag = f =>
            (Target(f, <<b, i>>) = r <=> r.variation = e.variation /\ r.hour = Trunc(e.ts))
    BY <1>4 DEF Row
  <1> QED BY <1>8, <1>9, <1>10, <1>11, <1>12 DEF e

(* The events a range is about are those of the rows in it. *)
IsOf(f, b, i) == f = [project |-> Project[b], name |-> Events[b][i].key]

LEMMA RangeIsRows ==
  ASSUME AllDated, NEW f \in Flag, NEW from \in WholeHours, NEW to \in WholeHours
  PROVE  /\ \A a \in CommittedIn(f, from, to) :
               /\ Target(f, a) \in Row /\ Target(f, a).flag = f
               /\ InRange(Target(f, a), from, to)
               /\ a \in CommittedEvents(Target(f, a))
         /\ \A r \in Row : r.flag = f /\ InRange(r, from, to) =>
               CommittedEvents(r) = {a \in CommittedIn(f, from, to) : Target(f, a) = r}
  <1>1. \A b \in Batches : \A i \in DOMAIN Events[b] :
           /\ Target(f, <<b, i>>) \in Row /\ Target(f, <<b, i>>).flag = f
           /\ Project[b] = f.project /\ Events[b][i].key = f.name <=> IsOf(f, b, i)
           /\ InRange(Target(f, <<b, i>>), from, to) <=> Events[b][i].ts.t \in from .. to - 1
           /\ \A r \in Row : r.flag = f =>
                 (Fits(b, i, r) <=> IsOf(f, b, i) /\ Target(f, <<b, i>>) = r)
    <2> SUFFICES ASSUME NEW b \in Batches, NEW i \in DOMAIN Events[b]
                 PROVE  /\ Target(f, <<b, i>>) \in Row /\ Target(f, <<b, i>>).flag = f
                        /\ Project[b] = f.project /\ Events[b][i].key = f.name <=> IsOf(f, b, i)
                        /\ InRange(Target(f, <<b, i>>), from, to)
                             <=> Events[b][i].ts.t \in from .. to - 1
                        /\ \A r \in Row : r.flag = f =>
                              (Fits(b, i, r) <=> IsOf(f, b, i) /\ Target(f, <<b, i>>) = r)
      OBVIOUS
    <2>1. Target(f, <<b, i>>).flag = f
      BY DEF Target
    <2>2. Target(f, <<b, i>>) \in Row
      BY TargetOf
    <2>3. Project[b] = f.project /\ Events[b][i].key = f.name <=> IsOf(f, b, i)
      BY TargetOf DEF IsOf
    <2>4. InRange(Target(f, <<b, i>>), from, to) <=> Events[b][i].ts.t \in from .. to - 1
      BY TargetOf
    <2>5. \A r \in Row : r.flag = f =>
             (Fits(b, i, r) <=> IsOf(f, b, i) /\ Target(f, <<b, i>>) = r)
      BY TargetOf DEF IsOf
    <2> QED BY <2>1, <2>2, <2>3, <2>4, <2>5
  <1>2. ASSUME NEW a
        PROVE  a \in CommittedIn(f, from, to)
                 <=> \E b \in Committed : \E i \in DOMAIN Events[b] :
                        a = <<b, i>> /\ IsOf(f, b, i) /\ InRange(Target(f, <<b, i>>), from, to)
    <2>1. a \in CommittedIn(f, from, to)
            <=> \E b \in Committed : \E i \in DOMAIN Events[b] :
                   /\ a = <<b, i>>
                   /\ Project[b] = f.project /\ Events[b][i].key = f.name
                   /\ Events[b][i].ts.t \in from .. to - 1
      BY DEF CommittedIn, Committed
    <2> QED BY <1>1, <2>1 DEF Committed
  <1>3. ASSUME NEW a, NEW r \in Row, r.flag = f
        PROVE  a \in CommittedEvents(r)
                 <=> \E b \in Committed : \E i \in DOMAIN Events[b] :
                        a = <<b, i>> /\ IsOf(f, b, i) /\ Target(f, <<b, i>>) = r
    <2>1. a \in CommittedEvents(r)
            <=> \E b \in Committed : \E i \in DOMAIN Events[b] : a = <<b, i>> /\ Fits(b, i, r)
      BY DEF CommittedEvents, Committed
    <2> QED BY <1>1, <1>3, <2>1 DEF Committed
  <1>4. ASSUME NEW a \in CommittedIn(f, from, to)
        PROVE  /\ Target(f, a) \in Row /\ Target(f, a).flag = f
               /\ InRange(Target(f, a), from, to)
               /\ a \in CommittedEvents(Target(f, a))
    <2>1. PICK b \in Committed : \E i \in DOMAIN Events[b] :
             a = <<b, i>> /\ IsOf(f, b, i) /\ InRange(Target(f, <<b, i>>), from, to)
      BY <1>2
    <2>2. PICK i \in DOMAIN Events[b] :
             a = <<b, i>> /\ IsOf(f, b, i) /\ InRange(Target(f, <<b, i>>), from, to)
      BY <2>1
    <2>3. Target(f, a) \in Row /\ Target(f, a).flag = f
      BY <1>1, <2>2 DEF Committed
    <2> QED BY <1>3, <2>2, <2>3
  <1>5. ASSUME NEW r \in Row, r.flag = f, InRange(r, from, to)
        PROVE  CommittedEvents(r) = {a \in CommittedIn(f, from, to) : Target(f, a) = r}
    <2>1. ASSUME NEW a
          PROVE  a \in CommittedEvents(r)
                   <=> a \in CommittedIn(f, from, to) /\ Target(f, a) = r
      <3>1. ASSUME a \in CommittedEvents(r)
            PROVE  a \in CommittedIn(f, from, to) /\ Target(f, a) = r
        <4>1. PICK b \in Committed : \E i \in DOMAIN Events[b] :
                 a = <<b, i>> /\ IsOf(f, b, i) /\ Target(f, <<b, i>>) = r
          BY <1>3, <1>5, <3>1
        <4>2. PICK i \in DOMAIN Events[b] :
                 a = <<b, i>> /\ IsOf(f, b, i) /\ Target(f, <<b, i>>) = r
          BY <4>1
        <4>3. InRange(Target(f, <<b, i>>), from, to)
          BY <1>5, <4>2
        <4> QED BY <1>2, <4>2, <4>3
      <3>2. ASSUME a \in CommittedIn(f, from, to), Target(f, a) = r
            PROVE  a \in CommittedEvents(r)
        BY <1>4, <3>2
      <3> QED BY <3>1, <3>2
    <2> QED BY <2>1
  <1> QED BY <1>4, <1>5

LEMMA RangeExact ==
  ASSUME AllDated, TypeInv, StoreInv, CountsExact, CoverInv, DatedInv,
         NEW f \in flags, NEW from \in WholeHours, NEW to \in WholeHours
  PROVE  LET n == Cardinality(CommittedIn(f, from, to)) IN
         /\ Summary(f, from, to).total <= n
         /\ f \in InitFlags => Summary(f, from, to).total = n
  <1> DEFINE A == CommittedIn(f, from, to)
             rows == RowsOf(f, from, to)
             key == [a \in A |-> Target(f, a)]
             B == {a \in A : key[a] \in rows}
             held == [r \in rows |-> Cardinality({a \in B : key[a] = r})]
  <1>1. f \in Flag
    BY DEF TypeInv, TypeOK
  <1>2. /\ IsFiniteSet(rows) /\ rows \in SUBSET Row
        /\ \A r \in rows : agg[r] \in Nat /\ r.flag = f /\ InRange(r, from, to)
    BY <1>1, RowsFinite DEF RowsOf
  <1>3. \A r \in Row : r.flag = f /\ InRange(r, from, to) /\ agg[r] # 0 => r \in rows
    BY DEF RowsOf, Row
  <1>4. IsFiniteSet(A)
    <2>1. A \subseteq AllCommitted
      BY DEF CommittedIn, AllCommitted, Committed
    <2> HIDE DEF A
    <2> QED BY <2>1, FS_Subset DEF CoverInv
  <1>5. \A a \in A : /\ key[a] \in Row /\ key[a].flag = f /\ InRange(key[a], from, to)
                     /\ a \in CommittedEvents(key[a])
    BY <1>1, RangeIsRows
  <1>6. \A r \in rows : CommittedEvents(r) = {a \in A : key[a] = r}
    <2>1. \A r \in rows : CommittedEvents(r) = {a \in A : Target(f, a) = r}
      BY <1>1, <1>2, RangeIsRows
    <2> HIDE DEF A, rows
    <2> QED BY <2>1
  <1> HIDE DEF A, rows, key
  <1>7. \A r \in rows : held[r] = Cardinality(CommittedEvents(r))
    <2>1. \A r \in rows : {a \in B : key[a] = r} = {a \in A : key[a] = r}
      OBVIOUS
    <2> QED BY <1>6, <2>1
  <1>8. /\ IsFiniteSet(B) /\ Cardinality(B) <= Cardinality(A)
        /\ Cardinality(A) \in Nat /\ Cardinality(B) \in Nat
    <2>1. B \subseteq A
      OBVIOUS
    <2> HIDE DEF B
    <2> QED BY <1>4, <2>1, FS_Subset, FS_CardinalityType
  <1>9. \A a \in B : key[a] \in rows
    OBVIOUS
  <1>10. Summary(f, from, to).total = SumFunctionOnSet(agg, rows)
    BY <1>1, SummaryTotal DEF CountOf, rows
  <1>11. \A r \in rows : /\ agg[r] = credited[r]
                         /\ agg[r] <= Cardinality(CommittedEvents(r))
                         /\ Cardinality(CommittedEvents(r)) \in Nat
    <2> SUFFICES ASSUME NEW r \in rows
                 PROVE  /\ agg[r] = credited[r]
                        /\ agg[r] <= Cardinality(CommittedEvents(r))
                        /\ Cardinality(CommittedEvents(r)) \in Nat
      OBVIOUS
    <2>1. r \in Row /\ agg[r] = credited[r] /\ credited[r] <= Cardinality(CommittedEvents(r))
      BY <1>2 DEF CountsExact, CoverInv
    <2>2. CommittedEvents(r) \subseteq A
      BY <1>6
    <2>3. Cardinality(CommittedEvents(r)) \in Nat
      BY <1>4, <2>2, FS_Subset, FS_CardinalityType
    <2> QED BY <2>1, <2>3
  <1>12. f \in InitFlags => \A a \in A : key[a] \in rows
    <2> SUFFICES ASSUME f \in InitFlags, NEW a \in A PROVE key[a] \in rows
      OBVIOUS
    <2>1. PICK r \in Row : r = key[a] /\ r.flag = f /\ InRange(r, from, to) /\ a \in CommittedEvents(r)
      BY <1>5
    <2>2. agg[r] = Cardinality(CommittedEvents(r))
      BY <2>1 DEF CountsExact, DatedInv
    <2>3. CommittedEvents(r) \subseteq AllCommitted
      BY DEF CommittedEvents, AllCommitted, Committed
    <2>4. Cardinality(CommittedEvents(r)) # 0
      BY <2>1, <2>3, FS_Subset, FS_EmptySet DEF CoverInv
    <2> QED BY <1>3, <2>1, <2>2, <2>4
  <1>13. f \in InitFlags => \A r \in rows : agg[r] = Cardinality(CommittedEvents(r))
    BY <1>2 DEF CountsExact, DatedInv
  <1>14. f \in InitFlags => B = A
    BY <1>12
  <1> HIDE DEF B
  <1>15. Cardinality(B) = SumFunctionOnSet(held, rows)
    BY <1>2, <1>8, <1>9, CardinalityGroups
  <1> HIDE DEF held
  <1>16. /\ SumFunctionOnSet(agg, rows) <= SumFunctionOnSet(held, rows)
         /\ SumFunctionOnSet(agg, rows) \in Nat
    <2>1. \A r \in rows : agg[r] \in Nat /\ held[r] \in Nat /\ agg[r] <= held[r]
      BY <1>2, <1>7, <1>11
    <2> QED BY <1>2, <2>1, SumMonotone, SumType
  <1>17. f \in InitFlags => SumFunctionOnSet(agg, rows) = SumFunctionOnSet(held, rows)
    <2> SUFFICES ASSUME f \in InitFlags
                 PROVE  SumFunctionOnSet(agg, rows) = SumFunctionOnSet(held, rows)
      OBVIOUS
    <2>1. \A r \in rows : agg[r] = held[r]
      BY <1>7, <1>13
    <2> QED BY <1>2, <2>1, SumSame
  <1>18. /\ Summary(f, from, to).total <= Cardinality(A)
         /\ f \in InitFlags => Summary(f, from, to).total = Cardinality(A)
    BY <1>8, <1>10, <1>14, <1>15, <1>16, <1>17
  <1> QED BY <1>18 DEF A

(* With one process and dated events, what a dashboard shows of a range of *)
(* whole hours is the number of committed events that happened in it: none *)
(* is counted in a neighbouring range, twice, or (of a flag that existed   *)
(* from the start) not at all.                                             *)
THEOREM SingleProcessRangesExact ==
  ASSUME OneProcess, AllDated PROVE Spec => []RangeCountsItsEvents
  <1> DEFINE Inv == /\ TypeInv /\ StoreInv /\ ExactInv
                    /\ OwnInv /\ LandInv /\ CoverInv /\ DatedInv
  <1>1. Init => Inv
    BY TypeInit, StoreInit, ExactInit, OwnInit, LandInit, CoverInit, DatedInit
  <1>2. Inv /\ [Next]_vars => Inv'
    BY TypeNext, StoreNext, ExactNext, OwnNext, LandNext, CoverNext, DatedNext
  <1>3. Inv => RangeCountsItsEvents
    <2> SUFFICES ASSUME Inv PROVE RangeCountsItsEvents
      OBVIOUS
    <2>1. CountsExact
      BY DEF ExactInv, CountsExact
    <2> QED BY <2>1, RangeExact DEF RangeCountsItsEvents
  <1> QED BY <1>1, <1>2, <1>3, PTL DEF Spec
=============================================================================
