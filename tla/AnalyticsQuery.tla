--------------------------- MODULE AnalyticsQuery ---------------------------
(***************************************************************************)
(* The dashboard's analytics queries over the table that EventPipeline     *)
(* fills: time series by hour and by day, and the summary.  A query reads  *)
(* the table in one SELECT, so it is an operator on a state; what it says  *)
(* is compared with the batches the pipeline has committed.                *)
(***************************************************************************)
EXTENDS EventPipeline, Functions

CONSTANTS
    Day,         \* half hours in a day
    Times,       \* bounds of the ranges asked for
    User,        \* users
    Owner        \* owner of each project

ASSUME QueryParameters == Day \in Nat \ {0} /\ Day % 2 = 0 /\ Times \subseteq Int /\ Owner \in [Projects -> User]

Total(buckets) == SumFunction([b \in buckets |-> b.count])

(* Faulty: hour <= to_time. *)
InRangeTwice(r, from, to) == from <= r.hour /\ r.hour <= to

InRange(r, from, to) == from <= r.hour /\ r.hour < to

(* The WHERE clause of both queries. *)
RowsOf(f, from, to) ==
    {r \in [flag : {f}, hour : Hours, variation : Variations] :
        InRange(r, from, to) /\ agg[r] # 0}

Bucket(time, v, n) == [timestamp |-> time, variation |-> v, count |-> n]
Series == [total : Nat,
           buckets : SUBSET [timestamp : Int, variation : Variations, count : Nat]]

ASSUME NoneIsNoSeries == None \notin Series

HourBuckets(f, from, to) ==
    {Bucket(r.hour, r.variation, agg[r]) : r \in RowsOf(f, from, to)}

(* The driver returns hours in UTC; replace(hour=0, ...) is the UTC day. *)
DayOf(hour) == hour - (hour % Day)

(* Faulty: the last bucket of the day wins. *)
DayCountLast(rows) == agg[CHOOSE r \in rows : \A s \in rows : s.hour <= r.hour]

DayCount(rows) == SumFunctionOnSet(agg, rows)

DayBuckets(f, from, to) ==
    LET rows == RowsOf(f, from, to)
        keys == {<<DayOf(r.hour), r.variation>> : r \in rows} IN
    {Bucket(k[1], k[2], DayCount({r \in rows : <<DayOf(r.hour), r.variation>> = k})) : k \in keys}

(* round(c / total * 100, 2) in hundredths: the nearest one, at a tie      *)
(* either, as c / total is a float.                                        *)
Rounded(c, total) ==
    LET below == (c * 10000) \div total IN
    {n \in {below, below + 1} : 2 * (n * total - c * 10000) \in -total .. total}

(* Faulty: the whole is everything the flag was ever evaluated. *)
WholeEver(f, variations) == Total(HourBuckets(f, -1, MaxTime + 1))

Whole(f, variations) == SumFunction(variations)

Summary(f, from, to) ==
    LET rows == RowsOf(f, from, to)
        counts == [v \in {r.variation : r \in rows} |->
                      DayCount({r \in rows : r.variation = v})]
        total == Whole(f, counts) IN
    [total |-> total, counts |-> counts,
     percentage |-> [v \in DOMAIN counts |-> Rounded(counts[v], total)]]

(* Both routes ask for the owner, not for is_active, and for the flag's    *)
(* name, not for is_archived; None is a 404.                               *)
Answered(user, f, response) == IF Owner[f.project] = user /\ f \in flags THEN response ELSE None

GetTimeseries(user, f, from, to, granularity) ==
    LET buckets == IF granularity = "day" THEN DayBuckets(f, from, to)
                                          ELSE HourBuckets(f, from, to) IN
    Answered(user, f, [total |-> Total(buckets), buckets |-> buckets])

GetSummary(user, f, from, to) == Answered(user, f, Summary(f, from, to))
-----------------------------------------------------------------------------
WholeHours == {t \in Times : t % 2 = 0}

(* Whatever range is asked for and whoever asks, the hourly series, the    *)
(* daily series and the summary are all refused or count the same events,  *)
(* and no day has two buckets of one variation.                            *)
QueriesAgree ==
    \A user \in User, f \in Flag, from, to \in Times : from < to =>
       LET hourly == GetTimeseries(user, f, from, to, "hour")
           daily == GetTimeseries(user, f, from, to, "day")
           summary == GetSummary(user, f, from, to) IN
       IF hourly = None THEN daily = None /\ summary = None
       ELSE /\ hourly.total = summary.total /\ daily.total = summary.total
            /\ \A d, e \in daily.buckets :
                  d.timestamp = e.timestamp /\ d.variation = e.variation => d = e

(* Ranges that follow each other count no event twice and lose none, even  *)
(* when they meet within an hour.                                          *)
RangesAddUp ==
    \A f \in flags, from, mid, to \in Times : from < mid /\ mid < to =>
       Summary(f, from, to).total = Summary(f, from, mid).total + Summary(f, mid, to).total

CommittedIn(f, from, to) ==
    UNION {{<<b, i>> : i \in {j \in DOMAIN Events[b] :
               /\ Project[b] = f.project /\ Events[b][j].key = f.name
               /\ Events[b][j].ts.t \in from .. to - 1}} :
           b \in {c \in Batches : outcome[c] \in Counted}}

(* With one process, a range of whole hours counts exactly the committed   *)
(* events that happened in it: the bucket of the hour stands for each.     *)
(* (Of a flag created meanwhile some events may have been skipped.)        *)
RangeCountsItsEvents ==
    \A f \in flags, from, to \in WholeHours : from < to =>
       LET n == Cardinality(CommittedIn(f, from, to)) IN
       /\ Summary(f, from, to).total <= n
       /\ f \in InitFlags => Summary(f, from, to).total = n

(* A total that a dashboard has shown never goes down (with one process;   *)
(* two lose counts).                                                       *)
TotalsNeverShrink ==
    [][\A f \in flags, from, to \in Times : from < to =>
          Summary(f, from, to).total <= Summary(f, from, to).total']_vars

(* The percentages are rounded one by one: together they miss 100 by half  *)
(* a hundredth for each variation at most.                                 *)
PercentagesNearWhole ==
    \A f \in flags, from, to \in Times : from < to =>
       LET s == Summary(f, from, to)
           n == Cardinality(DOMAIN s.counts) IN
       n > 0 => \A p \in [DOMAIN s.counts -> UNION {s.percentage[v] : v \in DOMAIN s.counts}] :
          (\A v \in DOMAIN p : p[v] \in s.percentage[v]) =>
             2 * (SumFunction(p) - 10000) \in -n .. n
=============================================================================
