---------------------------- MODULE GoldMetrics ----------------------------
(***************************************************************************)
(* What gold/dau.sql, gold/conversion.sql and the ad-hoc endpoint's        *)
(* dau_trend.sql compute from silver, while events arrive and midnight     *)
(* passes.  The first two select "today" by the columns of silver's        *)
(* partitions, which Event.partition made of the fields of the event's own *)
(* timestamp, in whatever offset from UTC it was written; the third goes   *)
(* back a number of days from this moment by the timestamp itself.         *)
(* All count distinct keys, so silver is a set of rows.                    *)
(***************************************************************************)
EXTENDS Integers, FiniteSets

CONSTANTS
    Users,          \* user ids
    Sessions,       \* session ids
    Offsets,        \* offsets from UTC that timestamps are written in, in hours
    DayLength,      \* hours in a day
    TrendDays,      \* the endpoint's parameter days
    MaxTime,        \* bound: the last hour
    MaxRows         \* bound: rows in silver

ASSUME OffsetsAssumption == Offsets \subseteq Int
ASSUME SizesAssumption == DayLength \in Nat \ {0} /\ MaxTime \in Nat /\ MaxRows \in Nat
ASSUME TrendAssumption == TrendDays \in Nat \ {0}

VARIABLES
    now,            \* the current hour, in UTC
    refined         \* the rows of silver

metricsVars == <<now, refined>>

(* the event types the two statements can tell apart *)
EventTypes == {"page_view", "signup", "purchase"}

Rows == [type : EventTypes, user : Users, session : Sessions,
         time : 0..MaxTime, offset : Offsets]

Day(h) == h \div DayLength

-----------------------------------------------------------------------------
(* Mistakes the code could have made; each takes the place of the operator *)
(* it names to show which property notices.                                *)

(* for Today *)
LastDay == {r \in refined : r.time > now - DayLength /\ r.time <= now}

(* for InTrend *)
ADayLess(r) == r.time >= now - (TrendDays - 1) * DayLength

(* for Precedes *)
InAnyOrder(signup, purchase) == TRUE

-----------------------------------------------------------------------------
(* Event.partition: the day among the year, month, day and hour columns *)
PartitionDay(r) == Day(r.time + r.offset)

(* year, month and day equal those of now() *)
Today == {r \in refined : PartitionDay(r) = Day(now)}

(* one row for each date of a timestamp, with its distinct users *)
UsersByDate(rows) ==
    {[date |-> d, users |-> {r.user : r \in {t \in rows : Day(t.time) = d}}]
        : d \in {Day(r.time) : r \in rows}}

(* dau.sql *)
Dau == UsersByDate(Today)

(* dau_trend.sql: timestamp >= CURRENT_TIMESTAMP - INTERVAL days DAY *)
InTrend(r) == r.time >= now - TrendDays * DayLength
DauTrend == UsersByDate({r \in refined : InTrend(r)})

(* conversion.sql: MIN(timestamp) of one type of event, per session *)
Times(type, session) == {r.time : r \in {t \in Today : t.type = type /\ t.session = session}}
Earliest(times) == CHOOSE t \in times : \A u \in times : t <= u

(* p.purchased_at > s2.signed_up_at *)
Precedes(signup, purchase) == signup < purchase

SignupSessions == {s \in Sessions : Times("signup", s) # {}}
ConvertedSessions ==
    {s \in SignupSessions :
        /\ Times("purchase", s) # {}
        /\ Precedes(Earliest(Times("signup", s)), Earliest(Times("purchase", s)))}

MetricsInit == now = 0 /\ refined = {}

(* A refined event enters silver.  Its timestamp is whatever its client    *)
(* wrote: it may be late, and nothing keeps it from lying ahead.           *)
Refine ==
    /\ Cardinality(refined) < MaxRows
    /\ \E r \in Rows : refined' = refined \cup {r}
    /\ UNCHANGED now

HourPasses ==
    /\ now < MaxTime
    /\ now' = now + 1
    /\ UNCHANGED refined

MetricsNext == Refine \/ HourPasses

MetricsSpec == MetricsInit /\ [][MetricsNext]_metricsVars

-----------------------------------------------------------------------------
(* Properties *)

(* Every row is in the partition of its UTC day.  It need not be: the      *)
(* schema accepts any offset, and one that moves an event across midnight  *)
(* takes it to another day's partition, where neither statement finds it   *)
(* on its day.                                                             *)
InUtcDays == \A r \in refined : PartitionDay(r) = Day(r.time)

(* The sessions with a signup and a later purchase, on the UTC day.        *)
Converting ==
    {s \in Sessions : \E a, b \in refined :
        /\ a.type = "signup" /\ b.type = "purchase"
        /\ a.session = s /\ b.session = s
        /\ Day(a.time) = Day(now) /\ Day(b.time) = Day(now)
        /\ a.time < b.time}

(* No session counts as converted without a signup and a later purchase of *)
(* the same day, whatever else it holds and however late rows arrive.  (It *)
(* may be missed with them: an earlier purchase hides the later one.)      *)
ConversionSound == InUtcDays => ConvertedSessions \subseteq Converting

(* The users active on a UTC day *)
Active(day) == {r.user : r \in {t \in refined : Day(t.time) = day}}
OfDay(day) ==
    IF Active(day) = {} THEN {} ELSE {[date |-> day, users |-> Active(day)]}

(* dau.sql, "distinct users for today (UTC)": the result is one row, of    *)
(* today's date and today's users - or no row when nobody was active.      *)
DauIsToday == InUtcDays => Dau = OfDay(Day(now))

(* "DAU per day for the last N days": wherever in the day the request      *)
(* comes, the trend has the whole of today and of the N - 1 days before,   *)
(* in agreement with dau.sql.  (It also has the part of the day before     *)
(* these that is less than N days ago, as a row like any other.)           *)
TrendIsWhole ==
    /\ \A day \in Day(now) - TrendDays + 1 .. Day(now) :
            {row \in DauTrend : row.date = day} = OfDay(day)
    /\ \A row \in DauTrend : row.date >= Day(now) - TrendDays
    /\ InUtcDays => Dau \subseteq DauTrend
=============================================================================
