----------------------------- MODULE GoldProofs -----------------------------
(***************************************************************************)
(* Proofs about gold.  GoldJob, the runs that write it, for any list of    *)
(* metrics and any bounds: a query that succeeded and the snapshot it      *)
(* wrote determine each other, and a token names its hour alone, which     *)
(* makes the properties inductive.  GoldMetrics, what the statements       *)
(* compute, for any offsets, any length of the day and of the trend, any   *)
(* hour and any contents of silver: it is what their comments say.         *)
(***************************************************************************)
EXTENDS GoldJob, GoldMetrics, FiniteSetTheorems, TLAPS

-----------------------------------------------------------------------------
(* GoldJob *)

(* Only tokens run_athena_query can compute have been submitted. *)
HourTokens ==
    \A m \in MetricSet, k \in Tokens : query[m][k] # "none" => k[2] = 0

(* Snapshots lie outside the deleted partitions and come from queries that *)
(* succeeded, one from each.                                               *)
Produced ==
    \A m \in MetricSet :
        /\ \A s \in gold[m] : s.part = Unpartitioned /\ query[m][s.token] = "succeeded"
        /\ \A s, u \in gold[m] : s.token = u.token => s = u
        /\ \A k \in Tokens : query[m][k] = "succeeded" => \E s \in gold[m] : s.token = k

(* A run ends within the hour after its launch. *)
RunHours ==
    /\ pc # "idle" => hour \in {launched, launched + 1}
    /\ pc = "poll" => waiting[1] \in {launched, launched + 1}

IInv == TypeOK /\ HourTokens /\ Produced /\ RunHours /\ RefreshedInOrder

USE MetricsAssumption, BoundsAssumption

(* The initial state satisfies the inductive invariant. *)
LEMMA Begins == Init => IInv
<1> SUFFICES ASSUME Init PROVE IInv
  OBVIOUS
<1>1. TypeOK
  BY DEF Init, TypeOK, Tokens, Hours
<1>2. RefreshedInOrder
  BY DEF Init, RefreshedInOrder
<1>3. HourTokens /\ Produced /\ RunHours
  BY DEF Init, HourTokens, Produced, RunHours
<1> QED
  BY <1>1, <1>2, <1>3 DEF IInv

(* Clear deletes none of the snapshots: they are in no hour partition. *)
LEMMA ClearsNothing ==
    ASSUME IInv, Clear
    PROVE  gold' = gold
<1>1. Metrics[at] \in MetricSet
  BY DEF IInv, TypeOK, MetricSet
<1>2. \A s \in gold[Metrics[at]] : ~Deletable(s)
  BY <1>1 DEF IInv, TypeOK, Produced, Deletable, Unpartitioned
<1>3. {s \in gold[Metrics[at]] : ~Deletable(s)} = gold[Metrics[at]]
  BY <1>2
<1> QED
  BY <1>1, <1>3 DEF Clear, IInv, TypeOK

(* Every step keeps the types. *)
LEMMA TypeStep ==
    ASSUME IInv, [Next]_vars
    PROVE  TypeOK'
<1> USE DEF IInv, TypeOK, Hours
<1>1. CASE RefreshSilver
  BY <1>1 DEF RefreshSilver, runner
<1>2. CASE Tick
  <2>1. hour \in Nat /\ hour < MaxHour /\ hour' = hour + 1
    BY <1>2 DEF Tick
  <2>2. hour' \in 0..MaxHour /\ 0..hour \subseteq 0..hour'
    BY <2>1
  <2>3. waiting[1] \in Nat
    BY DEF Tokens
  <2>4. waiting[1] <= hour'
    BY <2>1, <2>3
  <2> QED
    BY <1>2, <2>2, <2>4 DEF Tick, runner
<1>3. ASSUME NEW m \in MetricSet, NEW k \in Tokens, RunQuery(m, k)
      PROVE  TypeOK'
  <2>1. [token |-> k, silver |-> silver, part |-> Unpartitioned] \in Snapshots
    BY DEF Snapshots
  <2> QED
    BY <1>3, <2>1 DEF RunQuery, runner
<1>4. ASSUME NEW m \in MetricSet, NEW k \in Tokens, FailQuery(m, k)
      PROVE  TypeOK'
  BY <1>4 DEF FailQuery, runner
<1>5. CASE Launch
  BY <1>5 DEF Launch
<1>6. CASE Clear
  BY <1>6, ClearsNothing DEF Clear
<1>7. CASE Submit
  <2>1. Token(hour) \in Tokens /\ Token(hour)[1] = hour
    BY DEF Token, Tokens
  <2>2. Metrics[at] \in MetricSet
    BY DEF MetricSet
  <2> QED
    BY <1>7, <2>1, <2>2 DEF Submit
<1>8. CASE PollSucceeded
  BY <1>8 DEF PollSucceeded
<1>9. CASE Abort
  BY <1>9 DEF Abort
<1>10. CASE UNCHANGED vars
  BY <1>10 DEF vars, runner
<1> QED
  BY <1>1, <1>2, <1>3, <1>4, <1>5, <1>6, <1>7, <1>8, <1>9, <1>10 DEF Next

(* Every step keeps queries and snapshots in step with each other. *)
LEMMA SnapshotStep ==
    ASSUME IInv, [Next]_vars
    PROVE  HourTokens' /\ Produced'
<1> USE DEF IInv, HourTokens, Produced
<1>1. ASSUME NEW n \in MetricSet, NEW j \in Tokens, RunQuery(n, j)
      PROVE  HourTokens' /\ Produced'
  <2> DEFINE new == [token |-> j, silver |-> silver, part |-> Unpartitioned]
  <2>1. gold' = [gold EXCEPT ![n] = @ \cup {new}]
    BY <1>1 DEF RunQuery
  <2>2. /\ query[n][j] = "running"
        /\ \A m \in MetricSet, k \in Tokens :
             query'[m][k] = IF m = n /\ k = j THEN "succeeded" ELSE query[m][k]
    BY <1>1 DEF RunQuery, TypeOK
  <2>3. HourTokens'
    BY <2>2
  <2>4. new.token = j /\ new.part = Unpartitioned
    OBVIOUS
  <2> HIDE DEF new
  <2>5. ASSUME NEW m \in MetricSet
        PROVE  /\ \A s \in gold'[m] : s.part = Unpartitioned /\ query'[m][s.token] = "succeeded"
               /\ \A s, u \in gold'[m] : s.token = u.token => s = u
               /\ \A k \in Tokens : query'[m][k] = "succeeded" => \E s \in gold'[m] : s.token = k
    <3>1. \A s \in gold[m] : s.token \in Tokens
      BY DEF TypeOK, Snapshots
    <3>2. CASE m = n
      <4>1. gold'[m] = gold[m] \cup {new}
        BY <2>1, <3>2 DEF TypeOK
      <4>2. \A s \in gold[m] : s.token # j
        BY <2>2, <3>2
      <4>3. \A s \in gold'[m] : s.part = Unpartitioned /\ query'[m][s.token] = "succeeded"
        BY <2>2, <2>4, <3>1, <3>2, <4>1
      <4>4. \A s, u \in gold'[m] : s.token = u.token => s = u
        BY <2>4, <4>1, <4>2
      <4>5. \A k \in Tokens : query'[m][k] = "succeeded" => \E s \in gold'[m] : s.token = k
        BY <2>2, <2>4, <4>1
      <4> QED
        BY <4>3, <4>4, <4>5
    <3>3. CASE m # n
      <4>1. gold'[m] = gold[m]
        BY <2>1, <3>3 DEF TypeOK
      <4> QED
        BY <2>2, <3>1, <3>3, <4>1
    <3> QED
      BY <3>2, <3>3
  <2> QED
    BY <2>3, <2>5
<1>2. ASSUME NEW n \in MetricSet, NEW j \in Tokens, FailQuery(n, j)
      PROVE  HourTokens' /\ Produced'
  <2>1. /\ query[n][j] = "running"
        /\ gold' = gold
        /\ \A m \in MetricSet, k \in Tokens :
             query'[m][k] = IF m = n /\ k = j THEN "failed" ELSE query[m][k]
    BY <1>2 DEF FailQuery, TypeOK
  <2>2. \A m \in MetricSet : \A s \in gold[m] : s.token \in Tokens
    BY DEF TypeOK, Snapshots
  <2> QED
    BY <2>1, <2>2
<1>3. CASE Submit
  <2>1. Metrics[at] \in MetricSet /\ Token(hour) \in Tokens /\ Token(hour)[2] = 0
    BY DEF TypeOK, MetricSet, Token, Tokens
  <2>2. /\ gold' = gold
        /\ \A m \in MetricSet, k \in Tokens :
             query'[m][k] = IF m = Metrics[at] /\ k = Token(hour) /\ query[m][k] = "none"
                            THEN "running" ELSE query[m][k]
    BY <1>3, <2>1 DEF Submit, TypeOK
  <2>3. \A m \in MetricSet : \A s \in gold[m] : s.token \in Tokens
    BY DEF TypeOK, Snapshots
  <2> QED
    BY <2>1, <2>2, <2>3
<1>4. CASE Clear
  BY <1>4, ClearsNothing DEF Clear
<1>5. CASE RefreshSilver \/ Tick \/ Launch \/ PollSucceeded \/ Abort \/ UNCHANGED vars
  BY <1>5 DEF RefreshSilver, Tick, Launch, PollSucceeded, Abort, vars
<1> QED
  BY <1>1, <1>2, <1>3, <1>4, <1>5 DEF Next

(* Every step keeps a run within two hours. *)
LEMMA HoursStep ==
    ASSUME IInv, [Next]_vars
    PROVE  RunHours'
<1> USE DEF IInv, TypeOK, RunHours, runner
<1>1. CASE RefreshSilver
  BY <1>1 DEF RefreshSilver
<1>2. CASE Tick
  BY <1>2 DEF Tick, Hours
<1>3. ASSUME NEW m \in MetricSet, NEW k \in Tokens, RunQuery(m, k) \/ FailQuery(m, k)
      PROVE  RunHours'
  BY <1>3 DEF RunQuery, FailQuery
<1>4. CASE Launch
  BY <1>4 DEF Launch
<1>5. CASE Clear
  BY <1>5 DEF Clear
<1>6. CASE Submit
  <2>1. waiting'[1] = hour
    BY <1>6 DEF Submit, Token
  <2> QED
    BY <1>6, <2>1 DEF Submit
<1>7. CASE PollSucceeded \/ Abort
  BY <1>7 DEF PollSucceeded, Abort
<1>8. CASE UNCHANGED vars
  BY <1>8 DEF vars
<1> QED
  BY <1>1, <1>2, <1>3, <1>4, <1>5, <1>6, <1>7, <1>8 DEF Next

(* No step removes a snapshot. *)
LEMMA NoneRemoved ==
    ASSUME IInv, [Next]_vars
    PROVE  \A m \in MetricSet : gold[m] \subseteq gold'[m]
<1>1. ASSUME NEW n \in MetricSet, NEW k \in Tokens, RunQuery(n, k)
      PROVE  \A m \in MetricSet : gold[m] \subseteq gold'[m]
  BY <1>1 DEF RunQuery, IInv, TypeOK
<1>2. CASE Clear
  BY <1>2, ClearsNothing
<1> QED
  BY <1>1, <1>2 DEF Next, RefreshSilver, Tick, FailQuery, Launch, Submit, PollSucceeded, Abort, vars

LEMMA GoldGrows ==
    ASSUME IInv, [Next]_vars
    PROVE  \A m \in MetricSet : Written(m) \subseteq Written(m)'
BY NoneRemoved DEF Written

(* Every step keeps the metrics a run is past refreshed. *)
LEMMA OrderStep ==
    ASSUME IInv, [Next]_vars
    PROVE  RefreshedInOrder'
<1> USE DEF RefreshedInOrder
<1> DEFINE Fresh(i) == Written(Metrics[i]) \cap {launched, launched + 1} # {}
<1>1. \A i \in DOMAIN Metrics : Metrics[i] \in MetricSet
  BY DEF MetricSet
<1>2. at \in DOMAIN Metrics /\ DOMAIN Metrics = 1..Len(Metrics)
  BY DEF IInv, TypeOK
<1>3. CASE launched' = launched /\ at' = at /\ (pc' # "idle" => pc # "idle")
  BY <1>1, <1>2, <1>3, GoldGrows DEF IInv
<1>4. CASE Launch
  BY <1>4 DEF Launch
<1>5. CASE PollSucceeded
  <2>1. launched' = launched
    BY <1>5 DEF PollSucceeded
  <2>2. Fresh(at)
    <3>1. query[Metrics[at]][waiting] = "succeeded"
      BY <1>5 DEF PollSucceeded, Succeeded
    <3>2. PICK s \in gold[Metrics[at]] : s.token = waiting
      BY <1>1, <1>2, <3>1 DEF IInv, TypeOK, Produced
    <3>3. waiting[1] \in {launched, launched + 1}
      BY <1>5 DEF PollSucceeded, IInv, RunHours
    <3> QED
      BY <3>2, <3>3 DEF Written
  <2>3. \A i \in 1..at - 1 : Fresh(i)
    BY <1>5 DEF PollSucceeded, IInv
  <2>4. \A i \in 1..at : Fresh(i)
    BY <1>2, <2>2, <2>3
  <2>5. at' \in {at, at + 1} /\ gold' = gold
    BY <1>5 DEF PollSucceeded
  <2>6. \A i \in 1..at' - 1 : Fresh(i)
    BY <1>2, <2>4, <2>5
  <2> QED
    BY <2>1, <2>5, <2>6 DEF Written
<1> QED
  BY <1>3, <1>4, <1>5 DEF Next, RefreshSilver, Tick, RunQuery, FailQuery, Clear, Submit, Abort, vars, runner

(* The inductive invariant holds in every reachable state. *)
LEMMA InductiveInvariant == Spec => []IInv
<1>1. IInv /\ [Next]_vars => IInv'
  BY TypeStep, SnapshotStep, HoursStep, OrderStep DEF IInv
<1> QED
  BY Begins, <1>1, PTL DEF Spec

(* A token names its hour, so two snapshots of an hour share the token. *)
LEMMA OneAnHour == IInv => OneSnapshotAnHour
<1> SUFFICES ASSUME IInv, NEW m \in MetricSet, NEW s \in gold[m], NEW u \in gold[m],
                    s.token[1] = u.token[1]
             PROVE  s = u
  BY DEF OneSnapshotAnHour
<1>1. s.token \in Tokens /\ u.token \in Tokens
  BY DEF IInv, TypeOK, Snapshots
<1>2. s.token[2] = 0 /\ u.token[2] = 0
  BY <1>1 DEF IInv, Produced, HourTokens
<1>3. s.token = u.token
  BY <1>1, <1>2 DEF Tokens
<1> QED
  BY <1>3 DEF IInv, Produced

(* Every variable has its type, and a run is at a metric of the list. *)
THEOREM TypeCorrect == Spec => []TypeOK
<1>1. IInv => TypeOK
  BY DEF IInv
<1> QED
  BY InductiveInvariant, <1>1, PTL

(* run_athena_query's deterministic token: however often the runner is     *)
(* started, whatever fails or lingers, a metric has at most one snapshot   *)
(* of an hour.                                                             *)
THEOREM SnapshotsUnique == Spec => []OneSnapshotAnHour
BY InductiveInvariant, OneAnHour, PTL

(* run_gold's loop never gets past a metric it has not refreshed. *)
THEOREM NoMetricSkipped == Spec => []RefreshedInOrder
<1>1. IInv => RefreshedInOrder
  BY DEF IInv
<1> QED
  BY InductiveInvariant, <1>1, PTL

(* What run_gold deletes before an INSERT is never an object of gold: a    *)
(* snapshot that was once there stays, whatever runs, fails or is given up.*)
THEOREM KeepsSnapshots == Spec => SnapshotsKept
<1>1. IInv /\ [Next]_vars => [\A m \in MetricSet : gold[m] \subseteq gold'[m]]_gold
  BY NoneRemoved
<1> QED
  BY InductiveInvariant, <1>1, PTL DEF Spec, SnapshotsKept

-----------------------------------------------------------------------------
(* GoldMetrics: silver is whatever refined events it is, so the invariant  *)
(* is that it holds rows; the substance is in how days divide the hours.   *)

RowsTyped == now \in 0..MaxTime /\ refined \in SUBSET Rows

HIDE MetricsAssumption
USE OffsetsAssumption, SizesAssumption, TrendAssumption

LEMMA RowsInvariant == MetricsSpec => []RowsTyped
<1>1. MetricsInit => RowsTyped
  BY DEF MetricsInit, RowsTyped
<1>2. RowsTyped /\ [MetricsNext]_metricsVars => RowsTyped'
  BY DEF RowsTyped, MetricsNext, Refine, HourPasses, metricsVars
<1> QED
  BY <1>1, <1>2, PTL DEF MetricsSpec

-----------------------------------------------------------------------------
(* Days *)

(* A day has DayLength hours, and an hour lies in one day. *)
LEMMA HoursOfDay ==
    ASSUME NEW h \in Int
    PROVE  /\ Day(h) \in Int
           /\ DayLength * Day(h) <= h
           /\ h < DayLength * Day(h) + DayLength
BY SMT DEF Day

(* From the order of days to the order of their first hours. *)
LEMMA FirstHours ==
    ASSUME NEW a \in Int, NEW b \in Int, a <= b
    PROVE  DayLength * a <= DayLength * b
BY SMT

(* Every hour of one of the last TrendDays days, or of a day to come, is   *)
(* within the trend's interval.                                            *)
LEMMA WholeDays ==
    ASSUME NEW h \in Int, NEW moment \in Int,
           Day(h) >= Day(moment) - TrendDays + 1
    PROVE  h >= moment - TrendDays * DayLength
<1> DEFINE d == Day(h)
           e == Day(moment) - TrendDays + 1
<1>1. d \in Int /\ DayLength * d <= h
  BY HoursOfDay
<1>2. Day(moment) \in Int /\ moment < DayLength * Day(moment) + DayLength
  BY HoursOfDay
<1>3. DayLength * e = DayLength * Day(moment) - TrendDays * DayLength + DayLength
  BY <1>2, SMT
<1>4. DayLength * e <= DayLength * d
  BY <1>1, <1>2, FirstHours
<1>5. DayLength * e \in Int /\ DayLength * Day(moment) \in Int /\ TrendDays * DayLength \in Int
      /\ DayLength * d \in Int
  BY <1>1, <1>2
<1> HIDE DEF d, e
<1> QED
  BY <1>1, <1>2, <1>3, <1>4, <1>5

(* No hour of a day before the day of the interval's first hour is in it.  *)
LEMMA OldestDay ==
    ASSUME NEW h \in Int, NEW moment \in Int,
           h >= moment - TrendDays * DayLength
    PROVE  Day(h) >= Day(moment) - TrendDays
<1> DEFINE d == Day(h)
           e == Day(moment) - TrendDays
<1>1. d \in Int /\ h < DayLength * d + DayLength
  BY HoursOfDay
<1>2. Day(moment) \in Int /\ DayLength * Day(moment) <= moment
  BY HoursOfDay
<1> SUFFICES ASSUME d + 1 <= e PROVE FALSE
  BY <1>1, <1>2
<1>3. DayLength * e = DayLength * Day(moment) - TrendDays * DayLength
  BY <1>2, SMT
<1>4. DayLength * (d + 1) <= DayLength * e
  BY <1>1, <1>2, FirstHours
<1>5. DayLength * (d + 1) = DayLength * d + DayLength
  BY <1>1, SMT
<1>6. DayLength * e \in Int /\ DayLength * Day(moment) \in Int /\ TrendDays * DayLength \in Int
      /\ DayLength * d \in Int
  BY <1>1, <1>2
<1> HIDE DEF d, e
<1> QED
  BY <1>1, <1>2, <1>3, <1>4, <1>5, <1>6

-----------------------------------------------------------------------------
(* GROUP BY date *)

(* If the rows are those of one day of silver, the result is that day's.   *)
LEMMA OneDay ==
    ASSUME NEW rows, NEW day,
           {t \in rows : Day(t.time) = day} = {t \in refined : Day(t.time) = day}
    PROVE  {row \in UsersByDate(rows) : row.date = day} = OfDay(day)
<1> DEFINE of == {t \in rows : Day(t.time) = day}
<1>1. {row \in UsersByDate(rows) : row.date = day}
          = IF of = {} THEN {} ELSE {[date |-> day, users |-> {r.user : r \in of}]}
  BY DEF UsersByDate
<1>2. Active(day) = {r.user : r \in of}
  BY Zenon DEF Active
<1> HIDE DEF of
<1>3. Active(day) = {} <=> of = {}
  BY <1>2
<1> QED
  BY <1>1, <1>2, <1>3, Zenon DEF OfDay

(* While partitions are UTC days, today's partitions are the rows of today.*)
LEMMA TodayIsUtc ==
    ASSUME InUtcDays
    PROVE  Today = {t \in refined : Day(t.time) = Day(now)}
BY DEF Today, InUtcDays

LEMMA DauOfToday == InUtcDays => Dau = OfDay(Day(now))
<1> SUFFICES ASSUME InUtcDays PROVE Dau = OfDay(Day(now))
  OBVIOUS
<1>1. {t \in Today : Day(t.time) = Day(now)} = {t \in refined : Day(t.time) = Day(now)}
  BY TodayIsUtc
<1>2. {row \in Dau : row.date = Day(now)} = OfDay(Day(now))
  BY <1>1, OneDay DEF Dau
<1>3. \A row \in Dau : row.date = Day(now)
  BY TodayIsUtc DEF Dau, UsersByDate
<1> QED
  BY <1>2, <1>3

LEMMA TrendOfDays == RowsTyped => TrendIsWhole
<1> SUFFICES ASSUME RowsTyped PROVE TrendIsWhole
  OBVIOUS
<1>1. now \in Int /\ Day(now) \in Int
  BY HoursOfDay DEF RowsTyped
<1>2. \A r \in refined : r.time \in Int
  BY DEF RowsTyped, Rows
<1>3. ASSUME NEW day \in Day(now) - TrendDays + 1 .. Day(now)
      PROVE  {row \in DauTrend : row.date = day} = OfDay(day)
  <2> DEFINE recent == {r \in refined : InTrend(r)}
  <2>1. ASSUME NEW t \in refined, Day(t.time) = day PROVE InTrend(t)
    BY <1>1, <1>2, <2>1, WholeDays DEF InTrend
  <2>2. {t \in recent : Day(t.time) = day} = {t \in refined : Day(t.time) = day}
    BY <2>1
  <2> HIDE DEF recent
  <2>3. {row \in UsersByDate(recent) : row.date = day} = OfDay(day)
    BY <2>2, OneDay
  <2> QED
    BY <2>3 DEF DauTrend, recent
<1>4. ASSUME NEW row \in DauTrend PROVE row.date >= Day(now) - TrendDays
  <2>1. PICK r \in refined : InTrend(r) /\ row.date = Day(r.time)
    BY DEF DauTrend, UsersByDate
  <2> QED
    BY <1>1, <1>2, <2>1, OldestDay DEF InTrend
<1>5. ASSUME InUtcDays PROVE Dau \subseteq DauTrend
  <2>1. Day(now) \in Day(now) - TrendDays + 1 .. Day(now)
    BY <1>1
  <2>2. {row \in DauTrend : row.date = Day(now)} = OfDay(Day(now))
    BY <1>3, <2>1
  <2> QED
    BY <1>5, <2>2, DauOfToday
<1> QED
  BY <1>3, <1>4, <1>5 DEF TrendIsWhole

-----------------------------------------------------------------------------
(* MIN(timestamp) *)

(* A set of naturals has a least, which MIN returns. *)
LEMMA EarliestIsOne ==
    ASSUME NEW times \in SUBSET Nat, times # {}
    PROVE  Earliest(times) \in times
<1>1. PICK m \in times : \A n \in times : <<n, m>> \notin OpToRel(<, Nat)
  BY NatLessThanWellFounded, WFMin, Zenon
<1>2. \A n \in times : ~(n < m)
  BY <1>1 DEF OpToRel
<1>3. \E t \in times : \A u \in times : t <= u
  BY <1>2
<1> QED
  BY <1>3 DEF Earliest

(* The earliest event of a type in a session is an event of silver. *)
LEMMA EarliestEvent ==
    ASSUME RowsTyped, InUtcDays, NEW type, NEW session, Times(type, session) # {}
    PROVE  \E r \in refined : /\ r.type = type /\ r.session = session
                             /\ Day(r.time) = Day(now)
                             /\ r.time = Earliest(Times(type, session))
<1>1. Times(type, session) \in SUBSET Nat
  BY DEF Times, Today, RowsTyped, Rows
<1>2. Earliest(Times(type, session)) \in Times(type, session)
  BY <1>1, EarliestIsOne
<1> QED
  BY <1>2, TodayIsUtc DEF Times

LEMMA ConvertedConverting == RowsTyped => ConversionSound
<1> SUFFICES ASSUME RowsTyped, InUtcDays, NEW s \in ConvertedSessions PROVE s \in Converting
  BY DEF ConversionSound
<1>1. /\ s \in Sessions
      /\ Times("signup", s) # {} /\ Times("purchase", s) # {}
      /\ Earliest(Times("signup", s)) < Earliest(Times("purchase", s))
  BY DEF ConvertedSessions, SignupSessions, Precedes
<1>2. PICK a \in refined : /\ a.type = "signup" /\ a.session = s
                          /\ Day(a.time) = Day(now)
                          /\ a.time = Earliest(Times("signup", s))
  BY <1>1, EarliestEvent
<1>3. PICK b \in refined : /\ b.type = "purchase" /\ b.session = s
                          /\ Day(b.time) = Day(now)
                          /\ b.time = Earliest(Times("purchase", s))
  BY <1>1, EarliestEvent
<1> QED
  BY <1>1, <1>2, <1>3 DEF Converting

-----------------------------------------------------------------------------
(* A session that conversion.sql counts has a signup and a later purchase  *)
(* on the day, whatever else silver holds and in whatever order it came.   *)
THEOREM Converts == MetricsSpec => []ConversionSound
BY RowsInvariant, ConvertedConverting, PTL

(* dau.sql returns the distinct users of the UTC day in one row, or none.  *)
THEOREM DauCorrect == MetricsSpec => []DauIsToday
<1>1. DauIsToday
  BY DauOfToday DEF DauIsToday
<1> QED
  BY <1>1, PTL

(* dau_trend.sql has the last TrendDays days whole, whatever the hour the  *)
(* request comes at and however long a day, agrees with dau.sql on today,  *)
(* and goes back one day more at most.                                     *)
THEOREM TrendCorrect == MetricsSpec => []TrendIsWhole
BY RowsInvariant, TrendOfDays, PTL
=============================================================================
