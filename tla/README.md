# Product analytics platform: TLA+ models and proofs

TLA+ modules for the event pipeline of this repository, the TLC runs that
check them on small instances, and theorems about them checked by TLAPS.
Paths are relative to the repository; `ARCHITECTURE` is `docs/ARCHITECTURE.md`.

    tlc -config ConsumerOverlap.cfg MCConsumer.tla     # any run of the table below
    tlapm ConsumerProofs.tla                           # any proof module

## 1. The system

    load_gen --HTTP--> ingestion API --put_record--> Kinesis (one shard)
                                                        |
                                    consumer  <---------+   checkpoint object in S3
                                        | Parquet objects, one per flush and hour
                                        v
              S3 bronze --refine.sql--> S3 silver --gold/*.sql--> S3 gold
                           (jobs/runner.py, hourly at :00, through Athena)
                                                        |
                        jobs/redshift/load.py (:15)  TRUNCATE + COPY
                                                        v
           dashboard --HTTP--> analytics API --> DynamoDB cache / Redshift mart

The parts run in separate containers and never talk to each other directly:
they meet in the stream, the S3 prefixes, the mart tables and the cache. Within
a container everything is one asyncio event loop, so code between two `await`s
is atomic and every `await` is a point where other actors move.

### Inventory

| Component | State it keeps | Operations | What is hard | What makes it correct |
|---|---|---|---|---|
| **Consumer** `services/consumer` | in memory: cached shard iterator, pending sequence number, `EventBatcher` buffer and its clock. In S3: bronze objects, the checkpoint object | `poll_once`: read a batch, parse, buffer, and when the batch is full or old: write one object per hour partition, then save the position | a crash between two object writes or before the save; two containers during a deployment sharing one checkpoint; retention overtaking the reader; a closed shard | the saved position never passes an event that is not in bronze; every event gets there; duplicates come from restarts only |
| **Ingestion API** `services/ingestion` | none of its own; the stream | `ingest_event`: validate, `put_record` (retried by the SDK), answer | a put whose response is lost; a client that has gone; a container that stops | what is answered 202 is on the stream; what is rejected is not |
| **Load generator** `services/load_gen` | semaphore, `Stats` | chunks of `send_one` tasks under the semaphore | timeouts racing answers, permits after errors | the counts agree with the stream as far as the client can know; the test ends |
| **Silver job** `jobs/runner.py`, `silver/refine.sql` | S3 silver; Athena's memory of request tokens | clear the partitions of three hours, submit the statement, poll | the partitions deleted and the hours selected are counted in two places; deletes before a query that may fail; a token that ties a run to an earlier run's query; queries outliving their run; late rows | nothing is lost for good; no duplicates where the job overwrites |
| **Gold job** `jobs/runner.py`, `gold/*.sql` | S3 gold per metric; Athena's tokens | per metric: delete, submit, poll | as above, plus a failure in the middle of the list | one snapshot per metric and hour; no metric silently skipped |
| **Load job** `jobs/redshift/load.py` | five mart tables; statements in flight | per metric `TRUNCATE`, then `COPY`, each its own transaction, each polled for a minute | failure between the two; a statement that outlives the job; two jobs at a time; gold changing meanwhile | a job left alone leaves every table one whole snapshot, no older than gold was, whatever it found |
| **Metrics endpoints** `services/analytics-api` | cache items with a ttl; requests in flight | `_fetch`: cache get, engine run (submit, poll, fetch), cache set | requests concurrent with the load; slow requests writing back old rows; failures of cache and engine | an answer is rows the table held during the request, or cached ones; an empty result does not outlast the emptiness; everything is answered |
| **Ad-hoc endpoints** `analytics_routes.py`, `analytics_service.py`, `athena.py` | Athena's tokens; requests in flight | `AthenaEngine.run`: submit under a token of statement and hour, poll, fetch | requests of an hour share one query, its result or its failure; the hour turns under them; the silver job deletes and rewrites what they read | no answer is older than the hour its request came in, and none misses partitions longer than that; everything is answered |
| **DuckDB engine** `duckdb.py` | one connection, a lock | query in a worker thread, under the lock | queries that raise while others wait; objects that vanish between match and read | queries are serialized; a failing one keeps nobody waiting |
| **Shared events** `shared/.../events` | none | `parse_event`, `Event.partition` | timestamps in other offsets | partition and verdict are used by the other models |
| **Local runner and bootstrap** `jobs/runner_local.py`, `scripts/bootstrap_local.py` | local silver and gold; local resources | per location: list, delete, write; create stream, bucket, database, tables, cache; seed | both are stopped and started by hand, at any time and beside each other and the API | a complete run leaves gold as a whole; a completed bootstrap, however often stopped before, has left nothing out |
| **Dashboard** `dashboard/` | a page | five fetches, rendering | none | not modelled: no state outlives a page load |
| **Infrastructure, CI** `infra/`, `.github/` | none at run time | declarations | none | one shard, retention, rolling deployments and the two schedules enter the models |

`PROJECT.json` lists every hazard with its line and the properties aimed at it.

## 2. The modules

One module per component; a component meets the rest of the system through
actions that stand for the others (`ClearSilver`/`InsertSilver`,
`RefreshGold`, `Truncate`/`Copy`, `Land`, `Publish`). Data is reduced to what the properties
tell apart: an event is its stream position, a snapshot is a version number.

| Module | Models | Proofs | TLC instances |
|---|---|---|---|
| `AtLeastOnce` | what the consumer promises: an acknowledged position covers only stored, unparseable or expired records | - | through `Consumer` |
| `Consumer` | consumer tasks, stream, bronze, checkpoint; refines `AtLeastOnce` | `ConsumerProofs` | `MCConsumer` |
| `Ingestion` | load generator and ingestion API | `IngestionProofs` | `MCIngestion` |
| `SilverJob` | `run_silver`, Athena, refine.sql's row selection | `SilverJobProofs` | `MCSilverJob` |
| `GoldJob` | `run_gold`, Athena | `GoldProofs` | `MCGoldJob` |
| `GoldMetrics` | what `dau.sql`, `conversion.sql` and the endpoint's `dau_trend.sql` compute, `Event.partition` | `GoldProofs` | `MCGoldMetrics` |
| `MartLoad` | load jobs and Redshift | `MartLoadProofs` | `MCMartLoad` |
| `ReadThrough` | what the metrics endpoints promise of their answers | - | through `Serving` |
| `Serving` | a metric's requests, cache item, mart table; refines `ReadThrough` | `ServingProofs` | `MCServing` |
| `AdHoc` | the requests of one ad-hoc statement, Athena | `AdHocProofs` | `MCAdHoc` |
| `LocalStack` | bootstrap, local runner and `DuckDBEngine` over one object store | `LocalStackProofs` | `MCLocalStack` |

Every module has a section "Mistakes the code could have made": operators no
specification uses, each the body another operator would have after a
plausible bug. Every checked property has one that violates it.

### Consumer

* `pc` is where a task's coroutine stands: `"poll"` at the loop's head,
  `"flush"` between `EventBatcher.flush` and the end of `commit`. `iterator`,
  `pending`, `buffer` and `overdue` are `KinesisReader` and `EventBatcher`'s
  attributes; `batch` is `poll_once`'s local. All are lost in `Crash`, which is
  a killed container as well as any exception leaving `run_forever`.
* `ReadBatch` is `read_batch`, `add`, `is_ready` and `flush`: after
  `get_records` returns there is no `await` up to the first write. A read may
  return fewer records than there are, or none. `WritePartition` is one
  `put_object`; the order of partitions is free, as it depends on arrival.
  `Commit` is the save with the sleep after it.
* `NextIterator` is `NoIterator` at the end of a closed shard, as
  `NextShardIterator` is; `LoadIterator` then rereads the checkpoint.
* A checkpoint of a trimmed position resumes at the oldest record left.

### Ingestion

`task`, `permits` and `stats` are `send_one`, the semaphore and `Stats`;
`handler` is one request of the API. Client and handler are separate on
purpose: `RequestError` ends the client's side alone, and `Receive` may come
afterwards. `PutFails` is a `put_record` that raises, with or without the record
on the stream; the SDK's attempts are `MaxAttempts`. `Stop` is a container that
dies with a request, for which the load balancer answers 502.

### SilverJob and GoldJob

A run computes its partitions once (`launched`), clears them object list by
object list (`ListPartition`, `DeleteListed` are two awaited calls), and submits
under a token of statement and hour: `query[h]` is the query Athena remembers for
that hour's token, so that `Submit` either starts one or is tied to the earlier
one, whatever became of it. `RunQuery` is the moment Athena reads and inserts.
A run may end in a timeout while its query goes on. `Tick` lets runs and queries
reach into the next hour, but not past it (`MAX_WAIT_SECONDS` is five minutes,
Athena cancels after thirty). `OnSchedule` restricts launches to the hourly rule.

refine.sql is three operators: `InWindow` (the WHERE), `Deduped` (ROW_NUMBER, the
earliest row per id) and `Selected`. The window has no upper end, and a row's
partition follows its timestamp's own offset and clock, so `Land` files rows late
and, up to `MaxEarly` hours, ahead of the UTC hour: every run until then inserts an
early row again, and none deletes it. Silver rows remember the query that wrote
them, since the rows of one query and partition are one object. S3 may refuse to
delete some of the objects a `DeleteListed` names (at most `MaxRefused` in all);
the response that says so is not read. `uncleared` remembers, for the properties,
where the current run was refused one.

In gold, the INSERT puts its object directly under `gold/<metric>/`
(`Unpartitioned`) while `Deletable` describes hour partitions below it.

### MartLoad

`statements` is what has been submitted to the Data API, in order; jobs and
Redshift advance independently, and a statement its job gave up on (`Abort`)
may still execute, beside those of the next job. `mart` counts copies of each
version, so that a table loaded twice is visible. Nothing in the code keeps a
job started by hand from running beside the hourly one, so `Launch` does not
either; `alone` remembers whether a job found nothing running (`Quiet`) and has
been left alone since. A container that ends takes what it knew with it
(`Gone`).

### Serving

`Requests` share one cache key. `item.expired` says that the ttl has passed;
`Sweep` is DynamoDB's later deletion - `get` returns expired items. `Deadline`
is `_poll` giving up. `EngineFails` is any exception of the Data API; there is no
retry in the code and none in the model. `CacheGetFails` is the `ClientError`
that `get` catches, `CacheUnreachable` what it does not. `answer` distinguishes
the two errors although both become a 500. `seen` is history.

`ReadThrough` is the endpoints without their calls: a request asks, and is
answered with the stored rows, or reads the table once and answers that, or
fails; what it answered may come to be stored if it is not empty. Under the
mapping (`Promise`) the table is `mart`, the stored rows those of `item`, and
`Phase` sends the steps of `_fetch` before the statement has run to "asked" and those
after it to "read". An expiring ttl and most awaits are stutters.

### GoldMetrics

Rows of silver are (type, user, session, UTC hour, offset). `PartitionDay` is
the day of the timestamp's own fields, which is what `Event.partition` files it
under, `Today` the partition filter of both statements. `Dau` is `dau.sql` with
its GROUP BY date, and `DauTrend` the same over the rows of the last `TrendDays` days
(`InTrend`), which go by the timestamp instead of the partition; `Times`, `Earliest`, `SignupSessions` and `ConvertedSessions` are
`conversion.sql`'s subqueries and join. The properties compare them with
definitions over UTC time.

### AdHoc

`query[h]` is the query of hour `h`'s token. `Submit` computes the token and starts
the query, or joins the one that is there, whatever became of it. (Athena
accepting the call after the hour has turned is the same as accepting it just
before.) `run_silver` deletes the partitions it looks back on (`ClearSilver`) and
its query writes them some time later (`InsertSilver`); a query that reads in
between has a `partial` result. `came` and `floor` remember the hour of the
request's arrival and what silver was when it began, `lastCleared` the last hour
in which silver was cleared for a time. There is no cache and no retry.

### LocalStack

`Steps` is `bootstrap()` unrolled. `Create` is one call: a resource that exists is
left, a Glue table updated, and an existing cache table ends its function, so
`update_time_to_live` is not reached (`AfterExisting`). `Seed` is one `put_object`.

`at` is the location the local runner works on and `phase` whether it will list,
delete or write; list and delete are two calls. `objects` are the names at a
location (`seed`, `data`), `content` the version of bronze the `data` object was
computed from. `owed` remembers, for the properties, what a stop has left undone
that cannot be told from the lake: a `write` whose objects were already deleted, an
`update_time_to_live` whose table was already created.

`queue` is the asyncio lock's waiters, first come first served; `holder` who holds
it. `Glob` and `Read` are the two moments of a `read_parquet`: matching names, and
reading the objects matched. `Raise` leaves the lock's `async with` too. A request
whose client goes away is not modelled.

## 3. What the runs check

| Run | Instance | Shows |
|---|---|---|
| `consumer_overlap` | 2 tasks, 2 partitions, batches of 2, reads of 2, 3 records, 3 starts, 1 expiry, shard may close; tasks and partitions symmetric | `CheckpointSafe`: no crash, overlap or late save moves the checkpoint past an event that is not in bronze. `NothingReadIsDropped`, `CopiesBounded`, `BufferBounded`. `AtLeastOnceDelivery`: refinement of `AtLeastOnce` |
| `consumer_single` | 1 task, the same sizes, no expiry, fairness | `Delivery` and `CheckpointCatchesUp` without further traffic and through restarts; `CheckpointMonotone` on an open shard |
| `ingestion_load` | 4 tasks, one invalid, chunks of 3, 2 permits, 2 SDK attempts | `AcceptedIsPublished`, `PublishedIsAccounted`, `Accounting` under timeouts, lost responses and stops; `Ends` even if the API never answers |
| `silver_scheduled` | 2 ids, 2 rows, hours 0-4, one hour late, up to three ahead, one failure in a row, one refused delete, hourly schedule | `NothingForgotten`; `LookbackUnique`: no event twice in what a run cleared, not even across partitions; `CopiesBounded`: elsewhere an event twice at most and once for each refusal, in a partition whose hour has not come once for each query that found it ahead; `LateRowsRefined`: a late row is refined |
| `gold_hours` | 2 metrics, 3 hours, 3 versions, 2 runs an hour | `OneSnapshotAnHour`, `RefreshedInOrder` with reruns, timeouts, failed and lingering queries |
| `mart_overlap` | 2 jobs, 2 metrics, 2 versions, 6 statements; jobs symmetric | `LoadedIsGold`: with jobs overlapping, failing anywhere and leaving statements to run, and gold changing, a job left alone loads whole snapshots |
| `serving_reads` | 2 requests, 3 loads, fairness | `ServesReadThrough`: refinement of `ReadThrough`; `EmptyOnlyWhileEmpty`, `Answered`, `CacheCatchesUp` |
| `adhoc_reads` | 2 requests, hours 0-2, 2 versions of silver, fairness | `FreshWithinHour`, also across the turn of an hour; `GapsEndWithTheHour`: a result without the partitions just deleted is not served later than its hour; `Answered` though Athena never finishes |
| `gold_metrics` | 2 users, 1 session, offsets 0 and +2, days of 3 hours, trend of 2 days, 3 rows | `ConversionSound`, `DauIsToday`, around midnight, with late and early rows; `TrendIsWhole`: whole days, in agreement with `dau.sql` |
| `local_runs` | 1 metric, 2 requests, 3 versions, 2 stops, fairness | `RunConsistent` with stopped runs and bootstraps beside the run; one holder of the lock (`TypeOK`); `BootstrapWhole`: a completed bootstrap left nothing out but the ttl, and from then on a location is without objects only where a rewrite is under way, or was stopped; `Served`, also behind a query that raises |
| `silver_rerun`, `gold_appends` | smallest that reach it | each refutes a sentence of the repository (section 6) |

The runs with `CHECK_DEADLOCK FALSE` are those whose bounds end the behaviour
(the last hour, the last statement) or whose program terminates (a load test).
In the consumer, the endpoints and the local stack something can always happen,
and TLC checks it.

**Bounds.** Three records, batches of two and two partitions give a batch of two
objects with a crash between them, a read that overfills a batch and a batch that
only time completes; three starts give two overlapping tasks and one restart. Four hours after the first
let an hour leave both the deleted partitions (three) and the
query's window (four) with failures on the way, and a row three hours ahead be
inserted by three runs before the one that clears it. Two metrics give a list a
first and a last element, and six statements a complete load after, or before,
two that another job was given up on, in any order; two jobs overlap, follow
each other, and take over from each other's leavings. One refused delete in
silver is enough for a run to insert beside an old object, and for the next run
to meet both. Two requests and three loads are
what a slow request needs to write back old rows over new, twice. Two ad-hoc requests
and three hours give a query joined by a second request, and one that
outlasts its hour; one rewriting of silver can lie before, in or after any of
them. Days of three hours make every hour a neighbour of midnight,
and three rows a session with two events of one type and one of another. One
gold metric suffices locally: silver comes before it, so the runner's list has
a first and a last element; two stops are a run and a bootstrap stopped beside each
other, or one of them twice. Every bound is a constant whose comment says `bound:`.

Restrictions that are conditions of the properties, not just bounds:

* `consumer_single` has no expiry: with `MaxTrim > 0` an event may expire
  unread, and `Delivery` fails as it must.
* `LateRowsRefined` needs `MaxLate + MaxFailures <= 2`: the window is as wide as
  lateness and failures may together be. Hours whose last run lies past the
  bound are left out.
* `NothingForgotten` needs `MaxFailures <= 1` and the schedule.
* `LoadedIsGold` speaks of jobs that started with nothing running and were left
  alone (`alone`): beside a lingering statement or another job a table may end
  up empty or doubled; see section 6.
* `LookbackUnique` excepts the partitions where this run was refused a delete,
  and `CopiesBounded` allows a copy more for each refusal.
* `CopiesBounded` says "twice" of partitions that hold a row of a query from their
  hour or one of the two after. Ahead of its hour a partition holds up to `MaxEarly`
  copies of an event; see section 6.
* `CheckpointSafe` and `AtLeastOnceDelivery` count expired records as settled: they say
  that nothing else is lost, not that a consumer notices the gap.
* `CheckpointMonotone` is about a shard that is open: at a closed one a reader goes back.
* `BootstrapWhole` excuses the ttl of the cache table when a bootstrap was stopped just
  before it (`owed`); see section 6.
* `GoldJob` has one runner at a time: the runs of an hour follow each other, and a run
  started by hand beside another is not modelled.
* `GapsEndWithTheHour` counts silver as whole again after `InsertSilver`. That is so
  while no two silver runs in a row fail (`NothingForgotten`).
* `GapsEndWithTheHour` excuses a request whose own hour has seen silver cleared,
  even if that was over when it arrived: within the hour the result is shared.
* `ConversionSound` and `DauIsToday` are claimed while every row is in the
  partition of its UTC day (`InUtcDays`); the run has offsets that break this.

**Fairness.** Weak fairness only. Consumer: ECS replaces stopped containers
(`Start`; starts are bounded, and the last task does not crash once they are
used up), a running coroutine continues, time passes (`Elapse`), and Kinesis
eventually returns records it holds (`ReadSome`). Ingestion: a free permit wakes
a task and httpx's ten-second timeout fires; nothing is assumed of the API.
Silver: the clock, the hourly rule, Athena finishing queries. Serving: calls
return or raise, the deadline and ttls pass; Redshift need never execute a
statement and the load job need never run. Ad-hoc: the same, and Athena need
never run a query. Local: a free lock wakes its first waiter, and a query in the
worker thread returns or raises; the scripts need not go on.

## 4. What is proved

For any number of tasks, partitions, metrics and any bounds, from the named
assumptions of the modules and, where the table says so, a condition on the
constants:

| Theorem | States |
|---|---|
| `ConsumerProofs!TypeCorrect` | `Spec => []TypeOK`; in particular no position is past the end of the stream |
| `ConsumerProofs!CheckpointDurable` | `Spec => []CheckpointSafe` |
| `ConsumerProofs!NothingDropped` | `Spec => []NothingReadIsDropped` |
| `ConsumerProofs!Implements` | `Spec => AtLeastOnceDelivery`: every step is a step of `AtLeastOnce` or a stutter |
| `ConsumerProofs!CopiesFromStarts` | `Spec => []CopiesBounded` |
| `ConsumerProofs!CheckpointAdvances` | `Spec => CheckpointMonotone`, for a single task (`OneTask`) |
| `ConsumerProofs!MemoryBound` | `Spec => []BufferBounded` |
| `IngestionProofs!TypeCorrect`, `AcceptedPublished`, `PublishedAccounted`, `Accounts` | `Spec => []TypeOK`, `[]AcceptedIsPublished`, `[]PublishedIsAccounted`, `[]Accounting` |
| `SilverJobProofs!TypeCorrect` | `Spec => []TypeOK`, however the job is started |
| `SilverJobProofs!Forgotten` | `Spec => []NothingForgotten`, if `OnSchedule` and `MaxFailures <= 1` |
| `SilverJobProofs!Unique`, `FewCopies` | `Spec => []LookbackUnique`, `[]CopiesBounded`, if `OnSchedule` |
| `GoldProofs!Converts`, `DauCorrect`, `TrendCorrect` | `MetricsSpec => []ConversionSound`, `[]DauIsToday`, `[]TrendIsWhole` |
| `GoldProofs!TypeCorrect`, `AdHocProofs!TypeCorrect`, `MartLoadProofs!TypeCorrect`, `ServingProofs!TypeCorrect` | `Spec => []TypeOK` of these modules |
| `GoldProofs!SnapshotsUnique` | `Spec => []OneSnapshotAnHour` |
| `GoldProofs!NoMetricSkipped` | `Spec => []RefreshedInOrder` |
| `GoldProofs!KeepsSnapshots` | `Spec => SnapshotsKept`: a reader of gold never loses a snapshot |
| `MartLoadProofs!LoadsWhole` | `Spec => []LoadedIsGold` |
| `ServingProofs!EmptyHonest` | `Spec => []EmptyOnlyWhileEmpty` |
| `ServingProofs!Implements` | `Spec => ServesReadThrough`: every step is a step of `ReadThrough` or a stutter |
| `AdHocProofs!Fresh` | `Spec => []FreshWithinHour` |
| `AdHocProofs!GapsEnd` | `Spec => []GapsEndWithTheHour` |
| `LocalStackProofs!TypeCorrect` | `Spec => []TypeOK`; in particular the queries are serialized |
| `LocalStackProofs!Consistent` | `Spec => []RunConsistent` |
| `LocalStackProofs!BootsWhole` | `Spec => []BootstrapWhole` |

*Consumer.* `CheckpointSafe` is not inductive: `Commit` saves `pending`, of which it
says nothing. `NothingReadIsDropped` does - everything up to `pending` is settled,
buffered or in the batch - and `Phases` adds that the buffer is empty while a batch
is written, and the batch empty otherwise. So when `Commit` is enabled both are
empty and everything up to `pending` is settled. That settled events stay settled
(`SettledStays`) carries this over the steps of other tasks, which is why any number
may overlap. The refinement uses the same invariant: `Commit` is `Acknowledge`, or
stutters when nothing was read; `WritePartition` is `Store`; other task steps
stutter.

Two more properties hold while the shard is open, where a reader keeps its iterator
until its container stops (`OnOpenShard`). `CopiesBounded` needs to know who may
still store an event: the running tasks that hold it or have not read as far
(`MayStore`). The copies in bronze and these tasks together are at most the starts
(`StartsCover`): a start adds a task, a write trades the task for the copy - it held
one and has read past it - and nothing else makes a task one of them.
`CheckpointMonotone` follows from `Forward`, that a single task's iterator and
pending number are not before the checkpoint; with two tasks this is false, hence
`OneTask`.

`BufferBounded`, which holds on any shard, is about sums over bags. What the fold
behind `Size` computes is proved from its recursive definition: solutions exist on a
finite set (`SumsExist`) and agree on common subsets (`SumsAgree`), so a sum splits
off an element (`SumSplits`), from which the rest follows. The induction is over
sets - the naturals, or the subsets, that have the property (`AllNaturals`,
`AllSubsets`) - because the library's induction theorems take operators, which these
provers cannot instantiate; a least counterexample comes from `WFMin`.

*Ingestion.* The counters are numbers and the stream holds events, so the invariant
puts sets behind the numbers: finished tasks split into the accepted, the rejected
and the failed (`Counted`), with those sizes, where the accepted have a handler that
answered 202 and the rejected one that answered 400. `HandlerAt` bounds what a
handler has put on the stream by where it is, also after its client has gone.
`Permits` has every permit in the semaphore or with a task that posts.

*Silver job.* Three ideas. `OneRun`: on schedule an hour has one run, at the
partitions of its own hour, and the hour's token its query only. `Cleared` and
`Countdown`: whatever the run is done with holds what this hour's query wrote, or
objects in a partition whose delete S3 refused; `LookbackUnique` follows, since one
query has one row for an id (`Written`). `Remembered`: an id that silver has lost is
in bronze within the windows of the queries to come (`Restorable`) - in the three
hours this run deletes if the run before it succeeded, in the four its query selects
if that one failed. A second failure in a row would put it behind the window, hence
`MaxFailures <= 1`. That a query selects every id in its window is
`EveryIdSelected`. For `CopiesBounded`, `Few` counts by how long ago a partition was
last cleared: none when the runs of its hour and the two after have done with it and
their query has not run, one copy after it, a second from the query of the fourth
hour, which inserts what the run no longer deletes; each refused object may add one.
It says so only of a partition that such a query has written (`Reached`). Whatever
another holds was written while it was ahead of the hour, or by that fourth query:
`InReach` puts the queries of a row's copies among those hours, and a query has one
row for an id, so there are at most `MaxEarly + 1`. Without `OnSchedule` TLC finds each of the three violated: a
second run of an hour deletes and is handed a finished query (`silver_rerun`), or
its query outlasts the hour.

*Gold statements.* These hold of any rows; the proofs are about days. `HoursOfDay`
gives a day its first and last hour, `WholeDays` that every hour of the last
`TrendDays` days is within the interval, `OldestDay` that the interval meets one
more day at most, whatever the length of a day and the hour of the request. Under
`InUtcDays` today's partitions are the rows of today (`TodayIsUtc`), and the
earliest signup and purchase are rows of silver (`EarliestEvent`), since a non-empty
set of hours has a least.

*Gold.* A snapshot and the successful query of its token determine each other
(`Produced`); tokens contain the hour and nothing else (`HourTokens`); the runner's
deletes match no snapshot (lemma `ClearsNothing`), which is all that `SnapshotsKept`
needs beside the guards (an action property that no run checks); a run and its query end within
the hour after its launch (`RunHours`). A run that polls "succeeded" hence finds the
snapshot of its hour or the next, whichever run submitted the query.

*Local stack.* The invariant `Inv` (checked by TLC on the instance of `local_runs`
before it was proved) has three parts, each for one actor. `Typing` has the lock:
the queue holds each waiting request once, and a request holds the lock exactly
while its query runs. `Grants` looks at `Head(queue)` and `Acquire` takes the
tail, so that the head is in no queue afterwards because it was there once.
`RunInv` says what the runner has done so far: every location before the one it is
at holds the data of this run's silver, which is no older than bronze was when it
began. A bootstrap beside it only adds seeds and bronze only grows, so neither
disturbs it. `BootInv` says the same of the bootstrap by its step: what comes before it is
created, or seeded at some time, but for the step of the ttl when one was stopped
at it. A seeded location keeps an object until the runner deletes it; the data
that replaces it is the next thing the runner writes, and if it is stopped just
there, `owed` has the step. `BootsWhole` is `BootInv` past the last step.

*Load job.* `LoadedIsGold` does not say how far the table a job is at has come, nor
what may still change it. `OnlyOwn` adds that no statement but the one the job polls
can still run; `PollsOwn` that this one is the statement the job is at; `Before` and
`Current` what each table holds, by where the job and its statement are. `Launch`
establishes them, since `Resting` puts every new job at its first statement, where
they ask nothing of the tables: that is why it does not matter what earlier jobs
left. `BaseBehind` keeps gold at or above what the job found.

*Serving.* `EmptyOnlyWhileEmpty` follows from what a request in flight has seen
(`Seeing`): the table of this moment, and what it fetched. That nothing empty is
stored is part of `TypeOK`, and is what makes a cached answer no empty one. The
refinement maps each step by its `Phase`; `CacheSet` is `Reply` because only a
result with rows gets there.

*Ad-hoc.* `FreshWithinHour` and `GapsEndWithTheHour` speak of finished requests
only. `HourFresh` adds that the current hour's query, once it succeeded, read silver
as it was when the hour began or later, and missed partitions only if they were
cleared within the hour; `WaitFresh` carries this to each request that polls: it is
what `Submit` establishes, and what survives the turn of the hour, after which
`HourFresh` says nothing of the old query any more.

**Only model-checked**: liveness under fairness (`Delivery`, `CheckpointCatchesUp`,
`Ends`, `LateRowsRefined`, `Answered`, `CacheCatchesUp`,
`Served`), which is beyond this prover. Every invariant, action property and refinement that a
passing run checks is also a theorem.

## 5. Plan

Built first: the consumer, since everything downstream relies on its one
promise, with its abstract specification and proofs; then the jobs, whose
idempotence the documentation relies on; then the endpoints, the write path and
the local stack.
Then the abstract read-through, overlapping load jobs, refused deletes, silver as
the ad-hoc queries find it while it is rewritten, and the trend statement; then
the proofs for ingestion, silver, the gold statements, the rest of the consumer's,
and the local stack. What is left is the gold statements that count and rank
(`events`, `top_pages`, `searches`), over a bag of rows, since they count an event
as often as silver holds it. The sums of `ConsumerProofs` would carry their proofs.

A composition of the hourly jobs on one clock was considered and left out: each
job's promise is stated against whatever the others do (`MartLoad` lets gold
change at any moment, `GoldJob` silver, `Serving` the mart), which is weaker
than any schedule; what a composition would add is freshness in minutes, and the
code has no bound on how long a runner takes.

## 6. Where the code and its documentation disagree

Checked (each a run that TLC refutes):

* **`silver_rerun`.** A second run within the hour deletes the partitions, then
  is handed the first run's finished query: nothing is inserted, and it succeeds.
* **`gold_appends`.** The deletes look for hour partitions that an unpartitioned
  table does not have, so snapshots accumulate (`SnapshotsKept` is the theorem
  that nothing ever takes one away).

Seen while modelling, in the models as the code has it, but without a run:

* A failed publish is a 500 (ingestion routes.py:27), not ARCHITECTURE:239's 503;
  the same for engine failures, which nothing retries (ARCHITECTURE:243, 245).
* refine.sql:41 selects four hours (`trunc(now) - 3 HOURS` and
  later), `run_silver` deletes three partitions: an ordinary scheduled run inserts
  the oldest hour a second time. `CopiesBounded` shows that it stays at two once a
  run of the partition's own hour, or of the two after, has rewritten it, while no
  delete is refused. `events.sql`, `top_pages.sql`, `searches.sql` and
  `hourly_events.sql` use `COUNT(*)` and count such an event twice for the rest of the day, though events.sql:3 reads
  from silver as "clean, deduplicated" and runner.py's docstring says reruns "never
  append duplicate rows"; `dau.sql` and `conversion.sql` count distinct keys.
* The window of refine.sql:39-41 has no upper end, and `Event.partition`
  (models.py:20-26) files a row by the fields of its timestamp: one stamped `+05:30`,
  or by a client whose clock is fast, lies in a partition ahead of the UTC hour.
  Every hourly run inserts it again and no run deletes it before its hour comes: there
  it is held once for each hour it was ahead, with no delete refused, and the same
  statements count each copy, on the day they count it at all.
* `delete_objects` answers which keys it refused and takes a thousand at most;
  runner.py:92 looks at neither. The run then appends where it means to
  overwrite (`uncleared`, `refusals`); the next run that clears the partition
  puts it right.
* A consumer that was down longer than the lookback, within the stream's 24
  hours, writes its events to partitions no silver run looks at again:
  ARCHITECTURE:248's replay recovers bronze only. `LateRowsRefined` has the bound.
* Three hours of silver are missing from every ad-hoc answer of an hour whose
  first query met `run_silver` between its deletes and its INSERT, also after the
  INSERT (`GapsEndWithTheHour` shows that it ends with the hour).
* `dau_trend.sql` goes back `days` days from this moment, so that the oldest date of
  the trend is a part of a day presented like the others (`TrendIsWhole`).
* `TRUNCATE` commits before `COPY`; a `COPY` that fails leaves the table empty, not
  at its previous snapshot as ARCHITECTURE:244 says.
* A load job that gave up on a `COPY` leaves it running beside the next job's,
  and the table may hold a snapshot twice until a job runs alone
  (ARCHITECTURE:244: "Idempotent"); the same for a job started by hand.
* `DynamoDBCache.get` catches `ClientError`; an unreachable endpoint raises
  `EndpointConnectionError` and the request is a 500 (`CacheUnreachable`), where
  ARCHITECTURE:246 falls through to the engine.
* Two failed silver runs in a row leave a partition no later query covers
  (ARCHITECTURE:242 says the lookback re-covers it): `NothingForgotten` with
  `MaxFailures = 2`.
* refine.sql:33 keeps the earliest row of an id; ARCHITECTURE:88 says latest.
* `DynamoDBCache.get` never looks at ttl: expired items are served until swept.
* Bronze objects are written in place, not through temporary keys
  (ARCHITECTURE:241); load.py:4 speaks of a trigger chained to the gold job,
  scheduler.py has the load run at :15 whatever the runner is doing.
* `Event.partition` uses the timestamp's own offset, `dau.sql` compares with UTC:
  without `InUtcDays`, `DauIsToday` fails. `conversion.sql` compares first purchase
  and first signup, so that a purchase before the signup hides a later one:
  `ConversionSound` is an inclusion.
* The mart holds every snapshot gold ever held, and queries with `LIMIT 1` and no
  order return any of them.
* A failed ad-hoc query is remembered for its hour: Athena returns it for the same
  token, so every later request of that statement fails until the hour turns
  (`AdHoc!PollFailed`). Results are read one page deep.
* A bootstrap stopped between `create_table` and `update_time_to_live` leaves the
  cache without a ttl for good (bootstrap_local.py:4: "Idempotent", :64: "with native
  TTL enabled"): the exception in `BootstrapWhole`.
* A request that meets a location between the local runner's delete and write
  raises, and one that meets a fresh seed there reads an empty metric.
* `DuckDBEngine`'s views are called lazy (duckdb.py:32); DuckDB binds a view when
  it is created. The model has the engine from the start.
* Two overlapping consumer tasks, or one on a closed shard, can move the
  checkpoint back. That is harmless - events are stored again - and the reason
  `AtLeastOnce!Acknowledge` allows it.
* The stacks declare less than the code uses: the consumer's role has S3 actions
  on `bronze/` and `silver/` only, not on `_checkpoints/`, and the runner's task
  definition uses this role, which has no Athena actions, and the consumer's image,
  which holds no `jobs/`. The models take the calls to be permitted.

Disagreements between the repository's parts that lie below the models:

* refine.sql uses syntax of DuckDB (`make_timestamp`, `::BIGINT`, `INTERVAL 3 HOURS`)
  that Athena does not accept. The models take the statement to run and to mean there
  what it means in DuckDB.
* load.py:121 asks for `REDSHIFT_IAM_ROLE`, which scheduler.py does not set.
* redshift.py:62 reads `stringValue` only, so that numeric columns are null.

## 7. Not modelled

* Field validation (Pydantic), Parquet and JSON encoding, the shaping of rows in
  the endpoints: conversions of single values, without state.
* The gold statements that count and rank: as above, section 5.
* Event generation in the load generator: independent random draws.
* Permissions, container images, CDK and the deployment workflow: declarations;
  what they decide about behaviour (one shard, its retention, rolling
  deployments, the schedules) is in the models.
* The dashboard: five independent fetches, no state that outlives a page load.
* More than one shard: the code reads the first of `list_shards`, the stack
  declares one, and resharding is only the closing of that shard.
* A request cancelled while its DuckDB query runs in a worker thread: nothing in
  the service cancels a handler before the process ends.
* Kinesis iterators that expire are crashes, and so is a record that raises what
  `read_batch` does not catch (bytes that are not UTF-8). The code's restarted task
  would meet that record again, the model's reads on: `Delivery` takes such records
  not to be on the stream, where the ingestion API puts only JSON it has encoded.
* FastAPI's own 422 for a request whose body is not an object: it never reaches
  `ingest_event`.
