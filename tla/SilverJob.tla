----------------------------- MODULE SilverJob -----------------------------
(***************************************************************************)
(* The silver half of jobs/runner.py: delete the silver partitions of the  *)
(* last three hours, submit silver/refine.sql to Athena under a token made *)
(* of the statement and the hour, poll it.  The query inserts what it      *)
(* selects from bronze beside whatever silver holds by then.               *)
(*                                                                         *)
(* Hours are numbered from the platform's first.  A bronze row is an event *)
(* id, the hour its timestamp names (its partition) and whether it passes  *)
(* refine.sql's WHERE; equal rows are one, since the query keeps a single  *)
(* row per id.  A silver row remembers the query that wrote it: rows of    *)
(* one query and partition are one object.  The text of refine.sql never   *)
(* changes, so its token is the hour of submission, and so is the query.   *)
(***************************************************************************)
EXTENDS Integers, Sequences, FiniteSets

CONSTANTS
    Ids,            \* event ids
    Runners,        \* runner containers that may exist at a time
    MaxHour,        \* bound: the last hour
    MaxRows,        \* bound: distinct bronze rows
    MaxLate,        \* bound: how many hours late a row may land
    MaxEarly,       \* bound: how many hours ahead of the clock a row may be
    MaxFailures,    \* bound: runs in a row that may fail
    MaxRefused,     \* bound: objects S3 refuses to delete
    OnSchedule      \* only the hourly rule starts runs, none lasts an hour

ASSUME BoundsAssumption ==
    /\ MaxHour \in Nat /\ MaxRows \in Nat /\ MaxLate \in Nat /\ MaxEarly \in Nat
    /\ MaxFailures \in Nat /\ MaxRefused \in Nat /\ OnSchedule \in BOOLEAN

VARIABLES
    hour,           \* the current UTC hour
    bronze,         \* rows the consumer has written
    silver,         \* rows in the silver objects
    query,          \* Athena's query per token: "none", "running", ...
    launches,       \* runs launched in this hour
    attempts,       \* runs launched since the last that succeeded
    refined,        \* history: ids silver held after some successful run
    refusals,       \* history: objects S3 has refused to delete
    (* each runner *)
    pc,
    launched,       \* the hour its partitions were computed in
    todo,           \* partitions still to clear
    listed,         \* the rows of the objects it has listed
    waiting,        \* the query it polls
    uncleared       \* history: partitions it could not clear whole

lake == <<bronze, silver>>
history == <<launches, attempts, refined, refusals>>
run == <<pc, launched, todo, listed, waiting, uncleared>>
vars == <<hour, lake, query, history, run>>

Hours == 0..MaxHour
Rows == [id : Ids, hour : Hours, valid : BOOLEAN]
SilverRows == [query : Hours, id : Ids, part : Hours]
SilverIds == {s.id : s \in silver}

(* bound: the rule starts one run an hour; an operator may start another *)
LaunchesPerHour == IF OnSchedule THEN 1 ELSE 2

-----------------------------------------------------------------------------
(* Mistakes the code could have made; each takes the place of the operator *)
(* it names to show which property notices.                                *)

(* for LookbackPartitions *)
TwoPartitions(h) == <<h, h - 1>>
CurrentPartition(h) == <<h>>
FivePartitions(h) == <<h, h - 1, h - 2, h - 3, h - 4>>
NextPartitions(h) == <<h + 1, h, h - 1>>

(* for InWindow *)
ThreePartitions(r) == r.valid /\ r.hour >= hour - 2

(* for Deduped *)
NotDeduped(rows) == rows

-----------------------------------------------------------------------------
(* runner.lookback_partitions(hours=3) *)
LookbackPartitions(h) == <<h, h - 1, h - 2>>

(* refine.sql, inner SELECT: the hour is at least trunc(now) - 3 HOURS,    *)
(* no field is empty and the type is known.                                *)
InWindow(r) == r.valid /\ r.hour >= hour - 3

(* refine.sql: ROW_NUMBER per event_id ORDER BY timestamp ASC, rn = 1 *)
Deduped(rows) == {r \in rows : \A s \in rows : s.id = r.id => r.hour <= s.hour}

Selected == Deduped({r \in bronze : InWindow(r)})

Init ==
    /\ hour = 0 /\ bronze = {} /\ silver = {}
    /\ query = [q \in Hours |-> "none"]
    /\ launches = 0 /\ attempts = 0 /\ refined = {} /\ refusals = 0
    /\ pc = [r \in Runners |-> "idle"]
    /\ launched = [r \in Runners |-> 0]
    /\ todo = [r \in Runners |-> <<>>]
    /\ listed = [r \in Runners |-> {}]
    /\ waiting = [r \in Runners |-> 0]
    /\ uncleared = [r \in Runners |-> {}]

(* A row reaches bronze in the hour its timestamp names, or later.  Its    *)
(* partition is the hour in the timestamp's own offset, of its client's    *)
(* clock: it may also be ahead of the UTC hour.                            *)
Land ==
    /\ Cardinality(bronze) < MaxRows
    /\ \E r \in Rows \ bronze :
        /\ r.hour \in hour - MaxLate .. hour + MaxEarly
        /\ bronze' = bronze \cup {r}
    /\ UNCHANGED <<hour, silver, query, history, run>>

(* The hour turns.  Polling ends after MAX_WAIT_SECONDS and Athena stops a *)
(* query after half an hour: neither outlives the hour after its start.    *)
(* On schedule every run starts at minute 0 and both end within the hour.  *)
Tick ==
    /\ hour < MaxHour
    /\ \A r \in Runners : pc[r] # "idle" => launched[r] = hour /\ ~OnSchedule
    /\ \A q \in Hours : query[q] = "running" => q = hour /\ ~OnSchedule
    /\ OnSchedule => launches = LaunchesPerHour
    /\ hour' = hour + 1
    /\ launches' = 0
    /\ UNCHANGED <<lake, query, attempts, refined, refusals, run>>

-----------------------------------------------------------------------------
(* Athena *)

(* A submitted query reads bronze and now() and inserts what it selects. *)
RunQuery(q) ==
    /\ query[q] = "running"
    /\ query' = [query EXCEPT ![q] = "succeeded"]
    /\ silver' = silver \cup {[query |-> q, id |-> r.id, part |-> r.hour] : r \in Selected}
    /\ UNCHANGED <<hour, bronze, history, run>>

MayFail == attempts <= MaxFailures

FailQuery(q) ==
    /\ query[q] = "running" /\ MayFail
    /\ query' = [query EXCEPT ![q] = "failed"]
    /\ UNCHANGED <<hour, lake, history, run>>

-----------------------------------------------------------------------------
(* run_silver *)

(* EventBridge's rule at minute 0, or an operator. *)
Launch(r) ==
    /\ pc[r] = "idle"
    /\ launches < LaunchesPerHour
    /\ launches' = launches + 1
    /\ attempts' = IF attempts > MaxFailures THEN attempts ELSE attempts + 1
    /\ pc' = [pc EXCEPT ![r] = "clear"]
    /\ launched' = [launched EXCEPT ![r] = hour]
    /\ todo' = [todo EXCEPT ![r] = LookbackPartitions(hour)]
    /\ uncleared' = [uncleared EXCEPT ![r] = {}]
    /\ UNCHANGED <<hour, lake, query, refined, refusals, listed, waiting>>

(* delete_partition: list the objects; when there are none, return. *)
ListPartition(r) ==
    /\ pc[r] = "clear" /\ todo[r] # <<>>
    /\ LET found == {s \in silver : s.part = Head(todo[r])}
       IN  IF found = {}
           THEN /\ todo' = [todo EXCEPT ![r] = Tail(todo[r])]
                /\ UNCHANGED <<pc, listed>>
           ELSE /\ listed' = [listed EXCEPT ![r] = found]
                /\ pc' = [pc EXCEPT ![r] = "delete"]
                /\ UNCHANGED todo
    /\ UNCHANGED <<hour, lake, query, history, launched, waiting, uncleared>>

(* delete_partition: delete the listed objects.  The response names those  *)
(* S3 refused to delete, and nobody reads it.                              *)
DeleteListed(r) ==
    /\ pc[r] = "delete"
    /\ \E refused \in SUBSET {s.query : s \in listed[r]} :
        /\ refusals + Cardinality(refused) <= MaxRefused
        /\ refusals' = refusals + Cardinality(refused)
        /\ silver' = silver \ {s \in listed[r] : s.query \notin refused}
        /\ uncleared' = [uncleared EXCEPT ![r] =
                            @ \cup {s.part : s \in {t \in listed[r] : t.query \in refused}}]
    /\ todo' = [todo EXCEPT ![r] = Tail(todo[r])]
    /\ listed' = [listed EXCEPT ![r] = {}]
    /\ pc' = [pc EXCEPT ![r] = "clear"]
    /\ UNCHANGED <<hour, bronze, query, launches, attempts, refined, launched, waiting>>

(* run_athena_query: a token used before returns the query it started. *)
Submit(r) ==
    /\ pc[r] = "clear" /\ todo[r] = <<>>
    /\ query' = [query EXCEPT ![hour] = IF @ = "none" THEN "running" ELSE @]
    /\ waiting' = [waiting EXCEPT ![r] = hour]
    /\ pc' = [pc EXCEPT ![r] = "poll"]
    /\ UNCHANGED <<hour, lake, history, launched, todo, listed, uncleared>>

(* _poll returns SUCCEEDED: run_silver is done. *)
PollSucceeded(r) ==
    /\ pc[r] = "poll" /\ query[waiting[r]] = "succeeded"
    /\ pc' = [pc EXCEPT ![r] = "refined"]
    /\ attempts' = 0
    /\ refined' = refined \cup SilverIds
    /\ UNCHANGED <<hour, lake, query, launches, refusals, launched, todo, listed, waiting, uncleared>>

(* The run ends: _poll returns FAILED and run_athena_query raises.         *)
PollFailed(r) ==
    /\ pc[r] = "poll" /\ query[waiting[r]] = "failed"
    /\ pc' = [pc EXCEPT ![r] = "idle"]
    /\ UNCHANGED <<hour, lake, query, history, launched, todo, listed, waiting, uncleared>>

(* The run ends: the query is still running after MAX_WAIT_SECONDS. *)
PollTimeout(r) ==
    /\ pc[r] = "poll" /\ query[waiting[r]] = "running" /\ MayFail
    /\ pc' = [pc EXCEPT ![r] = "idle"]
    /\ UNCHANGED <<hour, lake, query, history, launched, todo, listed, waiting, uncleared>>

(* The run ends: a call raises, or the container is stopped. *)
Crash(r) ==
    /\ pc[r] \in {"clear", "delete", "poll"} /\ MayFail
    /\ pc' = [pc EXCEPT ![r] = "idle"]
    /\ todo' = [todo EXCEPT ![r] = <<>>]
    /\ listed' = [listed EXCEPT ![r] = {}]
    /\ UNCHANGED <<hour, lake, query, history, launched, waiting, uncleared>>

(* run goes on to run_gold. *)
Finish(r) ==
    /\ pc[r] = "refined"
    /\ pc' = [pc EXCEPT ![r] = "idle"]
    /\ UNCHANGED <<hour, lake, query, history, launched, todo, listed, waiting, uncleared>>

Progress(r) ==
    \/ Launch(r) \/ ListPartition(r) \/ DeleteListed(r) \/ Submit(r)
    \/ PollSucceeded(r) \/ PollFailed(r) \/ Finish(r)

Next ==
    \/ Land
    \/ Tick
    \/ \E q \in Hours : RunQuery(q) \/ FailQuery(q)
    \/ \E r \in Runners : Progress(r) \/ PollTimeout(r) \/ Crash(r)

Spec == Init /\ [][Next]_vars

(* Hours pass, the rule starts its runs, and runs and queries end. *)
FairSpec ==
    /\ Spec
    /\ WF_vars(Tick)
    /\ \A q \in Hours : WF_vars(RunQuery(q))
    /\ \A r \in Runners : WF_vars(Progress(r))

-----------------------------------------------------------------------------
(* Properties *)

(* Every variable has its type; the runs only touch partitions up to the   *)
(* hour they are launched in.                                              *)
TypeOK ==
    /\ hour \in Hours
    /\ bronze \in SUBSET Rows
    /\ silver \in SUBSET SilverRows
    /\ query \in [Hours -> {"none", "running", "succeeded", "failed"}]
    /\ launches \in 0..LaunchesPerHour /\ attempts \in 0..MaxFailures + 1
    /\ refined \in SUBSET Ids /\ refusals \in 0..MaxRefused
    /\ pc \in [Runners -> {"idle", "clear", "delete", "poll", "refined"}]
    /\ launched \in [Runners -> Hours]
    /\ \A r \in Runners : \A i \in DOMAIN todo[r] : todo[r][i] \in -2..launched[r]
    /\ listed \in [Runners -> SUBSET SilverRows]
    /\ waiting \in [Runners -> Hours]
    /\ uncleared \in [Runners -> SUBSET Hours]

(* Nothing silver ever held is missing after a run succeeds: what a run    *)
(* deletes it restores, and what one failed run deleted the next restores, *)
(* because the query's window is wider than the partitions deleted.        *)
NothingForgotten == \A r \in Runners : pc[r] = "refined" => refined \subseteq SilverIds

(* After a successful run, the partitions it looked back on hold no event  *)
(* twice, not even in two of them (delete_partition: "so the write is an   *)
(* overwrite, not an append"), save those where S3 refused this very run   *)
(* an object: what a run before could not delete, and doubled, is gone.    *)
LookbackUnique ==
    \A r \in Runners : pc[r] = "refined" =>
        LET cleared == (launched[r] - 2 .. launched[r]) \ uncleared[r]
        IN  \A id \in Ids :
                Cardinality({s \in silver : s.id = id /\ s.part \in cleared}) <= 1

(* What remains of append.  Of a partition that a run of its hour or of    *)
(* the two after has cleared and written, silver holds an event twice at   *)
(* most, and once more for each object S3 refused to delete: the hour      *)
(* after those is still in the query's window, but not deleted.  Before a  *)
(* run clears it, the partition has a copy from each query of the hours it *)
(* was ahead of, which the window, without an end, selects; and then one.  *)
CopiesBounded ==
    \A id \in Ids, p \in Hours :
        Cardinality({s \in silver : s.id = id /\ s.part = p}) <=
            IF \E s \in silver : s.part = p /\ s.query \in p..p + 2
            THEN 2 + refusals ELSE MaxEarly + 1

(* A valid row that lands late - even just after the run of that hour - is *)
(* refined: the window leaves it as many more runs as may fail in a row,   *)
(* and one, when MaxLate + MaxFailures <= 2.  (Rows of the last hours are  *)
(* left out: bounded time ends before their last run.)                     *)
LateRowsRefined ==
    \A r \in Rows : r.valid /\ r.hour + 3 <= MaxHour =>
        (r \in bronze ~> r.id \in SilverIds)

(* jobs/runner.py: "Both jobs are idempotent - deleting first means reruns *)
(* produce identical output": a run that succeeds after another leaves     *)
(* what the other left.                                                    *)
RerunRestores == NothingForgotten
=============================================================================
