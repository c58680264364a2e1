------------------------------ MODULE GoldJob ------------------------------
(***************************************************************************)
(* The gold half of jobs/runner.py: for each metric, in the order of the   *)
(* file names, delete objects under gold/<metric>/ and insert what the     *)
(* metric's statement computes from silver.  A failed statement ends the   *)
(* run.  The tables are not partitioned: an INSERT adds an object right    *)
(* under gold/<metric>/, and what the runner deletes are hour partitions   *)
(* below it.                                                               *)
(*                                                                         *)
(* The content of silver is a version number; a snapshot of a metric       *)
(* remembers the token of its query and the version it was computed from.  *)
(***************************************************************************)
EXTENDS Integers, Sequences, FiniteSets

CONSTANTS
    Metrics,        \* the stems of gold/*.sql, in order
    MaxHour,        \* bound: the last hour
    MaxVersion,     \* bound: versions of silver
    MaxLaunches     \* bound: runs launched in an hour

ASSUME MetricsAssumption ==
    /\ Metrics \in Seq(STRING) /\ Metrics # <<>>
    /\ \A i, j \in DOMAIN Metrics : Metrics[i] = Metrics[j] => i = j
ASSUME BoundsAssumption == MaxHour \in Nat /\ MaxVersion \in Nat /\ MaxLaunches \in Nat

VARIABLES
    hour,           \* the current UTC hour
    silver,         \* the version of silver
    gold,           \* per metric: the snapshots under gold/<metric>/
    query,          \* per metric and token: the state of Athena's query
    launches,       \* runs launched in this hour
    (* the runner *)
    pc,             \* "idle", "clear", "submit" or "poll"
    launched,       \* the hour the run was launched in
    at,             \* index of the metric it is at
    waiting         \* the token of the query it polls

runner == <<pc, launched, at, waiting>>
vars == <<hour, silver, gold, query, launches, runner>>

Hours == 0..MaxHour
MetricSet == {Metrics[i] : i \in DOMAIN Metrics}
(* a token's hour, and what else may tell submissions of the hour apart *)
Tokens == Hours \X (0..MaxLaunches)
Unpartitioned == -3
Partitions == -2..MaxHour
Snapshots == [token : Tokens, silver : 0..MaxVersion, part : Partitions \cup {Unpartitioned}]

-----------------------------------------------------------------------------
(* Mistakes the code could have made; each takes the place of the operator *)
(* it names to show which property notices.                                *)

(* for Token *)
TokenOfLaunch(h) == <<h, launches>>
TokenOfNextHour(h) == <<h + 1, 0>>

(* for Succeeded *)
Terminal(state) == state \in {"succeeded", "failed"}

-----------------------------------------------------------------------------
(* run_athena_query's ClientRequestToken; the statement is the metric's. *)
Token(h) == <<h, 0>>

Succeeded(state) == state = "succeeded"

(* delete_partition(gold/<metric>, p) for the last three hours *)
Deletable(snapshot) == snapshot.part \in launched - 2 .. launched

Init ==
    /\ hour = 0 /\ silver = 0 /\ launches = 0
    /\ gold = [m \in MetricSet |-> {}]
    /\ query = [m \in MetricSet |-> [k \in Tokens |-> "none"]]
    /\ pc = "idle" /\ launched = 0 /\ at = 1 /\ waiting = <<0, 0>>

(* A silver job changes silver. *)
RefreshSilver ==
    /\ silver < MaxVersion
    /\ silver' = silver + 1
    /\ UNCHANGED <<hour, gold, query, launches, runner>>

(* The hour turns; a run and its queries end within the next hour. *)
Tick ==
    /\ hour < MaxHour
    /\ pc # "idle" => launched = hour
    /\ \A m \in MetricSet, k \in Tokens : query[m][k] = "running" => k[1] = hour
    /\ hour' = hour + 1
    /\ launches' = 0
    /\ UNCHANGED <<silver, gold, query, runner>>

(* Athena inserts an object computed from the silver of this moment. *)
RunQuery(m, k) ==
    /\ query[m][k] = "running"
    /\ query' = [query EXCEPT ![m][k] = "succeeded"]
    /\ gold' = [gold EXCEPT ![m] =
           @ \cup {[token |-> k, silver |-> silver, part |-> Unpartitioned]}]
    /\ UNCHANGED <<hour, silver, launches, runner>>

FailQuery(m, k) ==
    /\ query[m][k] = "running"
    /\ query' = [query EXCEPT ![m][k] = "failed"]
    /\ UNCHANGED <<hour, silver, gold, launches, runner>>

(* run_gold begins: run_silver has returned. *)
Launch ==
    /\ pc = "idle" /\ launches < MaxLaunches
    /\ launches' = launches + 1
    /\ pc' = "clear" /\ launched' = hour /\ at' = 1
    /\ UNCHANGED <<hour, silver, gold, query, waiting>>

Clear ==
    /\ pc = "clear"
    /\ gold' = [gold EXCEPT ![Metrics[at]] = {s \in @ : ~Deletable(s)}]
    /\ pc' = "submit"
    /\ UNCHANGED <<hour, silver, query, launches, launched, at, waiting>>

Submit ==
    /\ pc = "submit"
    /\ waiting' = Token(hour)
    /\ query' = [query EXCEPT ![Metrics[at]][Token(hour)] = IF @ = "none" THEN "running" ELSE @]
    /\ pc' = "poll"
    /\ UNCHANGED <<hour, silver, gold, launches, launched, at>>

(* _poll returns SUCCEEDED: the next metric, or the end of the run. *)
PollSucceeded ==
    /\ pc = "poll" /\ Succeeded(query[Metrics[at]][waiting])
    /\ IF at < Len(Metrics)
       THEN pc' = "clear" /\ at' = at + 1
       ELSE pc' = "idle" /\ UNCHANGED at
    /\ UNCHANGED <<hour, silver, gold, query, launches, launched, waiting>>

(* The run ends early: the query failed, MAX_WAIT_SECONDS passed while it  *)
(* was running, another call raised, or the container was stopped.         *)
Abort ==
    /\ pc # "idle"
    /\ pc' = "idle"
    /\ UNCHANGED <<hour, silver, gold, query, launches, launched, at, waiting>>

Next ==
    \/ RefreshSilver
    \/ Tick
    \/ \E m \in MetricSet, k \in Tokens : RunQuery(m, k) \/ FailQuery(m, k)
    \/ Launch \/ Clear \/ Submit \/ PollSucceeded \/ Abort

Spec == Init /\ [][Next]_vars

-----------------------------------------------------------------------------
(* Properties *)

(* Every variable has its type, and a polled token belongs to the hour a   *)
(* run was in, never to one still to come.                                 *)
TypeOK ==
    /\ hour \in Hours /\ silver \in 0..MaxVersion /\ launches \in 0..MaxLaunches
    /\ gold \in [MetricSet -> SUBSET Snapshots]
    /\ query \in [MetricSet -> [Tokens -> {"none", "running", "succeeded", "failed"}]]
    /\ pc \in {"idle", "clear", "submit", "poll"}
    /\ launched \in 0..hour
    /\ at \in DOMAIN Metrics
    /\ waiting \in Tokens /\ waiting[1] <= hour

(* The hours metric m has a snapshot of. *)
Written(m) == {s.token[1] : s \in gold[m]}

(* However often the runner is started within an hour, and whatever it     *)
(* timed out on or crashed in, a metric gets at most one snapshot an hour  *)
(* (run_athena_query: "instead of submitting a duplicate query").          *)
OneSnapshotAnHour ==
    \A m \in MetricSet : \A s, u \in gold[m] : s.token[1] = u.token[1] => s = u

(* A run gets past a metric only once a snapshot of it from the run's hour *)
(* or the next is there, even when a failed or slow query of an earlier    *)
(* run holds the token: no metric is skipped over.                         *)
RefreshedInOrder ==
    pc # "idle" => \A i \in 1..at - 1 : Written(Metrics[i]) \cap {launched, launched + 1} # {}

(* A reader of gold never loses a snapshot it could find: no run is caught *)
(* between its delete and its INSERT, whatever fails or is given up there. *)
SnapshotsKept == [][\A m \in MetricSet : gold[m] \subseteq gold'[m]]_gold

(* gold/dau.sql: "Overwrites gold/dau/ each run (runner deletes target     *)
(* before INSERT)".                                                        *)
GoldOverwritten == \A m \in MetricSet : Cardinality(gold[m]) <= 1
=============================================================================
