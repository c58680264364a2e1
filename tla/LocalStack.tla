----------------------------- MODULE LocalStack -----------------------------
(***************************************************************************)
(* The local environment: bootstrap_local.py creates the resources and     *)
(* seeds every table's location with an empty object, runner_local.py      *)
(* refreshes silver and gold, and the analytics API (env "local") queries  *)
(* the gold objects through DuckDBEngine's one connection and its lock.    *)
(*                                                                         *)
(* The scripts are started by hand, again and again, and may be stopped    *)
(* anywhere.  The rows of an object are a version of bronze.  Silver's     *)
(* partitions of the last hours are one object; older ones do not change.  *)
(***************************************************************************)
EXTENDS Integers, Sequences, SequencesExt

CONSTANTS
    Metrics,        \* gold metrics, in order
    Requests,       \* requests that may be in flight together
    MaxVersion,     \* bound: versions of bronze
    MaxStops        \* bound: times a script is stopped

ASSUME MetricsAssumption ==
    /\ Metrics \in Seq(STRING \ {"bronze", "silver"}) /\ Metrics # <<>>
    /\ \A i, j \in DOMAIN Metrics : Metrics[i] = Metrics[j] => i = j
ASSUME BoundsAssumption == MaxVersion \in Nat /\ MaxStops \in Nat

VARIABLES
    created,        \* what the bootstrap has created: resources and tables
    objects,        \* names of the objects at each table's location
    content,        \* the rows of each location's "data" object
    stops,          \* times a script was stopped
    owed,           \* history: steps a stop came before, after the one they go with
    (* bootstrap_local.py *)
    boot,           \* index of its step, 0 when it does not run
    ready,          \* history: it has been complete once
    (* runner_local.py *)
    at,             \* 0 when it does not run, else index of the location
    phase,          \* index of the phase it is in there
    listed,         \* the names it has listed
    base,           \* history: bronze when it began
    (* DuckDBEngine *)
    queue,          \* the requests waiting for the lock, in order
    holder,         \* the requests whose query holds the lock
    (* each request *)
    pc,             \* "idle", "waiting", "glob" or "read"
    metric,         \* what it asks for
    found           \* the names its query has matched

lake == <<objects, content>>
script == <<created, boot, ready>>
runner == <<at, phase, listed, base>>
engine == <<queue, holder, pc, metric, found>>
halts == <<stops, owed>>
vars == <<script, lake, halts, runner, engine>>

Versions == 0..MaxVersion
MetricSet == ToSet(Metrics)
Tables == <<"bronze", "silver">> \o Metrics
Locations == ToSet(Tables)
(* the locations runner_local.py writes, in order *)
Outputs == <<"silver">> \o Metrics
InFlight(r) == pc[r] # "idle"

-----------------------------------------------------------------------------
(* Mistakes the code could have made; each takes the place of the operator *)
(* it names to show which property notices.                                *)

(* for AfterExisting *)
ExistingEnds(s) == 2 * Len(Tables) + 6

(* for Phases *)
WriteFirst == <<"list", "write", "delete">>

(* for Released *)
KeptOnError(r) == holder

(* for Grants *)
AnyHolder(r) == TRUE

-----------------------------------------------------------------------------
(* bootstrap: its calls in order *)
Step(kind, location) == [kind |-> kind, at |-> location]
Steps ==
    <<Step("stream", ""), Step("bucket", ""), Step("database", "")>>
    \o [i \in DOMAIN Tables |-> Step("table", Tables[i])]
    \o [i \in DOMAIN Tables |-> Step("seed", Tables[i])]
    \o <<Step("cache", ""), Step("ttl", "")>>

(* what a call needs to be there *)
Needs(s) ==
    CASE s.kind = "table" -> {Step("database", "")}
      [] s.kind = "seed" -> {Step("bucket", "")}
      [] s.kind = "ttl" -> {Step("cache", "")}
      [] OTHER -> {}

(* A resource that exists is left, a table updated.  An existing cache     *)
(* table ends create_dynamodb_cache_table, its ttl as it may be.           *)
AfterExisting(s) == IF s.kind = "cache" THEN boot + 2 ELSE boot + 1

(* delete_prefix, which lists and deletes, comes before the COPY.          *)
Phases == <<"list", "delete", "write">>

(* asyncio.Lock: free, and nobody came before *)
Grants(r) == holder = {} /\ Head(queue) = r

(* async with: the lock is released, also when the query raises *)
Released(r) == holder \ {r}

Init ==
    /\ created = {} /\ boot = 0 /\ ready = FALSE /\ stops = 0 /\ owed = {}
    /\ objects = [l \in Locations |-> {}]
    /\ content = [l \in Locations |-> 0]
    /\ at = 0 /\ phase = 1 /\ listed = {} /\ base = 0
    /\ queue = <<>> /\ holder = {}
    /\ pc = [r \in Requests |-> "idle"]
    /\ metric = [r \in Requests |-> Head(Metrics)]
    /\ found = [r \in Requests |-> {}]

(* The consumer adds to bronze. *)
Land ==
    /\ Step("bucket", "") \in created /\ content["bronze"] < MaxVersion
    /\ objects' = [objects EXCEPT !["bronze"] = @ \cup {"data"}]
    /\ content' = [content EXCEPT !["bronze"] = @ + 1]
    /\ UNCHANGED <<script, halts, runner, engine>>

-----------------------------------------------------------------------------
(* bootstrap_local.py *)

BootStart ==
    /\ boot = 0
    /\ boot' = 1
    /\ UNCHANGED <<created, ready, lake, halts, runner, engine>>

GoesTo(next) ==
    /\ boot' = IF next > Len(Steps) THEN 0 ELSE next
    /\ ready' = (ready \/ next > Len(Steps))

Create ==
    /\ boot # 0
    /\ Steps[boot].kind # "seed" /\ Needs(Steps[boot]) \subseteq created
    /\ created' = created \cup {Steps[boot]}
    /\ GoesTo(IF Steps[boot] \in created THEN AfterExisting(Steps[boot]) ELSE boot + 1)
    /\ UNCHANGED <<lake, halts, runner, engine>>

Seed ==
    /\ boot # 0
    /\ Steps[boot].kind = "seed" /\ Needs(Steps[boot]) \subseteq created
    /\ objects' = [objects EXCEPT ![Steps[boot].at] = @ \cup {"seed"}]
    /\ GoesTo(boot + 1)
    /\ UNCHANGED <<created, content, halts, runner, engine>>

BootStops ==
    /\ boot # 0 /\ stops < MaxStops
    /\ boot' = 0 /\ stops' = stops + 1
    /\ owed' = owed \cup {s \in {Steps[boot]} : s.kind = "ttl"}
    /\ UNCHANGED <<created, ready, lake, runner, engine>>

-----------------------------------------------------------------------------
(* runner_local.py *)

(* register_views: bronze has objects in partitions. *)
RunStart ==
    /\ at = 0 /\ "data" \in objects["bronze"]
    /\ at' = 1 /\ phase' = 1 /\ base' = content["bronze"]
    /\ UNCHANGED <<script, lake, halts, listed, engine>>

(* Its objects are deleted, and the COPY is next. *)
Rewriting(l) == at \in DOMAIN Outputs /\ Outputs[at] = l /\ Phases[phase] = "write"

(* The prefixes of silver's partitions do not match its seed. *)
Matches(l) == IF l = "silver" THEN objects[l] \ {"seed"} ELSE objects[l]

List ==
    /\ at \in DOMAIN Outputs /\ Phases[phase] = "list"
    /\ listed' = Matches(Outputs[at])
    /\ phase' = phase + 1
    /\ UNCHANGED <<script, lake, halts, at, base, engine>>

AfterPhase ==
    IF phase < Len(Phases) THEN phase' = phase + 1 /\ UNCHANGED at
    ELSE phase' = 1 /\ at' = at + 1

Delete ==
    /\ at \in DOMAIN Outputs /\ Phases[phase] = "delete"
    /\ objects' = [objects EXCEPT ![Outputs[at]] = @ \ listed]
    /\ listed' = {}
    /\ AfterPhase
    /\ UNCHANGED <<script, content, halts, base, engine>>

(* silver is refined from bronze, and gold computed from silver. *)
Write ==
    /\ at \in DOMAIN Outputs /\ Phases[phase] = "write"
    /\ objects' = [objects EXCEPT ![Outputs[at]] = @ \cup {"data"}]
    /\ content' = [content EXCEPT ![Outputs[at]] =
           content[IF at = 1 THEN "bronze" ELSE "silver"]]
    /\ owed' = owed \ {Step("write", Outputs[at])}
    /\ AfterPhase
    /\ UNCHANGED <<script, stops, listed, base, engine>>

(* "all jobs complete" *)
RunEnds ==
    /\ at > Len(Outputs)
    /\ at' = 0 /\ base' = 0
    /\ UNCHANGED <<script, lake, halts, phase, listed, engine>>

RunStops ==
    /\ at \in DOMAIN Outputs /\ stops < MaxStops
    /\ stops' = stops + 1
    /\ owed' = owed \cup {Step("write", l) : l \in {m \in Locations : Rewriting(m)}}
    /\ at' = 0 /\ phase' = 1 /\ listed' = {} /\ base' = 0
    /\ UNCHANGED <<script, lake, engine>>

-----------------------------------------------------------------------------
(* DuckDBEngine.run *)

Arrive(r) ==
    /\ ~InFlight(r)
    /\ \E m \in MetricSet : metric' = [metric EXCEPT ![r] = m]
    /\ queue' = Append(queue, r)
    /\ pc' = [pc EXCEPT ![r] = "waiting"]
    /\ UNCHANGED <<script, lake, halts, runner, holder, found>>

Acquire(r) ==
    /\ pc[r] = "waiting" /\ Grants(r)
    /\ holder' = holder \cup {r}
    /\ queue' = Tail(queue)
    /\ pc' = [pc EXCEPT ![r] = "glob"]
    /\ UNCHANGED <<script, lake, halts, runner, metric, found>>

(* The request ends, with rows or with what the query raised. *)
Ends(r) ==
    /\ pc' = [pc EXCEPT ![r] = "idle"]
    /\ metric' = [metric EXCEPT ![r] = Head(Metrics)]
    /\ found' = [found EXCEPT ![r] = {}]

(* read_parquet matches 'gold/<metric>/*.parquet'. *)
Glob(r) ==
    /\ pc[r] = "glob" /\ objects[metric[r]] # {}
    /\ found' = [found EXCEPT ![r] = objects[metric[r]]]
    /\ pc' = [pc EXCEPT ![r] = "read"]
    /\ UNCHANGED <<script, lake, halts, runner, queue, holder, metric>>

(* It reads the objects it matched. *)
Read(r) ==
    /\ pc[r] = "read" /\ found[r] \subseteq objects[metric[r]]
    /\ Ends(r)
    /\ holder' = holder \ {r}
    /\ UNCHANGED <<script, lake, halts, runner, queue>>

(* It raises: nothing matches, or an object it matched is gone. *)
Raise(r) ==
    /\ \/ pc[r] = "glob" /\ objects[metric[r]] = {}
       \/ pc[r] = "read" /\ ~(found[r] \subseteq objects[metric[r]])
    /\ Ends(r)
    /\ holder' = Released(r)
    /\ UNCHANGED <<script, lake, halts, runner, queue>>

Query(r) == Glob(r) \/ Read(r) \/ Raise(r)

Next ==
    \/ Land
    \/ BootStart \/ Create \/ Seed \/ BootStops
    \/ RunStart \/ List \/ Delete \/ Write \/ RunEnds \/ RunStops
    \/ \E r \in Requests : Arrive(r) \/ Acquire(r) \/ Query(r)

Spec == Init /\ [][Next]_vars

(* A free lock wakes its first waiter, and a query in the worker thread    *)
(* returns or raises.                                                      *)
FairSpec ==
    /\ Spec
    /\ \A r \in Requests : WF_vars(Acquire(r)) /\ WF_vars(Query(r))

-----------------------------------------------------------------------------
(* Properties *)

(* Every variable has its type, a request in flight waits for the lock or  *)
(* holds it, and no two hold it: "all queries are serialized".             *)
TypeOK ==
    /\ created \subseteq ToSet(Steps) /\ boot \in 0..Len(Steps) /\ ready \in BOOLEAN
    /\ objects \in [Locations -> SUBSET {"seed", "data"}]
    /\ content \in [Locations -> 0..content["bronze"]] /\ content["bronze"] \in Versions
    /\ stops \in 0..MaxStops
    /\ owed \subseteq {Step("ttl", "")} \cup {Step("write", l) : l \in Locations}
    /\ at \in 0..Len(Outputs) + 1 /\ phase \in DOMAIN Phases
    /\ listed \subseteq {"seed", "data"} /\ base \in Versions
    /\ queue \in Seq(Requests)
    /\ \A r \in Requests : InFlight(r) <=> r \in ToSet(queue) \cup holder
    /\ \A r, s \in holder : r = s
    /\ pc \in [Requests -> {"idle", "waiting", "glob", "read"}]
    /\ metric \in [Requests -> MetricSet]
    /\ found \in [Requests -> SUBSET {"seed", "data"}]

(* A complete run leaves gold as a whole: every metric is there, of the    *)
(* silver of this run, however earlier runs were stopped and whatever a    *)
(* bootstrap beside it seeds.                                              *)
RunConsistent ==
    at > Len(Outputs) =>
        \A i \in DOMAIN Outputs :
            /\ "data" \in objects[Outputs[i]]
            /\ content[Outputs[i]] = content["silver"] /\ content["silver"] >= base

(* A bootstrap that has completed, after whatever stops and beside         *)
(* whatever runs, left nothing out - only the cache's ttl, if one was      *)
(* stopped right before it - and from then on no query finds a location    *)
(* without objects, but while the runner is between its delete and its     *)
(* write there, or after it was stopped there.                             *)
BootstrapWhole ==
    ready =>
        /\ \A s \in ToSet(Steps) : s.kind # "seed" => s \in created \cup owed
        /\ \A l \in Locations :
            objects[l] # {} \/ Rewriting(l) \/ Step("write", l) \in owed

(* Every request is answered, also behind others that fail. *)
Served == \A r \in Requests : InFlight(r) ~> ~InFlight(r)
=============================================================================
