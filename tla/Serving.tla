------------------------------ MODULE Serving ------------------------------
(***************************************************************************)
(* The metrics endpoints of the analytics API: cache-aside reads of one    *)
(* metric (one cache key) through DynamoDBCache and RedshiftEngine, while  *)
(* the load job empties and refills the mart table the engine reads.       *)
(*                                                                         *)
(* A request is one asyncio task; its steps are separated by the awaited   *)
(* calls.  The rows of a metric are the version of the snapshot they come  *)
(* from, or NoRows.                                                        *)
(***************************************************************************)
EXTENDS Integers

CONSTANTS
    Requests,       \* the requests that may be in flight together
    MaxVersion      \* bound: snapshots loaded into the mart

ASSUME BoundsAssumption == MaxVersion \in Nat

VARIABLES
    mart,           \* rows of the mart table: a version, or NoRows
    version,        \* the newest snapshot loaded
    item,           \* the cache item: its rows, and whether its ttl has passed
    (* each request *)
    pc,             \* "idle", "get", "submit", "run", "fetch", "set", "done"
    rows,           \* the result of its statement
    answer,         \* what it answered
    seen            \* history: what the table held while it was in flight

request == <<pc, rows, answer, seen>>
vars == <<mart, version, item, request>>

NoRows == 0
Missing == -1
(* the answer when _fetch raises: a 500 *)
Error == -2
NoItem == [rows |-> Missing, expired |-> FALSE]
InFlight(r) == pc[r] \notin {"idle", "done"}

(* What the request answers; it then ends. *)
Answers(r, result) ==
    /\ answer' = [answer EXCEPT ![r] = result]
    /\ pc' = [pc EXCEPT ![r] = "done"]

GoesTo(r, step) ==
    /\ pc' = [pc EXCEPT ![r] = step]
    /\ UNCHANGED answer

(* Requests in flight see the table change. *)
MartBecomes(value) ==
    /\ mart' = value
    /\ seen' = [r \in Requests |-> IF InFlight(r) THEN seen[r] \cup {value} ELSE seen[r]]

-----------------------------------------------------------------------------
(* Mistakes the code could have made; each takes the place of the operator *)
(* it names to show which property notices.                                *)

(* for Cacheable *)
CacheEverything(result) == TRUE

(* for AfterEngineError *)
AnswersOldRows(r) == Answers(r, rows[r])

(* for Expires *)
WithoutTtl == FALSE

(* for HasDeadline *)
PollForever == FALSE

-----------------------------------------------------------------------------
(* _fetch: "never cache empty results" *)
Cacheable(result) == result # NoRows

(* DynamoDBCache.set: the value and a ttl *)
ItemOf(result) == [rows |-> result, expired |-> FALSE]
Expires == TRUE

(* RedshiftEngine._poll: MAX_WAIT_SECONDS *)
HasDeadline == TRUE

(* RedshiftEngine.run: an exception is not caught; the request is a 500. *)
AfterEngineError(r) == Answers(r, Error)

Init ==
    /\ mart = NoRows /\ version = 0 /\ item = NoItem
    /\ pc = [r \in Requests |-> "idle"]
    /\ rows = [r \in Requests |-> NoRows]
    /\ answer = [r \in Requests |-> NoRows]
    /\ seen = [r \in Requests |-> {}]

-----------------------------------------------------------------------------
(* The mart table and the cache item *)

(* load_metric's TRUNCATE *)
Truncate ==
    /\ mart # NoRows /\ version < MaxVersion
    /\ MartBecomes(NoRows)
    /\ UNCHANGED <<version, item, pc, rows, answer>>

(* load_metric's COPY of a new snapshot *)
Copy ==
    /\ mart = NoRows /\ version < MaxVersion
    /\ version' = version + 1
    /\ MartBecomes(version + 1)
    /\ UNCHANGED <<item, pc, rows, answer>>

(* The item's ttl passes. *)
TtlPasses ==
    /\ item # NoItem /\ Expires /\ ~item.expired
    /\ item' = [item EXCEPT !.expired = TRUE]
    /\ UNCHANGED <<mart, version, request>>

(* DynamoDB deletes an item some time after its ttl has passed. *)
Sweep ==
    /\ item.expired
    /\ item' = NoItem
    /\ UNCHANGED <<mart, version, request>>

-----------------------------------------------------------------------------
(* MetricsService._fetch *)

Arrive(r) ==
    /\ ~InFlight(r)
    /\ GoesTo(r, "get")
    /\ seen' = [seen EXCEPT ![r] = {mart}]
    /\ UNCHANGED <<mart, version, item, rows>>

CacheGet(r) ==
    /\ pc[r] = "get"
    /\ IF item # NoItem THEN Answers(r, item.rows) ELSE GoesTo(r, "submit")
    /\ UNCHANGED <<mart, version, item, rows, seen>>

(* get_item raises a ClientError: a miss. *)
CacheGetFails(r) ==
    /\ pc[r] = "get"
    /\ GoesTo(r, "submit")
    /\ UNCHANGED <<mart, version, item, rows, seen>>

(* get_item raises what is no ClientError: the endpoint is unreachable. *)
CacheUnreachable(r) ==
    /\ pc[r] = "get"
    /\ Answers(r, Error)
    /\ UNCHANGED <<mart, version, item, rows, seen>>

(* RedshiftEngine._submit *)
Submit(r) ==
    /\ pc[r] = "submit"
    /\ GoesTo(r, "run")
    /\ UNCHANGED <<mart, version, item, rows, seen>>

(* The statement reads the table and is FINISHED. *)
Execute(r) ==
    /\ pc[r] = "run"
    /\ rows' = [rows EXCEPT ![r] = mart]
    /\ GoesTo(r, "fetch")
    /\ UNCHANGED <<mart, version, item, seen>>

(* A call to the Data API raises, or the statement FAILED. *)
EngineFails(r) ==
    /\ pc[r] \in {"submit", "run", "fetch"}
    /\ AfterEngineError(r)
    /\ UNCHANGED <<mart, version, item, rows, seen>>

(* _poll gives up on the statement. *)
Deadline(r) ==
    /\ pc[r] = "run" /\ HasDeadline
    /\ AfterEngineError(r)
    /\ UNCHANGED <<mart, version, item, rows, seen>>

(* RedshiftEngine._fetch_results *)
Fetch(r) ==
    /\ pc[r] = "fetch"
    /\ IF Cacheable(rows[r]) THEN GoesTo(r, "set") ELSE Answers(r, rows[r])
    /\ UNCHANGED <<mart, version, item, rows, seen>>

(* DynamoDBCache.set, whose every exception _fetch catches *)
CacheSet(r) ==
    /\ pc[r] = "set"
    /\ item' = ItemOf(rows[r]) \/ UNCHANGED item
    /\ Answers(r, rows[r])
    /\ UNCHANGED <<mart, version, rows, seen>>

Next ==
    \/ Truncate \/ Copy \/ TtlPasses \/ Sweep
    \/ \E r \in Requests :
        \/ Arrive(r) \/ CacheGet(r) \/ CacheGetFails(r) \/ CacheUnreachable(r)
        \/ Submit(r) \/ Execute(r)
        \/ EngineFails(r) \/ Deadline(r) \/ Fetch(r) \/ CacheSet(r)

Spec == Init /\ [][Next]_vars

(* Awaited calls return or raise and time passes; Redshift need not ever   *)
(* run a statement, and nobody need ask for the metric.                    *)
FairSpec ==
    /\ Spec
    /\ WF_vars(TtlPasses) /\ WF_vars(Sweep)
    /\ \A r \in Requests :
        /\ WF_vars(CacheGet(r)) /\ WF_vars(Submit(r)) /\ WF_vars(Deadline(r))
        /\ WF_vars(Fetch(r)) /\ WF_vars(CacheSet(r))

-----------------------------------------------------------------------------
(* Properties *)

(* Every variable has its type; a cached or answered version was loaded,   *)
(* and no empty result is in the cache or on its way there.                *)
TypeOK ==
    /\ version \in 0..MaxVersion /\ mart \in {NoRows, version}
    /\ item = NoItem \/ item \in [rows : 1..version, expired : BOOLEAN]
    /\ pc \in [Requests -> {"idle", "get", "submit", "run", "fetch", "set", "done"}]
    /\ rows \in [Requests -> 0..version]
    /\ \A r \in Requests : pc[r] = "set" => rows[r] # NoRows
    /\ answer \in [Requests -> Error..version]
    /\ seen \in [Requests -> SUBSET (0..version)]

(* The moment between TRUNCATE and COPY does not outlive itself: a request *)
(* answers with no rows only if the table was empty while it was in        *)
(* flight, never because an earlier request met the empty table.           *)
EmptyOnlyWhileEmpty ==
    \A r \in Requests : pc[r] = "done" /\ answer[r] = NoRows => NoRows \in seen[r]

(* Every request is answered, though Redshift may never run its statement. *)
Answered == \A r \in Requests : InFlight(r) ~> pc[r] = "done"

(* Once the newest snapshot stays in the table, the cache forgets the      *)
(* older ones for good - those a slow request puts back as well.           *)
CacheCatchesUp ==
    mart = MaxVersion ~> [](item.rows \in {Missing, MaxVersion})

(* Where a request is, for what it promises. *)
Phase(step) ==
    IF step \in {"idle", "done"} THEN "idle"
    ELSE IF step \in {"fetch", "set"} THEN "read" ELSE "asked"

(* The endpoints implement read-through: however requests, loads, expiries *)
(* and failures interleave, an answer is one state of the table during the *)
(* request or a stored one, and only non-empty answers are stored.         *)
Promise == INSTANCE ReadThrough WITH
    Readers <- Requests,
    Results <- 0..MaxVersion,
    Nothing <- Missing,
    Failure <- Error,
    table <- mart,
    stored <- item.rows,
    at <- [r \in Requests |-> Phase(pc[r])],
    read <- rows

ServesReadThrough == Promise!Spec
=============================================================================
