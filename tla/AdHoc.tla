------------------------------- MODULE AdHoc -------------------------------
(***************************************************************************)
(* The ad-hoc endpoints of the analytics API: every request runs its       *)
(* statement over silver through AthenaEngine, under a token made of the   *)
(* statement and the hour, and polls for half a minute.  Requests of one   *)
(* hour therefore share one query, with its result or its failure, and     *)
(* there is no cache in front of it.                                       *)
(*                                                                         *)
(* Under the queries runner.run_silver rewrites silver: it deletes the     *)
(* partitions of the last hours and inserts them anew half a minute or so  *)
(* later, or, when its query fails, an hour later.                         *)
(*                                                                         *)
(* One statement is modelled.  Its result is the version of silver that    *)
(* the query read, and whether it missed the partitions just deleted.      *)
(***************************************************************************)
EXTENDS Integers

CONSTANTS
    Requests,       \* the requests that may be in flight together
    MaxHour,        \* bound: the last hour
    MaxVersion      \* bound: versions of silver

ASSUME BoundsAssumption == MaxHour \in Nat /\ MaxVersion \in Nat

VARIABLES
    hour,           \* the current UTC hour
    silver,         \* the version of silver
    cleared,        \* whether its last partitions are deleted, not yet rewritten
    query,          \* Athena's query per token: its state and its result
    (* each request *)
    pc,             \* "idle", "submit", "poll", "fetch", "done"
    waiting,        \* the token of the query it polls
    answer,         \* what it answered
    came,           \* history: the hour it arrived in
    floor,          \* history: silver when that hour began
    (* history *)
    hourStart,      \* silver when this hour began
    lastCleared     \* the last hour in which silver was cleared for a time

lake == <<hour, silver, cleared, hourStart, lastCleared>>
request == <<pc, waiting, answer, came, floor>>
vars == <<lake, query, request>>

Hours == 0..MaxHour
Versions == 0..MaxVersion
Result == [rows : -1..MaxVersion, partial : BOOLEAN]
Query == [state : {"none", "running", "succeeded", "failed"}, result : Result]
Error == [rows |-> -1, partial |-> FALSE]
NoQuery == [state |-> "none", result |-> Error]
InFlight(r) == pc[r] \notin {"idle", "done"}

Answers(r, result) ==
    /\ answer' = [answer EXCEPT ![r] = result]
    /\ pc' = [pc EXCEPT ![r] = "done"]

-----------------------------------------------------------------------------
(* Mistakes the code could have made; each takes the place of the operator *)
(* it names to show which property notices.                                *)

(* for Token *)
TokenOfStatement(h) == 0
TokenOfNextHour(h) == h + 1

(* for HasDeadline *)
PollForever == FALSE

-----------------------------------------------------------------------------
(* AthenaEngine._submit's ClientRequestToken *)
Token(h) == h

(* AthenaEngine._poll: MAX_WAIT_SECONDS *)
HasDeadline == TRUE

Init ==
    /\ hour = 0 /\ silver = 0 /\ hourStart = 0
    /\ cleared = FALSE /\ lastCleared = 0
    /\ query = [h \in Hours |-> NoQuery]
    /\ pc = [r \in Requests |-> "idle"]
    /\ waiting = [r \in Requests |-> 0]
    /\ answer = [r \in Requests |-> Error]
    /\ came = [r \in Requests |-> 0]
    /\ floor = [r \in Requests |-> 0]

(* run_silver deletes the partitions it looks back on.  (A run after one   *)
(* that failed finds them deleted.)                                        *)
ClearSilver ==
    /\ ~cleared /\ silver < MaxVersion
    /\ cleared' = TRUE
    /\ lastCleared' = hour
    /\ UNCHANGED <<hour, silver, hourStart, query, request>>

(* run_silver's query inserts them, whole as long as no two silver runs in *)
(* a row have failed.                                                      *)
InsertSilver ==
    /\ cleared
    /\ silver' = silver + 1
    /\ cleared' = FALSE
    /\ UNCHANGED <<hour, hourStart, lastCleared, query, request>>

(* The hour turns, under requests, queries and silver jobs as well. *)
Tick ==
    /\ hour < MaxHour
    /\ hour' = hour + 1
    /\ hourStart' = silver
    /\ lastCleared' = IF cleared THEN hour + 1 ELSE lastCleared
    /\ UNCHANGED <<silver, cleared, query, request>>

RunQuery(k) ==
    /\ query[k].state = "running"
    /\ query' = [query EXCEPT ![k] = [state |-> "succeeded",
                      result |-> [rows |-> silver, partial |-> cleared]]]
    /\ UNCHANGED <<lake, request>>

FailQuery(k) ==
    /\ query[k].state = "running"
    /\ query' = [query EXCEPT ![k].state = "failed"]
    /\ UNCHANGED <<lake, request>>

-----------------------------------------------------------------------------
(* AnalyticsService and AthenaEngine.run *)

Arrive(r) ==
    /\ ~InFlight(r)
    /\ pc' = [pc EXCEPT ![r] = "submit"]
    /\ came' = [came EXCEPT ![r] = hour]
    /\ floor' = [floor EXCEPT ![r] = hourStart]
    /\ UNCHANGED <<lake, query, waiting, answer>>

(* _submit: a token used before returns the query it started. *)
Submit(r) ==
    /\ pc[r] = "submit"
    /\ query' = [query EXCEPT ![Token(hour)].state = IF @ = "none" THEN "running" ELSE @]
    /\ waiting' = [waiting EXCEPT ![r] = Token(hour)]
    /\ pc' = [pc EXCEPT ![r] = "poll"]
    /\ UNCHANGED <<lake, answer, came, floor>>

PollSucceeded(r) ==
    /\ pc[r] = "poll" /\ query[waiting[r]].state = "succeeded"
    /\ pc' = [pc EXCEPT ![r] = "fetch"]
    /\ UNCHANGED <<lake, query, waiting, answer, came, floor>>

PollFailed(r) ==
    /\ pc[r] = "poll" /\ query[waiting[r]].state = "failed"
    /\ Answers(r, Error)
    /\ UNCHANGED <<lake, query, waiting, came, floor>>

(* _poll raises TimeoutError; the query goes on. *)
Deadline(r) ==
    /\ pc[r] = "poll" /\ HasDeadline
    /\ Answers(r, Error)
    /\ UNCHANGED <<lake, query, waiting, came, floor>>

(* _fetch_results, which the service returns as they are *)
Fetch(r) ==
    /\ pc[r] = "fetch"
    /\ Answers(r, query[waiting[r]].result)
    /\ UNCHANGED <<lake, query, waiting, came, floor>>

(* A call to Athena raises. *)
CallFails(r) ==
    /\ InFlight(r)
    /\ Answers(r, Error)
    /\ UNCHANGED <<lake, query, waiting, came, floor>>

Next ==
    \/ ClearSilver \/ InsertSilver \/ Tick
    \/ \E k \in Hours : RunQuery(k) \/ FailQuery(k)
    \/ \E r \in Requests :
        \/ Arrive(r) \/ Submit(r) \/ PollSucceeded(r) \/ PollFailed(r)
        \/ Deadline(r) \/ Fetch(r) \/ CallFails(r)

Spec == Init /\ [][Next]_vars

(* Calls return or raise and the event loop's time passes; Athena need not *)
(* ever run a query.                                                       *)
FairSpec ==
    /\ Spec
    /\ \A r \in Requests :
        /\ WF_vars(Submit(r)) /\ WF_vars(PollSucceeded(r)) /\ WF_vars(PollFailed(r))
        /\ WF_vars(Deadline(r)) /\ WF_vars(Fetch(r))

-----------------------------------------------------------------------------
(* Properties *)

(* Every variable has its type, no query is of an hour to come, and a      *)
(* request only polls a query that was started.                            *)
TypeOK ==
    /\ hour \in Hours /\ silver \in Versions /\ hourStart \in 0..silver
    /\ cleared \in BOOLEAN /\ lastCleared \in 0..hour
    /\ cleared => silver < MaxVersion
    /\ query \in [Hours -> Query]
    /\ \A k \in Hours : query[k].state # "none" => k <= hour
    /\ pc \in [Requests -> {"idle", "submit", "poll", "fetch", "done"}]
    /\ waiting \in [Requests -> Hours]
    /\ \A r \in Requests : pc[r] \in {"poll", "fetch"} => query[waiting[r]].state # "none"
    /\ answer \in [Requests -> Result]
    /\ came \in [Requests -> 0..hour]
    /\ floor \in [Requests -> 0..hourStart]

(* Sharing queries makes no answer older than an hour: a request is        *)
(* answered from silver as it was when the request's hour began, or newer, *)
(* also when the hour turns before it submits or while the query waits.    *)
FreshWithinHour ==
    \A r \in Requests : pc[r] = "done" /\ answer[r] # Error => answer[r].rows >= floor[r]

(* A result that misses the partitions a silver job has deleted and not    *)
(* yet rewritten does not outlast the hour: a request is answered with one *)
(* only if silver was cleared in the hour it arrived in or later.  (Within *)
(* the hour every request shares it, long after the job has finished.)     *)
GapsEndWithTheHour ==
    \A r \in Requests : pc[r] = "done" /\ answer[r].partial => lastCleared >= came[r]

(* Every request is answered, though Athena may never run its query. *)
Answered == \A r \in Requests : InFlight(r) ~> pc[r] = "done"
=============================================================================
