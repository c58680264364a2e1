----------------------------- MODULE Ingestion -----------------------------
(***************************************************************************)
(* The write path: the load generator's send_one tasks post one event each *)
(* to the ingestion API, which validates it and puts it on the stream.     *)
(*                                                                         *)
(* A post has two sides that can disagree.  The client waits ten seconds;  *)
(* the handler goes on when the client has left.  The handler's put_record *)
(* is retried by the SDK; Kinesis may have taken a record whose response   *)
(* was lost.  Event s is the event of task s.                              *)
(***************************************************************************)
EXTENDS Integers, FiniteSets

CONSTANTS
    TotalEvents,    \* total_events
    Concurrency,    \* concurrency: permits of the semaphore
    Chunk,          \* tasks gathered at a time
    Invalid,        \* tasks whose payload the API's schema rejects
    MaxAttempts     \* put_record calls the SDK makes for one publish

ASSUME SettingsAssumption ==
    /\ TotalEvents \in Nat /\ Concurrency \in Nat \ {0} /\ Chunk \in Nat \ {0}
    /\ MaxAttempts \in Nat \ {0}

VARIABLES
    copies,         \* the records each event has on the stream
    (* load generator *)
    task,           \* each send_one: "queued", "posting" or "done"
    permits,        \* the semaphore's value
    stats,          \* Stats
    (* ingestion API *)
    handler,        \* each post: "none", "publish" or the status it answers
    attempts        \* put_record calls of each handler that raised

generator == <<task, permits, stats>>
api == <<handler, attempts>>
vars == <<copies, generator, api>>

Tasks == 1..TotalEvents
Statuses == {"202", "400", "500", "502"}
Posting == {s \in Tasks : task[s] = "posting"}
Done == {s \in Tasks : task[s] = "done"}
Published == {s \in Tasks : copies[s] > 0}

-----------------------------------------------------------------------------
(* Mistakes the code could have made; each takes the place of the operator *)
(* it names to show which property notices.                                *)

(* for FinalAnswer *)
SwallowedError == "202"

(* for Recorded *)
AnyOtherRejected(status) ==
    [stats EXCEPT !.sent = @ + 1,
                  !.accepted = IF status = "202" THEN @ + 1 ELSE @,
                  !.rejected = IF status # "202" THEN @ + 1 ELSE @]

(* for PermitsAfterError *)
PermitKept == permits
PermitTwice == permits + 2

(* for HasTimeout *)
WaitForever == FALSE

-----------------------------------------------------------------------------
Init ==
    /\ copies = [s \in Tasks |-> 0]
    /\ task = [s \in Tasks |-> "queued"]
    /\ permits = Concurrency
    /\ stats = [sent |-> 0, accepted |-> 0, rejected |-> 0, failed |-> 0]
    /\ handler = [s \in Tasks |-> "none"]
    /\ attempts = [s \in Tasks |-> 0]

-----------------------------------------------------------------------------
(* load_gen: run gathers one chunk of tasks after the other; a task posts  *)
(* while it holds a permit.                                                *)

Gathered(s) == \A e \in Tasks : (e - 1) \div Chunk < (s - 1) \div Chunk => task[e] = "done"

Post(s) ==
    /\ task[s] = "queued" /\ Gathered(s)
    /\ permits > 0
    /\ permits' = permits - 1
    /\ task' = [task EXCEPT ![s] = "posting"]
    /\ UNCHANGED <<copies, stats, api>>

(* Stats.record *)
Recorded(status) ==
    [stats EXCEPT !.sent = @ + 1,
                  !.accepted = IF status = "202" THEN @ + 1 ELSE @,
                  !.rejected = IF status = "400" THEN @ + 1 ELSE @,
                  !.failed = IF status \notin {"202", "400"} THEN @ + 1 ELSE @]

(* The answer arrives. *)
Respond(s) ==
    /\ task[s] = "posting" /\ handler[s] \in Statuses
    /\ stats' = Recorded(handler[s])
    /\ permits' = permits + 1
    /\ task' = [task EXCEPT ![s] = "done"]
    /\ UNCHANGED <<copies, api>>

HasTimeout == TRUE
PermitsAfterError == permits + 1

(* httpx raises a RequestError: ten seconds have passed, or the connection *)
(* broke.                                                                  *)
RequestError(s) ==
    /\ task[s] = "posting" /\ HasTimeout
    /\ stats' = [stats EXCEPT !.failed = @ + 1]
    /\ permits' = PermitsAfterError
    /\ task' = [task EXCEPT ![s] = "done"]
    /\ UNCHANGED <<copies, api>>

-----------------------------------------------------------------------------
(* ingestion: ingest_event, accept_event, publish *)

Answers(s, status) == handler' = [handler EXCEPT ![s] = status]

(* The request arrives at parse_event, perhaps after its client has given up. *)
Receive(s) ==
    /\ task[s] # "queued" /\ handler[s] = "none"
    /\ Answers(s, IF s \in Invalid THEN "400" ELSE "publish")
    /\ UNCHANGED <<copies, generator, attempts>>

(* put_record returns. *)
Put(s) ==
    /\ handler[s] = "publish"
    /\ copies' = [copies EXCEPT ![s] = @ + 1]
    /\ Answers(s, "202")
    /\ UNCHANGED <<generator, attempts>>

(* The exception put_record leaves the handler with *)
FinalAnswer == "500"

(* put_record raises, whether or not the stream took the record; the SDK   *)
(* tries again, until its last attempt.                                    *)
PutFails(s) ==
    /\ handler[s] = "publish"
    /\ copies' = [copies EXCEPT ![s] = @ + 1] \/ UNCHANGED copies
    /\ attempts' = [attempts EXCEPT ![s] = @ + 1]
    /\ Answers(s, IF attempts[s] + 1 < MaxAttempts THEN "publish" ELSE FinalAnswer)
    /\ UNCHANGED generator

(* The container stops, and the load balancer answers for it. *)
Stop(s) ==
    /\ handler[s] = "publish"
    /\ Answers(s, "502")
    /\ UNCHANGED <<copies, generator, attempts>>

-----------------------------------------------------------------------------
Next ==
    \E s \in Tasks :
        \/ Post(s) \/ Respond(s) \/ RequestError(s)
        \/ Receive(s) \/ Put(s) \/ PutFails(s) \/ Stop(s)

Spec == Init /\ [][Next]_vars

(* The event loop wakes a task that can take a permit, and httpx gives up  *)
(* in time.  Nothing is assumed of the API or the stream.                  *)
FairSpec ==
    /\ Spec
    /\ \A s \in Tasks : WF_vars(Post(s)) /\ WF_vars(RequestError(s))

-----------------------------------------------------------------------------
(* Properties *)

(* Every variable has its type; the semaphore never has more permits than  *)
(* it began with, and a publish puts an event at most MaxAttempts times.   *)
TypeOK ==
    /\ copies \in [Tasks -> 0..MaxAttempts]
    /\ task \in [Tasks -> {"queued", "posting", "done"}]
    /\ permits \in 0..Concurrency
    /\ stats \in [{"sent", "accepted", "rejected", "failed"} -> 0..TotalEvents]
    /\ handler \in [Tasks -> {"none", "publish"} \cup Statuses]
    /\ attempts \in [Tasks -> 0..MaxAttempts]

(* No accepted event is missing from the stream: what the generator counts *)
(* as accepted is there, if perhaps more than once.                        *)
AcceptedIsPublished == stats.accepted <= Cardinality(Published)

(* The stream holds no event the generator takes for rejected: what is     *)
(* there was accepted, or failed as far as the client could tell, or its   *)
(* task is still at it.  ("event never reaches Kinesis")                   *)
PublishedIsAccounted ==
    /\ Published \cap Invalid = {}
    /\ Cardinality(Published) <= stats.accepted + stats.failed + Cardinality(Posting)

(* Every finished task is counted once, and holds no permit.               *)
Accounting ==
    /\ stats.accepted + stats.rejected + stats.failed = Cardinality(Done)
    /\ permits + Cardinality(Posting) = Concurrency

(* The load test ends, whatever the API does. *)
Ends == <>(Done = Tasks)
=============================================================================
