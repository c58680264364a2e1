---------------------------- MODULE AdHocProofs ----------------------------
(***************************************************************************)
(* Proofs about AdHoc for any number of requests and any bounds.  What a   *)
(* query of this hour returned is at least what silver was when the hour   *)
(* began, and partial only if silver was cleared within the hour; a        *)
(* request meets no other query until the hour turns under it, and what it *)
(* waits for is good enough by then or will be.                            *)
(***************************************************************************)
EXTENDS AdHoc, TLAPS

(* Silver is cleared now only if it was cleared in this hour. *)
ClearedNow == cleared => lastCleared = hour

(* A query of this hour read silver within this hour. *)
HourFresh ==
    query[hour].state = "succeeded" =>
        /\ query[hour].result.rows >= hourStart
        /\ query[hour].result.partial => lastCleared = hour

(* What a request may be answered with. *)
GoodFor(r, result) ==
    /\ result.rows >= floor[r]
    /\ result.partial => lastCleared >= came[r]

(* A request polls a query that is good enough for it once it succeeds,    *)
(* and fetches the result of one that has.                                 *)
WaitFresh ==
    \A r \in Requests :
        /\ pc[r] = "fetch" => query[waiting[r]].state = "succeeded"
        /\ pc[r] \in {"poll", "fetch"} /\ query[waiting[r]].state = "succeeded"
               => GoodFor(r, query[waiting[r]].result)

IInv ==
    /\ TypeOK /\ ClearedNow /\ HourFresh /\ WaitFresh
    /\ FreshWithinHour /\ GapsEndWithTheHour

USE BoundsAssumption

(* The initial state satisfies the inductive invariant. *)
LEMMA Begins == Init => IInv
<1> SUFFICES ASSUME Init PROVE IInv
  OBVIOUS
<1>1. TypeOK
  <2>1. NoQuery \in Query /\ Error \in Result /\ NoQuery.state = "none"
    BY DEF Error, Result, NoQuery, Query
  <2>2. query \in [Hours -> Query] /\ \A k \in Hours : query[k].state = "none"
    BY <2>1 DEF Init
  <2>3. answer \in [Requests -> Result]
    BY <2>1 DEF Init
  <2>4. cleared \in BOOLEAN /\ ~cleared
    BY DEF Init
  <2>5. /\ hour = 0 /\ silver = 0 /\ hourStart = 0 /\ lastCleared = 0
        /\ pc = [r \in Requests |-> "idle"]
        /\ waiting = [r \in Requests |-> 0]
        /\ came = [r \in Requests |-> 0]
        /\ floor = [r \in Requests |-> 0]
    BY DEF Init
  <2> QED
    BY <2>2, <2>3, <2>4, <2>5 DEF TypeOK, Hours, Versions
<1>2. ClearedNow /\ HourFresh /\ WaitFresh /\ FreshWithinHour /\ GapsEndWithTheHour
  BY DEF Init, ClearedNow, HourFresh, WaitFresh, FreshWithinHour, GapsEndWithTheHour,
         NoQuery, Hours, Error
<1> QED
  BY <1>1, <1>2 DEF IInv

(* Every step keeps the types. *)
LEMMA TypeStep ==
    ASSUME TypeOK, [Next]_vars
    PROVE  TypeOK'
<1> USE DEF TypeOK, Hours, Versions
<1>1. CASE ClearSilver
  BY <1>1 DEF ClearSilver, request
<1>2. CASE InsertSilver
  <2>1. cleared' \in BOOLEAN /\ ~cleared'
    BY <1>2 DEF InsertSilver
  <2>2. cleared /\ silver' = silver + 1
    BY <1>2 DEF InsertSilver
  <2>3. UNCHANGED <<hour, hourStart, lastCleared, query, request>>
    BY <1>2 DEF InsertSilver
  <2> QED
    BY <2>1, <2>2, <2>3 DEF request
<1>3. CASE Tick
  BY <1>3 DEF Tick, request
<1>4. ASSUME NEW k \in Hours, RunQuery(k) \/ FailQuery(k) PROVE TypeOK'
  <2> DEFINE result == [rows |-> silver, partial |-> cleared]
             ran == [state |-> "succeeded", result |-> result]
             failed == [query[k] EXCEPT !.state = "failed"]
  <2>1. UNCHANGED <<lake, request>>
    BY <1>4 DEF RunQuery, FailQuery
  <2>2. query[k].state = "running"
    BY <1>4 DEF RunQuery, FailQuery
  <2>3. ran \in Query /\ ran.state # "none"
    BY DEF Query, Result
  <2>4. failed \in Query /\ failed.state # "none"
    BY DEF Query
  <2>5. query' = [query EXCEPT ![k] = ran] \/ query' = [query EXCEPT ![k] = failed]
    BY <1>4 DEF RunQuery, FailQuery
  <2> HIDE DEF ran, failed
  <2> QED
    BY <2>1, <2>2, <2>3, <2>4, <2>5 DEF lake, request
<1>5. ASSUME NEW r \in Requests, Arrive(r) PROVE TypeOK'
  BY <1>5 DEF Arrive, lake
<1>6. ASSUME NEW r \in Requests, Submit(r) PROVE TypeOK'
  <2> DEFINE state == IF query[hour].state = "none" THEN "running" ELSE query[hour].state
             submitted == [query[hour] EXCEPT !.state = state]
  <2>1. submitted \in Query
    BY DEF Query
  <2>2. submitted.state # "none"
    BY DEF Query
  <2>3. query' = [query EXCEPT ![hour] = submitted]
    BY <1>6 DEF Submit, Token
  <2>4. waiting' = [waiting EXCEPT ![r] = hour] /\ pc' = [pc EXCEPT ![r] = "poll"]
    BY <1>6 DEF Submit, Token
  <2>5. UNCHANGED <<lake, answer, came, floor>>
    BY <1>6 DEF Submit
  <2> HIDE DEF submitted
  <2> QED
    BY <2>1, <2>2, <2>3, <2>4, <2>5 DEF lake
<1>7. ASSUME NEW r \in Requests, PollSucceeded(r) PROVE TypeOK'
  BY <1>7 DEF PollSucceeded, lake
<1>8. ASSUME NEW r \in Requests, PollFailed(r) \/ Deadline(r) \/ CallFails(r) PROVE TypeOK'
  <2>1. answer' = [answer EXCEPT ![r] = Error] /\ pc' = [pc EXCEPT ![r] = "done"]
    BY <1>8 DEF PollFailed, Deadline, CallFails, Answers
  <2>2. UNCHANGED <<lake, query, waiting, came, floor>>
    BY <1>8 DEF PollFailed, Deadline, CallFails
  <2>3. Error \in Result
    BY DEF Error, Result
  <2> QED
    BY <2>1, <2>2, <2>3 DEF lake
<1>9. ASSUME NEW r \in Requests, Fetch(r) PROVE TypeOK'
  <2>1. query[waiting[r]].result \in Result
    BY DEF Query
  <2> QED
    BY <1>9, <2>1 DEF Fetch, Answers, lake
<1>10. CASE UNCHANGED vars
  BY <1>10 DEF vars, request, lake
<1> QED
  BY <1>1, <1>2, <1>3, <1>4, <1>5, <1>6, <1>7, <1>8, <1>9, <1>10 DEF Next

(* A new hour has no query yet, and one that runs reads the silver of now. *)
LEMMA HourFreshStep ==
    ASSUME IInv, [Next]_vars
    PROVE  ClearedNow' /\ HourFresh'
<1> USE DEF IInv, TypeOK, Hours, ClearedNow, HourFresh
<1>1. CASE ClearSilver
  BY <1>1 DEF ClearSilver
<1>2. CASE InsertSilver
  <2>1. ~cleared' /\ UNCHANGED <<hour, hourStart, lastCleared, query>>
    BY <1>2 DEF InsertSilver
  <2> QED
    BY <2>1
<1>3. ASSUME NEW r \in Requests, Submit(r) PROVE ClearedNow' /\ HourFresh'
  BY <1>3 DEF Submit, Token, lake
<1>4. ASSUME NEW k \in Hours, RunQuery(k) PROVE ClearedNow' /\ HourFresh'
  <2>1. query' = [query EXCEPT ![k] = [state |-> "succeeded",
                      result |-> [rows |-> silver, partial |-> cleared]]]
    BY <1>4 DEF RunQuery
  <2>2. silver >= hourStart
    BY DEF Versions
  <2>3. UNCHANGED <<hour, cleared, hourStart, lastCleared>>
    BY <1>4 DEF RunQuery, lake
  <2> QED
    BY <2>1, <2>2, <2>3
<1>5. ASSUME NEW k \in Hours, FailQuery(k) PROVE ClearedNow' /\ HourFresh'
  <2>1. \A h \in Hours : query'[h].state = "succeeded" => query'[h] = query[h]
    BY <1>5 DEF FailQuery
  <2>2. UNCHANGED <<hour, cleared, hourStart, lastCleared>>
    BY <1>5 DEF FailQuery, lake
  <2> QED
    BY <2>1, <2>2
<1>6. CASE Tick
  <2>1. query'[hour'].state = "none"
    BY <1>6 DEF Tick, Query
  <2>2. cleared' => lastCleared' = hour'
    BY <1>6 DEF Tick
  <2> QED
    BY <2>1, <2>2
<1>7. CASE UNCHANGED <<lake, query>>
  BY <1>7 DEF lake
<1> QED
  BY <1>1, <1>2, <1>3, <1>4, <1>5, <1>6, <1>7
  DEF Next, vars, Arrive, PollSucceeded, PollFailed, Deadline, Fetch, CallFails

(* A silver job and the hour leave a result as good as it was.  *)
LEMMA StillGood ==
    ASSUME IInv, ClearSilver \/ InsertSilver \/ Tick \/ UNCHANGED <<lake, request>>
    PROVE  /\ UNCHANGED request
           /\ \A r \in Requests, result \in Result : GoodFor(r, result) => GoodFor(r, result)'
<1>1. lastCleared \in Int /\ lastCleared' \in Int /\ lastCleared' >= lastCleared
  BY DEF IInv, TypeOK, Hours, ClearSilver, InsertSilver, Tick, lake
<1>2. UNCHANGED request
  BY DEF ClearSilver, InsertSilver, Tick
<1>3. \A r \in Requests : came[r] \in Int
  BY DEF IInv, TypeOK, Hours
<1> QED
  BY <1>1, <1>2, <1>3 DEF GoodFor, request

(* A request that submits joins a query of this hour, or starts one.       *)
LEMMA WaitFreshStep ==
    ASSUME IInv, [Next]_vars
    PROVE  WaitFresh'
<1>1. \A k \in Hours : query[k].result \in Result
  BY DEF IInv, TypeOK, Query
<1>2. \A r \in Requests : waiting[r] \in Hours
  BY DEF IInv, TypeOK
<1>3. \A r \in Requests : came[r] \in 0..hour /\ floor[r] \in 0..hourStart
  BY DEF IInv, TypeOK
<1>4. hourStart \in 0..silver /\ silver \in Nat /\ hour \in Nat /\ lastCleared \in 0..hour
  BY DEF IInv, TypeOK, Versions, Hours
<1> USE DEF WaitFresh
<1>5. ASSUME NEW k \in Hours, RunQuery(k) PROVE WaitFresh'
  <2>1. query'[k].state = "succeeded"
    BY <1>5 DEF RunQuery, IInv, TypeOK
  <2>2. query'[k].result = [rows |-> silver, partial |-> cleared]
    BY <1>5 DEF RunQuery, IInv, TypeOK
  <2>3. \A h \in Hours : h # k => query'[h] = query[h]
    BY <1>5 DEF RunQuery, IInv, TypeOK
  <2>4. \A r \in Requests : GoodFor(r, query'[k].result)
    BY <1>3, <1>4, <2>2 DEF GoodFor, IInv, ClearedNow
  <2>5. UNCHANGED <<pc, waiting, floor, came, lastCleared>>
    BY <1>5 DEF RunQuery, request, lake
  <2> QED
    BY <1>2, <2>1, <2>3, <2>4, <2>5 DEF GoodFor, IInv
<1>6. ASSUME NEW k \in Hours, FailQuery(k) PROVE WaitFresh'
  <2>1. \A h \in Hours : query'[h].state = "succeeded" => query'[h] = query[h]
    BY <1>6 DEF FailQuery, IInv, TypeOK
  <2>2. \A h \in Hours : query[h].state = "succeeded" => query'[h] = query[h]
    BY <1>6 DEF FailQuery, IInv, TypeOK
  <2>3. UNCHANGED <<pc, waiting, floor, came, lastCleared>>
    BY <1>6 DEF FailQuery, request, lake
  <2> QED
    BY <1>2, <2>1, <2>2, <2>3 DEF GoodFor, IInv
<1>7. ASSUME NEW r \in Requests, Arrive(r) PROVE WaitFresh'
  <2>1. UNCHANGED <<query, waiting, lastCleared>> /\ pc'[r] = "submit"
    BY <1>7 DEF Arrive, lake, IInv, TypeOK
  <2>2. ASSUME NEW s \in Requests, s # r
        PROVE  pc'[s] = pc[s] /\ came'[s] = came[s] /\ floor'[s] = floor[s]
    BY <1>7, <2>2 DEF Arrive, IInv, TypeOK
  <2> QED
    BY <2>1, <2>2 DEF GoodFor, IInv
<1>8. ASSUME NEW r \in Requests, Submit(r) PROVE WaitFresh'
  <2>1. hour \in Hours
    BY DEF IInv, TypeOK
  <2>2. \A k \in Hours : query'[k].state = "succeeded" => query'[k] = query[k]
    BY <1>8 DEF Submit, Token, IInv, TypeOK, Query
  <2>3. \A k \in Hours : query[k].state = "succeeded" => query'[k] = query[k]
    BY <1>8 DEF Submit, Token, IInv, TypeOK, Query
  <2>4. pc'[r] = "poll" /\ waiting'[r] = hour
    BY <1>8 DEF Submit, Token, IInv, TypeOK
  <2>5. UNCHANGED <<came, floor, lastCleared>>
    BY <1>8 DEF Submit, lake
  <2>6. query[hour].state = "succeeded" => GoodFor(r, query[hour].result)
    BY <1>1, <1>3, <1>4, <2>1 DEF IInv, HourFresh, GoodFor, Result
  <2>7. ASSUME NEW s \in Requests, s # r
        PROVE  pc'[s] = pc[s] /\ waiting'[s] = waiting[s]
    BY <1>8, <2>7 DEF Submit, IInv, TypeOK
  <2> QED
    BY <1>2, <2>1, <2>2, <2>3, <2>4, <2>5, <2>6, <2>7 DEF GoodFor, IInv
<1>9. ASSUME NEW r \in Requests,
             PollSucceeded(r) \/ PollFailed(r) \/ Deadline(r) \/ Fetch(r) \/ CallFails(r)
      PROVE  WaitFresh'
  <2>1. UNCHANGED <<query, waiting, came, floor, lastCleared>>
    BY <1>9 DEF PollSucceeded, PollFailed, Deadline, Fetch, CallFails, lake
  <2>2. \/ pc'[r] = "done"
        \/ pc'[r] = "fetch" /\ pc[r] = "poll" /\ query[waiting[r]].state = "succeeded"
    BY <1>9 DEF PollSucceeded, PollFailed, Deadline, Fetch, CallFails, Answers, IInv, TypeOK
  <2>3. \A s \in Requests : s # r => pc'[s] = pc[s]
    BY <1>9 DEF PollSucceeded, PollFailed, Deadline, Fetch, CallFails, Answers, IInv, TypeOK
  <2> QED
    BY <2>1, <2>2, <2>3 DEF GoodFor, IInv
<1>10. CASE ClearSilver \/ InsertSilver \/ Tick \/ UNCHANGED vars
  <2>1. UNCHANGED query
    BY <1>10 DEF ClearSilver, InsertSilver, Tick, vars
  <2>2. UNCHANGED request
    BY <1>10, StillGood DEF vars
  <2>3. \A r \in Requests, result \in Result : GoodFor(r, result) => GoodFor(r, result)'
    BY <1>10, StillGood DEF vars
  <2> QED
    BY <1>1, <1>2, <2>1, <2>2, <2>3 DEF request, IInv
<1> QED
  BY <1>5, <1>6, <1>7, <1>8, <1>9, <1>10 DEF Next

(* A request ends with what it waited for, or with an error. *)
LEMMA AnswerStep ==
    ASSUME IInv, [Next]_vars
    PROVE  FreshWithinHour' /\ GapsEndWithTheHour'
<1> DEFINE Kept == FreshWithinHour /\ GapsEndWithTheHour
<1> USE DEF IInv, TypeOK, FreshWithinHour, GapsEndWithTheHour
<1>1. ASSUME NEW r \in Requests, Arrive(r) \/ Submit(r) \/ PollSucceeded(r)
      PROVE  Kept'
  BY <1>1 DEF Arrive, Submit, PollSucceeded, lake
<1>2. ASSUME NEW r \in Requests, PollFailed(r) \/ Deadline(r) \/ CallFails(r)
      PROVE  Kept'
  <2>1. answer'[r] = Error /\ ~Error.partial
    BY <1>2 DEF PollFailed, Deadline, CallFails, Answers, Error
  <2>2. \A s \in Requests : s # r => answer'[s] = answer[s] /\ pc'[s] = pc[s]
    BY <1>2 DEF PollFailed, Deadline, CallFails, Answers
  <2>3. UNCHANGED <<lastCleared, came, floor>>
    BY <1>2 DEF PollFailed, Deadline, CallFails, lake
  <2> QED
    BY <2>1, <2>2, <2>3
<1>3. ASSUME NEW r \in Requests, Fetch(r) PROVE Kept'
  BY <1>3 DEF Fetch, Answers, WaitFresh, GoodFor, lake
<1>4. CASE ClearSilver \/ InsertSilver \/ Tick
  BY <1>4 DEF ClearSilver, InsertSilver, Tick, request, Hours
<1>5. CASE UNCHANGED <<lake, request>>
  BY <1>5 DEF lake, request
<1> QED
  BY <1>1, <1>2, <1>3, <1>4, <1>5 DEF Next, vars, RunQuery, FailQuery

(* The invariant holds in every reachable state. *)
LEMMA InductiveInvariant == Spec => []IInv
<1>1. IInv /\ [Next]_vars => IInv'
  BY TypeStep, HourFreshStep, WaitFreshStep, AnswerStep DEF IInv
<1> QED
  BY Begins, <1>1, PTL DEF Spec

(* Every variable has its type, and what is polled was started. *)
THEOREM TypeCorrect == Spec => []TypeOK
<1>1. IInv => TypeOK
  BY DEF IInv
<1> QED
  BY InductiveInvariant, <1>1, PTL

(* Sharing one query an hour makes no answer older than the beginning of   *)
(* the hour its request came in.                                           *)
THEOREM Fresh == Spec => []FreshWithinHour
<1>1. IInv => FreshWithinHour
  BY DEF IInv
<1> QED
  BY InductiveInvariant, <1>1, PTL

(* A result taken while a silver job had deleted partitions is not given   *)
(* to requests that come in an hour in which silver was whole throughout.  *)
THEOREM GapsEnd == Spec => []GapsEndWithTheHour
<1>1. IInv => GapsEndWithTheHour
  BY DEF IInv
<1> QED
  BY InductiveInvariant, <1>1, PTL
=============================================================================
