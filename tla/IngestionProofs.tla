-------------------------- MODULE IngestionProofs --------------------------
(***************************************************************************)
(* Proofs about Ingestion for any number of tasks, permits, attempts and   *)
(* any payloads.  The generator counts, and its counters can disagree with *)
(* the stream only in one direction: behind the four numbers stand sets of *)
(* finished tasks, those counted as accepted among the events the stream   *)
(* holds, those counted as rejected among the events it never saw.         *)
(***************************************************************************)
EXTENDS Ingestion, FiniteSetTheorems, TLAPS

(* Where a handler is bounds what it has put on the stream: nothing before *)
(* it publishes or after it rejected, never more than an attempt each.     *)
HandlerAt ==
    \A s \in Tasks :
        /\ handler[s] = "none" => attempts[s] = 0
        /\ handler[s] \in {"none", "400"} => copies[s] = 0
        /\ handler[s] = "publish" => attempts[s] < MaxAttempts /\ copies[s] <= attempts[s]
        /\ handler[s] = "202" => copies[s] > 0
        /\ s \in Invalid => handler[s] \in {"none", "400"}
        /\ task[s] = "queued" => handler[s] = "none"

(* What a record of counts is. *)
CountsOf(numbers) == [{"sent", "accepted", "rejected", "failed"} -> numbers]

(* The finished tasks, by how they were counted. *)
Counted(accepted, rejected, failed) ==
    /\ accepted \cup rejected \cup failed = Done
    /\ accepted \cap rejected = {}
    /\ (accepted \cup rejected) \cap failed = {}
    /\ \A s \in accepted : handler[s] = "202"
    /\ \A s \in rejected : handler[s] = "400"
    /\ Cardinality(accepted) = stats.accepted
    /\ Cardinality(rejected) = stats.rejected
    /\ Cardinality(failed) = stats.failed

Counts ==
    /\ \E accepted, rejected, failed \in SUBSET Tasks : Counted(accepted, rejected, failed)
    /\ stats.sent <= stats.accepted + stats.rejected + stats.failed

(* Every permit is in the semaphore or with a task that posts. *)
Permits == permits + Cardinality(Posting) = Concurrency

IInv == TypeOK /\ HandlerAt /\ Counts /\ Permits

USE SettingsAssumption

(* Sets of tasks are finite, and no larger than all of them. *)
LEMMA TasksFinite ==
    ASSUME NEW S \in SUBSET Tasks
    PROVE  IsFiniteSet(S) /\ Cardinality(S) \in 0..TotalEvents
<1>1. IsFiniteSet(Tasks) /\ Cardinality(Tasks) = TotalEvents
  BY FS_Interval DEF Tasks
<1>2. IsFiniteSet(S) /\ Cardinality(S) <= Cardinality(Tasks)
  BY <1>1, FS_Subset
<1>3. Cardinality(S) \in Nat
  BY <1>2, FS_CardinalityType
<1> QED
  BY <1>1, <1>2, <1>3

(* A task more in a set of tasks, and one less. *)
LEMMA OneMore ==
    ASSUME NEW S \in SUBSET Tasks, NEW s \in Tasks, s \notin S
    PROVE  Cardinality(S \cup {s}) = Cardinality(S) + 1
BY TasksFinite, FS_AddElement

LEMMA OneLess ==
    ASSUME NEW S \in SUBSET Tasks, NEW s \in S
    PROVE  Cardinality(S \ {s}) = Cardinality(S) - 1
BY TasksFinite, FS_RemoveElement

(* Three disjoint sets of tasks hold as many tasks as each of them.        *)
LEMMA ThreeParts ==
    ASSUME NEW A \in SUBSET Tasks, NEW R \in SUBSET Tasks, NEW F \in SUBSET Tasks,
           A \cap R = {}, (A \cup R) \cap F = {}
    PROVE  Cardinality(A \cup R \cup F) = Cardinality(A) + Cardinality(R) + Cardinality(F)
<1>1. /\ IsFiniteSet(A) /\ IsFiniteSet(R) /\ IsFiniteSet(F)
      /\ Cardinality(A) \in Nat /\ Cardinality(R) \in Nat /\ Cardinality(F) \in Nat
  BY TasksFinite
<1>2. Cardinality(A \cap R) = 0 /\ Cardinality((A \cup R) \cap F) = 0
  BY FS_EmptySet, Zenon
<1>3. /\ IsFiniteSet(A \cup R)
      /\ Cardinality(A \cup R) = Cardinality(A) + Cardinality(R) - Cardinality(A \cap R)
  BY <1>1, FS_Union, Zenon
<1>4. Cardinality((A \cup R) \cup F) =
          Cardinality(A \cup R) + Cardinality(F) - Cardinality((A \cup R) \cap F)
  BY <1>1, <1>3, FS_Union, Zenon
<1> QED
  BY <1>1, <1>2, <1>3, <1>4

(* The three counters add up to the finished tasks. *)
LEMMA CountsAddUp ==
    ASSUME NEW A \in SUBSET Tasks, NEW R \in SUBSET Tasks, NEW F \in SUBSET Tasks,
           Counted(A, R, F)
    PROVE  stats.accepted + stats.rejected + stats.failed = Cardinality(Done)
<1>1. A \cup R \cup F = Done
  BY DEF Counted
<1>2. Cardinality(Done) = Cardinality(A \cup R \cup F)
  BY <1>1, Zenon
<1>3. Cardinality(A \cup R \cup F) = Cardinality(A) + Cardinality(R) + Cardinality(F)
  BY ThreeParts DEF Counted
<1> QED
  BY <1>2, <1>3 DEF Counted

(* The initial state satisfies the inductive invariant. *)
LEMMA Begins == Init => IInv
<1> SUFFICES ASSUME Init PROVE IInv
  OBVIOUS
<1>1. stats.sent = 0 /\ stats.accepted = 0 /\ stats.rejected = 0 /\ stats.failed = 0
  BY DEF Init
<1>2. stats \in [{"sent", "accepted", "rejected", "failed"} -> 0..TotalEvents]
  BY DEF Init
<1>3. TypeOK
  BY <1>2 DEF Init, TypeOK
<1>4. HandlerAt
  BY DEF Init, HandlerAt
<1>5. Done = {} /\ Posting = {}
  BY DEF Init, Done, Posting
<1>6. Cardinality({}) = 0
  BY FS_EmptySet
<1>7. Counted({}, {}, {})
  BY <1>1, <1>5, <1>6 DEF Counted
<1>8. Counts
  BY <1>1, <1>7 DEF Counts
<1>9. Permits
  BY <1>5, <1>6 DEF Permits, Init
<1> QED
  BY <1>3, <1>4, <1>8, <1>9 DEF IInv

(* The handler's steps leave the generator alone, and the generator's the  *)
(* handlers and the stream.                                                *)
LEMMA Sides ==
    ASSUME [Next]_vars
    PROVE  \/ UNCHANGED generator
           \/ \E s \in Tasks : Post(s) \/ Respond(s) \/ RequestError(s)
BY DEF Next, vars, Receive, Put, PutFails, Stop

LEMMA HandlerAtStep ==
    ASSUME TypeOK, HandlerAt, [Next]_vars
    PROVE  HandlerAt' /\ copies' \in [Tasks -> 0..MaxAttempts]
           /\ handler' \in [Tasks -> {"none", "publish"} \cup Statuses]
           /\ attempts' \in [Tasks -> 0..MaxAttempts]
<1> USE DEF TypeOK, HandlerAt, Statuses
<1>1. ASSUME NEW s \in Tasks, Post(s) \/ Respond(s) \/ RequestError(s)
      PROVE  HandlerAt' /\ UNCHANGED <<copies, handler, attempts>>
  BY <1>1 DEF Post, Respond, RequestError, api
<1>2. ASSUME NEW s \in Tasks, Receive(s)
      PROVE  HandlerAt' /\ UNCHANGED <<copies, attempts>>
             /\ handler' \in [Tasks -> {"none", "publish"} \cup Statuses]
  BY <1>2 DEF Receive, Answers, generator
<1>3. ASSUME NEW s \in Tasks, Put(s)
      PROVE  HandlerAt' /\ copies' \in [Tasks -> 0..MaxAttempts] /\ UNCHANGED attempts
             /\ handler' \in [Tasks -> {"none", "publish"} \cup Statuses]
  BY <1>3 DEF Put, Answers, generator
<1>4. ASSUME NEW s \in Tasks, PutFails(s)
      PROVE  HandlerAt' /\ copies' \in [Tasks -> 0..MaxAttempts]
             /\ attempts' \in [Tasks -> 0..MaxAttempts]
             /\ handler' \in [Tasks -> {"none", "publish"} \cup Statuses]
  BY <1>4 DEF PutFails, FinalAnswer, Answers, generator
<1>5. ASSUME NEW s \in Tasks, Stop(s)
      PROVE  HandlerAt' /\ UNCHANGED <<copies, attempts>>
             /\ handler' \in [Tasks -> {"none", "publish"} \cup Statuses]
  BY <1>5 DEF Stop, Answers, generator
<1>6. CASE UNCHANGED vars
  BY <1>6 DEF vars, generator, api
<1> QED
  BY <1>1, <1>2, <1>3, <1>4, <1>5, <1>6 DEF Next

(* An answer is final: no step gives a post another. *)
LEMMA AnswerIsFinal ==
    ASSUME TypeOK, [Next]_vars, NEW s \in Tasks, handler[s] \in Statuses
    PROVE  handler'[s] = handler[s]
BY DEF TypeOK, Next, vars, generator, api, Statuses, Answers,
       Post, Respond, RequestError, Receive, Put, PutFails, Stop

(* What an answer, or none, makes of the counters. *)
LEMMA OneCount ==
    ASSUME stats \in CountsOf(Nat), NEW s \in Tasks, Respond(s) \/ RequestError(s)
    PROVE  stats' \in CountsOf(Nat)
<1> DEFINE sent == stats.sent + 1
           accepted == IF handler[s] = "202" THEN stats.accepted + 1 ELSE stats.accepted
           rejected == IF handler[s] = "400" THEN stats.rejected + 1 ELSE stats.rejected
           failed == IF handler[s] \notin {"202", "400"} THEN stats.failed + 1 ELSE stats.failed
<1>1. sent \in Nat /\ accepted \in Nat /\ rejected \in Nat /\ failed \in Nat
  BY DEF CountsOf
<1>2. \/ stats' = [stats EXCEPT !.failed = stats.failed + 1]
      \/ stats' = [stats EXCEPT !.sent = sent, !.accepted = accepted,
                                !.rejected = rejected, !.failed = failed]
  BY DEF Respond, Recorded, RequestError
<1>3. stats.failed + 1 \in Nat
  BY DEF CountsOf
<1> HIDE DEF sent, accepted, rejected, failed
<1> QED
  BY <1>1, <1>2, <1>3 DEF CountsOf

(* A task that finishes is counted once, by the answer it had if any.      *)
LEMMA CountsStep ==
    ASSUME TypeOK, Counts, [Next]_vars
    PROVE  Counts' /\ stats' \in CountsOf(Nat)
<1>1. PICK A \in SUBSET Tasks, R \in SUBSET Tasks, F \in SUBSET Tasks : Counted(A, R, F)
  BY DEF Counts
<1>2. /\ stats.sent \in Nat /\ stats.accepted \in Nat
      /\ stats.rejected \in Nat /\ stats.failed \in Nat
      /\ stats.sent <= stats.accepted + stats.rejected + stats.failed
      /\ stats \in CountsOf(Nat)
  BY DEF TypeOK, Counts, CountsOf
<1>3. \A s \in A : handler'[s] = "202"
  BY <1>1, AnswerIsFinal DEF Counted, Statuses
<1>4. \A s \in R : handler'[s] = "400"
  BY <1>1, AnswerIsFinal DEF Counted, Statuses
<1>5. CASE Done' = Done /\ UNCHANGED stats
  <2>1. Counted(A, R, F)'
    BY <1>1, <1>3, <1>4, <1>5 DEF Counted
  <2> QED
    BY <1>2, <1>5, <2>1 DEF Counts
<1>6. ASSUME NEW s \in Tasks, Respond(s) \/ RequestError(s)
      PROVE  Done' = Done \cup {s} /\ s \notin Done /\ handler'[s] = handler[s]
  BY <1>6 DEF Respond, RequestError, Done, TypeOK, api
<1>7. ASSUME NEW s \in Tasks, Respond(s), handler[s] = "202"
      PROVE  Counts' /\ stats' \in CountsOf(Nat)
  <2>1. /\ stats'.sent = stats.sent + 1 /\ stats'.accepted = stats.accepted + 1
        /\ stats'.rejected = stats.rejected /\ stats'.failed = stats.failed
        /\ stats' \in CountsOf(Nat)
    BY <1>2, <1>7, OneCount DEF Respond, Recorded, CountsOf
  <2>2. s \notin A /\ A \cup {s} \in SUBSET Tasks
    BY <1>1, <1>6, <1>7 DEF Counted
  <2>3. Cardinality(A \cup {s}) = Cardinality(A) + 1
    BY <2>2, OneMore
  <2>4. Counted(A \cup {s}, R, F)'
    BY <1>1, <1>3, <1>4, <1>6, <1>7, <2>1, <2>3 DEF Counted
  <2> QED
    BY <1>2, <2>1, <2>2, <2>4 DEF Counts
<1>8. ASSUME NEW s \in Tasks, Respond(s), handler[s] = "400"
      PROVE  Counts' /\ stats' \in CountsOf(Nat)
  <2>1. /\ stats'.sent = stats.sent + 1 /\ stats'.accepted = stats.accepted
        /\ stats'.rejected = stats.rejected + 1 /\ stats'.failed = stats.failed
        /\ stats' \in CountsOf(Nat)
    BY <1>2, <1>8, OneCount DEF Respond, Recorded, CountsOf
  <2>2. s \notin R /\ R \cup {s} \in SUBSET Tasks
    BY <1>1, <1>6, <1>8 DEF Counted
  <2>3. Cardinality(R \cup {s}) = Cardinality(R) + 1
    BY <2>2, OneMore
  <2>4. Counted(A, R \cup {s}, F)'
    BY <1>1, <1>3, <1>4, <1>6, <1>8, <2>1, <2>3 DEF Counted
  <2> QED
    BY <1>2, <2>1, <2>2, <2>4 DEF Counts
<1>9. ASSUME NEW s \in Tasks,
             RequestError(s) \/ (Respond(s) /\ handler[s] \notin {"202", "400"})
      PROVE  Counts' /\ stats' \in CountsOf(Nat)
  <2>1. /\ stats'.sent \in {stats.sent, stats.sent + 1}
        /\ stats'.accepted = stats.accepted
        /\ stats'.rejected = stats.rejected /\ stats'.failed = stats.failed + 1
        /\ stats' \in CountsOf(Nat)
    BY <1>2, <1>9, OneCount DEF Respond, Recorded, RequestError, CountsOf
  <2>2. s \notin F /\ F \cup {s} \in SUBSET Tasks
    BY <1>1, <1>6, <1>9 DEF Counted
  <2>3. Cardinality(F \cup {s}) = Cardinality(F) + 1
    BY <2>2, OneMore
  <2>4. Counted(A, R, F \cup {s})'
    BY <1>1, <1>3, <1>4, <1>6, <1>9, <2>1, <2>3 DEF Counted
  <2> QED
    BY <1>2, <2>1, <2>2, <2>4 DEF Counts
<1>10. ASSUME NEW s \in Tasks, Post(s) PROVE Done' = Done /\ UNCHANGED stats
  BY <1>10 DEF Post, Done, TypeOK
<1>11. CASE UNCHANGED generator
  <2>1. Done' = Done /\ UNCHANGED stats
    BY <1>11 DEF generator, Done
  <2> QED
    BY <1>5, <2>1
<1>12. ASSUME NEW s \in Tasks, Respond(s) \/ RequestError(s)
       PROVE  Counts' /\ stats' \in CountsOf(Nat)
  BY <1>7, <1>8, <1>9, <1>12
<1> QED
  BY <1>5, <1>10, <1>11, <1>12, Sides

(* A permit goes to the task that posts and comes back from the one that   *)
(* is done.                                                                *)
LEMMA PermitsStep ==
    ASSUME TypeOK, Permits, [Next]_vars
    PROVE  Permits' /\ permits' \in Nat /\ task' \in [Tasks -> {"queued", "posting", "done"}]
<1>1. Posting \in SUBSET Tasks /\ Cardinality(Posting) \in Nat
  BY TasksFinite DEF Posting
<1>2. permits \in Nat /\ task \in [Tasks -> {"queued", "posting", "done"}]
  BY DEF TypeOK
<1>3. CASE UNCHANGED generator
  BY <1>2, <1>3 DEF generator, Permits, Posting
<1>4. ASSUME NEW s \in Tasks, Post(s)
      PROVE  Permits' /\ permits' \in Nat /\ task' \in [Tasks -> {"queued", "posting", "done"}]
  <2>1. Posting' = Posting \cup {s} /\ s \notin Posting
    BY <1>2, <1>4 DEF Post, Posting
  <2>2. Cardinality(Posting') = Cardinality(Posting) + 1
    BY <1>1, <2>1, OneMore
  <2> QED
    BY <1>1, <1>2, <1>4, <2>2 DEF Post, Permits
<1>5. ASSUME NEW s \in Tasks, Respond(s) \/ RequestError(s)
      PROVE  Permits' /\ permits' \in Nat /\ task' \in [Tasks -> {"queued", "posting", "done"}]
  <2>1. Posting' = Posting \ {s} /\ s \in Posting
    BY <1>2, <1>5 DEF Respond, RequestError, Posting
  <2>2. Cardinality(Posting') = Cardinality(Posting) - 1
    BY <1>1, <2>1, OneLess
  <2>3. permits' = permits + 1
    BY <1>5 DEF Respond, RequestError, PermitsAfterError
  <2>4. task' \in [Tasks -> {"queued", "posting", "done"}]
    BY <1>2, <1>5 DEF Respond, RequestError
  <2> QED
    BY <1>1, <1>2, <2>2, <2>3, <2>4 DEF Permits
<1> QED
  BY <1>3, <1>4, <1>5, Sides

(* Counters and permits are bounded by the tasks and permits there are.    *)
LEMMA InRange ==
    ASSUME Counts', Permits', stats' \in CountsOf(Nat), permits' \in Nat
    PROVE  stats' \in CountsOf(0..TotalEvents) /\ permits' \in 0..Concurrency
<1>1. PICK A \in SUBSET Tasks, R \in SUBSET Tasks, F \in SUBSET Tasks : Counted(A, R, F)'
  BY DEF Counts
<1> DEFINE all == A \cup R \cup F
<1>2. Cardinality(all) = stats'.accepted + stats'.rejected + stats'.failed
  BY <1>1, ThreeParts DEF Counted
<1>3. Cardinality(all) \in 0..TotalEvents /\ Cardinality(Posting') \in Nat
  BY TasksFinite DEF Posting
<1>4. stats'.sent <= Cardinality(all)
  BY <1>2 DEF Counts
<1>5. stats' \in CountsOf(0..TotalEvents)
  BY <1>2, <1>3, <1>4 DEF CountsOf
<1> QED
  BY <1>3, <1>5 DEF Permits

(* The invariant holds in every reachable state. *)
LEMMA InductiveInvariant == Spec => []IInv
<1>1. ASSUME IInv, [Next]_vars PROVE IInv'
  <2>1. HandlerAt' /\ Counts' /\ Permits'
    BY <1>1, HandlerAtStep, CountsStep, PermitsStep DEF IInv
  <2>2. stats' \in CountsOf(0..TotalEvents) /\ permits' \in 0..Concurrency
    BY <1>1, <2>1, CountsStep, PermitsStep, InRange DEF IInv
  <2>3. TypeOK'
    BY <1>1, <2>2, HandlerAtStep, PermitsStep DEF IInv, TypeOK, CountsOf
  <2> QED
    BY <2>1, <2>3 DEF IInv
<1> QED
  BY Begins, <1>1, PTL DEF Spec

(* Every variable has its type: no counter passes the number of events, no *)
(* permit is given back twice, and no publish puts an event more often     *)
(* than the SDK tries.                                                     *)
THEOREM TypeCorrect == Spec => []TypeOK
<1>1. IInv => TypeOK
  BY DEF IInv
<1> QED
  BY InductiveInvariant, <1>1, PTL

(* What the generator counts as accepted is on the stream: the tasks       *)
(* counted so are among the published events.                              *)
THEOREM AcceptedPublished == Spec => []AcceptedIsPublished
<1>1. ASSUME IInv PROVE AcceptedIsPublished
  <2>1. PICK A \in SUBSET Tasks, R \in SUBSET Tasks, F \in SUBSET Tasks : Counted(A, R, F)
    BY <1>1 DEF IInv, Counts
  <2>2. A \subseteq Published
    BY <1>1, <2>1 DEF IInv, HandlerAt, Counted, Published
  <2>3. Published \in SUBSET Tasks
    BY DEF Published
  <2>4. Cardinality(A) <= Cardinality(Published)
    BY <2>2, <2>3, TasksFinite, FS_Subset
  <2> QED
    BY <2>1, <2>4 DEF Counted, AcceptedIsPublished
<1> QED
  BY InductiveInvariant, <1>1, PTL

(* What is on the stream is not taken for rejected: a published event is   *)
(* of a task that still posts, or was counted as accepted or failed.       *)
THEOREM PublishedAccounted == Spec => []PublishedIsAccounted
<1>1. ASSUME IInv PROVE PublishedIsAccounted
  <2>1. PICK A \in SUBSET Tasks, R \in SUBSET Tasks, F \in SUBSET Tasks : Counted(A, R, F)
    BY <1>1 DEF IInv, Counts
  <2>2. Published \cap Invalid = {}
    BY <1>1 DEF IInv, HandlerAt, Published, TypeOK
  <2>3. ASSUME NEW s \in Published PROVE s \in A \cup Posting \cup F
    <3>1. s \in Tasks /\ handler[s] \notin {"none", "400"}
      BY <1>1 DEF IInv, HandlerAt, Published, TypeOK
    <3>2. task[s] \in {"posting", "done"} /\ s \notin R
      BY <1>1, <2>1, <3>1 DEF IInv, HandlerAt, TypeOK, Counted
    <3> QED
      BY <2>1, <3>1, <3>2 DEF Counted, Posting, Done
  <2>4. Posting \in SUBSET Tasks /\ A \cap Posting = {} /\ (A \cup Posting) \cap F = {}
    BY <2>1 DEF Posting, Counted, Done
  <2>5. Cardinality(A \cup Posting \cup F) =
            Cardinality(A) + Cardinality(Posting) + Cardinality(F)
    BY <2>1, <2>4, ThreeParts
  <2>6. Cardinality(Published) <= Cardinality(A \cup Posting \cup F)
    <3>1. A \cup Posting \cup F \in SUBSET Tasks /\ Published \subseteq A \cup Posting \cup F
      BY <2>3, <2>4
    <3> QED
      BY <3>1, TasksFinite, FS_Subset
  <2>7. Cardinality(A) \in Nat /\ Cardinality(F) \in Nat /\ Cardinality(Posting) \in Nat
    BY <2>4, TasksFinite
  <2>8. Cardinality(A) = stats.accepted /\ Cardinality(F) = stats.failed
    BY <2>1 DEF Counted
  <2>9. Cardinality(Published) \in Nat
    BY TasksFinite DEF Published
  <2> QED
    BY <2>2, <2>5, <2>6, <2>7, <2>8, <2>9 DEF PublishedIsAccounted
<1> QED
  BY InductiveInvariant, <1>1, PTL

(* Every finished task is counted once, and no permit is lost. *)
THEOREM Accounts == Spec => []Accounting
<1>1. ASSUME IInv PROVE Accounting
  <2>1. PICK A \in SUBSET Tasks, R \in SUBSET Tasks, F \in SUBSET Tasks : Counted(A, R, F)
    BY <1>1 DEF IInv, Counts
  <2> QED
    BY <1>1, <2>1, CountsAddUp DEF IInv, Permits, Accounting
<1> QED
  BY InductiveInvariant, <1>1, PTL
=============================================================================
