--------------------------- MODULE ServingProofs ---------------------------
(***************************************************************************)
(* Proofs about Serving for any number of requests and snapshots: that an  *)
(* empty answer is never older than its request, and that the endpoints    *)
(* implement ReadThrough.  Both rest on one invariant: a request in flight *)
(* has seen the table of now, and what it fetched is among what it has     *)
(* seen.                                                                   *)
(***************************************************************************)
EXTENDS Serving, TLAPS

(* A request in flight has seen what the table holds and what it fetched.  *)
Seeing ==
    \A r \in Requests :
        /\ InFlight(r) => mart \in seen[r]
        /\ pc[r] \in {"fetch", "set"} => rows[r] \in seen[r]

IInv == TypeOK /\ Seeing /\ EmptyOnlyWhileEmpty

USE BoundsAssumption

(* The initial state satisfies the inductive invariant. *)
LEMMA Begins == Init => IInv
<1> SUFFICES ASSUME Init PROVE IInv
  OBVIOUS
<1>1. TypeOK
  BY DEF Init, TypeOK, NoRows, Error
<1>2. Seeing /\ EmptyOnlyWhileEmpty
  BY DEF Init, Seeing, EmptyOnlyWhileEmpty, InFlight, NoItem, NoRows, Missing
<1> QED
  BY <1>1, <1>2 DEF IInv

(* The steps of a request that touch neither the table nor the item. *)
RequestStep(r) ==
    \/ Arrive(r) \/ CacheGet(r) \/ CacheGetFails(r) \/ CacheUnreachable(r)
    \/ Submit(r) \/ Execute(r) \/ EngineFails(r) \/ Deadline(r) \/ Fetch(r)

(* Every step keeps the types. *)
LEMMA TypeStep ==
    ASSUME TypeOK, [Next]_vars
    PROVE  TypeOK'
<1> USE DEF TypeOK, NoRows, Error
<1>1. CASE Truncate \/ Copy
  BY <1>1 DEF Truncate, Copy, MartBecomes
<1>2. CASE TtlPasses \/ Sweep
  BY <1>2 DEF TtlPasses, Sweep, request, NoItem, Missing
<1>3. ASSUME NEW r \in Requests, RequestStep(r) PROVE TypeOK'
  <2>1. CASE Arrive(r)
    BY <2>1 DEF Arrive, GoesTo
  <2>2. CASE CacheGet(r)
    BY <2>2 DEF CacheGet, GoesTo, Answers, NoItem
  <2>3. CASE CacheGetFails(r) \/ CacheUnreachable(r) \/ Submit(r)
    BY <2>3 DEF CacheGetFails, CacheUnreachable, Submit, GoesTo, Answers
  <2>4. CASE Execute(r)
    BY <2>4 DEF Execute, GoesTo
  <2>5. CASE EngineFails(r) \/ Deadline(r)
    BY <2>5 DEF EngineFails, Deadline, AfterEngineError, Answers
  <2>6. CASE Fetch(r)
    BY <2>6 DEF Fetch, GoesTo, Answers, Cacheable
  <2> QED
    BY <1>3, <2>1, <2>2, <2>3, <2>4, <2>5, <2>6 DEF RequestStep
<1>4. ASSUME NEW r \in Requests, CacheSet(r) PROVE TypeOK'
  <2>1. item' = item \/ item' = [rows |-> rows[r], expired |-> FALSE]
    BY <1>4 DEF CacheSet, ItemOf
  <2>2. item' = NoItem \/ item' \in [rows : 1..version, expired : BOOLEAN]
    <3>1. rows[r] \in 1..version
      BY <1>4 DEF CacheSet
    <3>2. [rows |-> rows[r], expired |-> FALSE] \in [rows : 1..version, expired : BOOLEAN]
      BY <3>1
    <3>3. item = NoItem \/ item \in [rows : 1..version, expired : BOOLEAN]
      OBVIOUS
    <3> QED
      BY <2>1, <3>2, <3>3, Zenon
  <2>3. answer' = [answer EXCEPT ![r] = rows[r]] /\ pc' = [pc EXCEPT ![r] = "done"]
    BY <1>4 DEF CacheSet, Answers
  <2>4. UNCHANGED <<mart, version, rows, seen>>
    BY <1>4 DEF CacheSet
  <2> QED
    BY <2>2, <2>3, <2>4 DEF NoItem
<1>5. CASE UNCHANGED vars
  BY <1>5 DEF vars, request
<1> QED
  BY <1>1, <1>2, <1>3, <1>4, <1>5 DEF Next, RequestStep

(* A request sees the table from its arrival on, whatever it does.         *)
LEMMA SeeingStep ==
    ASSUME IInv, [Next]_vars
    PROVE  Seeing'
<1> USE DEF IInv, TypeOK, Seeing, InFlight
<1>1. CASE Truncate \/ Copy
  BY <1>1 DEF Truncate, Copy, MartBecomes
<1>2. CASE TtlPasses \/ Sweep
  BY <1>2 DEF TtlPasses, Sweep, request, NoItem, Missing, NoRows
<1>3. ASSUME NEW r \in Requests, RequestStep(r) PROVE Seeing'
  <2>1. CASE Arrive(r)
    BY <2>1 DEF Arrive, GoesTo
  <2>2. CASE CacheGet(r)
    BY <2>2 DEF CacheGet, GoesTo, Answers
  <2>3. CASE CacheGetFails(r) \/ CacheUnreachable(r) \/ Submit(r)
    BY <2>3 DEF CacheGetFails, CacheUnreachable, Submit, GoesTo, Answers
  <2>4. CASE Execute(r)
    BY <2>4 DEF Execute, GoesTo
  <2>5. CASE EngineFails(r) \/ Deadline(r)
    BY <2>5 DEF EngineFails, Deadline, AfterEngineError, Answers
  <2>6. CASE Fetch(r)
    BY <2>6 DEF Fetch, GoesTo, Answers, Cacheable
  <2> QED
    BY <1>3, <2>1, <2>2, <2>3, <2>4, <2>5, <2>6 DEF RequestStep
<1>4. ASSUME NEW r \in Requests, CacheSet(r) PROVE Seeing'
  BY <1>4 DEF CacheSet, ItemOf, Answers
<1>5. CASE UNCHANGED vars
  BY <1>5 DEF vars, request
<1> QED
  BY <1>1, <1>2, <1>3, <1>4, <1>5 DEF Next, RequestStep

(* An answer comes from the item, which is not empty, or was seen. *)
LEMMA AnswerStep ==
    ASSUME IInv, [Next]_vars
    PROVE  EmptyOnlyWhileEmpty'
<1> USE DEF IInv, TypeOK, EmptyOnlyWhileEmpty
<1>1. CASE Truncate \/ Copy
  BY <1>1 DEF Truncate, Copy, MartBecomes
<1>2. ASSUME NEW r \in Requests, RequestStep(r) PROVE EmptyOnlyWhileEmpty'
  <2>1. CASE Arrive(r)
    BY <2>1 DEF Arrive, GoesTo
  <2>2. CASE CacheGet(r)
    BY <2>2 DEF CacheGet, GoesTo, Answers, NoItem, Missing, NoRows
  <2>3. CASE CacheGetFails(r) \/ CacheUnreachable(r) \/ Submit(r)
    BY <2>3 DEF CacheGetFails, CacheUnreachable, Submit, GoesTo, Answers, Error, NoRows
  <2>4. CASE Execute(r)
    BY <2>4 DEF Execute, GoesTo
  <2>5. CASE EngineFails(r) \/ Deadline(r)
    BY <2>5 DEF EngineFails, Deadline, AfterEngineError, Answers, Error, NoRows
  <2>6. CASE Fetch(r)
    BY <2>6 DEF Fetch, GoesTo, Answers, Seeing
  <2> QED
    BY <1>2, <2>1, <2>2, <2>3, <2>4, <2>5, <2>6 DEF RequestStep
<1>3. ASSUME NEW r \in Requests, CacheSet(r) PROVE EmptyOnlyWhileEmpty'
  BY <1>3 DEF CacheSet, Answers, Seeing
<1>4. CASE UNCHANGED request
  BY <1>4 DEF request
<1> QED
  BY <1>1, <1>2, <1>3, <1>4 DEF Next, RequestStep, vars, TtlPasses, Sweep

(* The invariant holds in every reachable state. *)
LEMMA InductiveInvariant == Spec => []IInv
<1>1. IInv /\ [Next]_vars => IInv'
  BY TypeStep, SeeingStep, AnswerStep DEF IInv
<1> QED
  BY Begins, <1>1, PTL DEF Spec

(* Every variable has its type, and no empty result is or will be cached. *)
THEOREM TypeCorrect == Spec => []TypeOK
<1>1. IInv => TypeOK
  BY DEF IInv
<1> QED
  BY InductiveInvariant, <1>1, PTL

(* A request answers with no rows only if the table was empty during it. *)
THEOREM EmptyHonest == Spec => []EmptyOnlyWhileEmpty
<1>1. IInv => EmptyOnlyWhileEmpty
  BY DEF IInv
<1> QED
  BY InductiveInvariant, <1>1, PTL

-----------------------------------------------------------------------------
(* The refinement *)

Phases == [r \in Requests |-> Phase(pc[r])]

(* A request that takes a step takes the phase of where it goes to. *)
LEMMA PhaseStep ==
    ASSUME TypeOK, NEW r \in Requests, NEW step, pc' = [pc EXCEPT ![r] = step]
    PROVE  Phases' = [Phases EXCEPT ![r] = Phase(step)]
BY DEF Phases, TypeOK

(* Every step is one of ReadThrough's, or none that it sees. *)
LEMMA Simulation ==
    ASSUME IInv, [Next]_vars
    PROVE  [Promise!Next]_(Promise!vars)
<1> USE DEF Promise!vars
<1>0. TypeOK
  BY DEF IInv
<1>1. CASE Truncate \/ Copy
  <2>1. mart' \in 0..MaxVersion
    BY <1>0, <1>1 DEF Truncate, Copy, MartBecomes, TypeOK, NoRows
  <2>2. UNCHANGED <<item, pc, rows, answer>>
    BY <1>1 DEF Truncate, Copy
  <2> QED
    BY <2>1, <2>2 DEF Promise!Next, Promise!Change
<1>2. CASE TtlPasses
  <2>1. item'.rows = item.rows
    BY <1>0, <1>2 DEF TtlPasses, TypeOK
  <2> QED
    BY <1>2, <2>1 DEF TtlPasses, request
<1>3. CASE Sweep
  BY <1>3 DEF Sweep, NoItem, request, Promise!Next, Promise!Forget
<1>4. ASSUME NEW r \in Requests, RequestStep(r) \/ CacheSet(r)
      PROVE  [Promise!Next]_(Promise!vars)
  <2>1. \A step : pc' = [pc EXCEPT ![r] = step] => Phases' = [Phases EXCEPT ![r] = Phase(step)]
    BY <1>0, PhaseStep
  <2>2. Phases[r] = Phase(pc[r])
    BY DEF Phases
  <2>3. pc' = pc => Phases' = Phases
    BY DEF Phases
  <2>4. \A step : Phase(step) = Phases[r] => Phases = [Phases EXCEPT ![r] = Phase(step)]
    BY DEF Phases
  <2>5. CASE Arrive(r)
    <3>1. Phases[r] = "idle" /\ Phase("get") = "asked"
      BY <2>2, <2>5 DEF Arrive, InFlight, Phase
    <3>2. Phases' = [Phases EXCEPT ![r] = "asked"]
      BY <2>1, <2>5, <3>1 DEF Arrive, GoesTo
    <3>3. UNCHANGED <<mart, item, rows, answer>>
      BY <2>5 DEF Arrive, GoesTo
    <3> QED
      BY <3>1, <3>2, <3>3 DEF Phases, Promise!Next, Promise!Ask
  <2>6. CASE CacheGet(r) /\ item # NoItem
    <3>1. item.rows # Missing
      BY <1>0, <2>6 DEF TypeOK, Missing
    <3> QED
      BY <2>1, <2>2, <2>6, <3>1 DEF CacheGet, Answers, Phase, Phases,
         Promise!Next, Promise!Hit, Promise!Answer
  <2>7. CASE \/ CacheGet(r) /\ item = NoItem
             \/ CacheGetFails(r) \/ Submit(r)
    <3>1. \E step \in {"submit", "run"} : pc' = [pc EXCEPT ![r] = step]
      BY <2>7 DEF CacheGet, CacheGetFails, Submit, GoesTo
    <3>2. Phases[r] = "asked" /\ Phase("submit") = "asked" /\ Phase("run") = "asked"
      BY <2>2, <2>7 DEF CacheGet, CacheGetFails, Submit, Phase
    <3>3. UNCHANGED Phases
      BY <2>1, <2>4, <3>1, <3>2
    <3>4. UNCHANGED <<mart, item, rows, answer>>
      BY <2>7 DEF CacheGet, CacheGetFails, Submit, GoesTo
    <3> QED
      BY <3>3, <3>4 DEF Phases
  <2>8. CASE CacheUnreachable(r) \/ EngineFails(r) \/ Deadline(r)
    BY <2>1, <2>2, <2>8 DEF CacheUnreachable, EngineFails, Deadline, AfterEngineError,
       Answers, Phase, Phases, Promise!Next, Promise!Fail, Promise!Answer
  <2>9. CASE Execute(r)
    BY <2>1, <2>2, <2>9 DEF Execute, GoesTo, Phase, Phases, Promise!Next, Promise!Read
  <2>10. CASE Fetch(r)
    <3>1. CASE Cacheable(rows[r])
      <4>1. pc' = [pc EXCEPT ![r] = "set"] /\ UNCHANGED <<mart, item, rows, answer>>
        BY <2>10, <3>1 DEF Fetch, GoesTo
      <4>2. Phases[r] = "read" /\ Phase("set") = "read"
        BY <2>2, <2>10 DEF Fetch, Phase
      <4>3. UNCHANGED Phases
        BY <2>1, <2>4, <4>1, <4>2
      <4> QED
        BY <4>1, <4>3 DEF Phases
    <3>2. CASE ~Cacheable(rows[r])
      BY <2>1, <2>2, <2>10, <3>2 DEF Fetch, Answers, Phase, Phases,
         Promise!Next, Promise!Reply, Promise!Answer
    <3> QED
      BY <3>1, <3>2
  <2>11. CASE CacheSet(r)
    <3>1. rows[r] # NoRows
      BY <1>0, <2>11 DEF TypeOK, CacheSet
    <3>2. item'.rows = item.rows \/ item'.rows = rows[r]
      BY <2>11 DEF CacheSet, ItemOf
    <3> QED
      BY <2>1, <2>2, <2>11, <3>1, <3>2 DEF CacheSet, Answers, Phase, Phases,
         Promise!Next, Promise!Reply, Promise!Answer
  <2> QED
    BY <1>4, <2>5, <2>6, <2>7, <2>8, <2>9, <2>10, <2>11 DEF RequestStep, CacheGet
<1>5. CASE UNCHANGED vars
  BY <1>5 DEF vars, request
<1> QED
  BY <1>1, <1>2, <1>3, <1>4, <1>5 DEF Next, RequestStep

(* The metrics endpoints implement ReadThrough: an answer is one state of  *)
(* the table during the request or what the cache stores, and the cache    *)
(* comes to store non-empty answers alone.                                 *)
THEOREM Implements == Spec => ServesReadThrough
<1>1. Init => Promise!Init
  BY DEF Init, Promise!Init, NoItem, Phase
<1>2. IInv /\ [Next]_vars => [Promise!Next]_(Promise!vars)
  BY Simulation
<1> QED
  BY <1>1, <1>2, InductiveInvariant, PTL DEF Spec, ServesReadThrough, Promise!Spec
=============================================================================
