--------------------------- MODULE ConsumerProofs ---------------------------
(***************************************************************************)
(* Proofs about Consumer for any number of tasks, any batch size and any   *)
(* bounds: that the checkpoint is safe and the consumer delivers at least  *)
(* once; that on an open shard copies come from restarts alone and one     *)
(* task only moves the checkpoint forward; and, from lemmas about sums,    *)
(* that a task's memory is bounded.                                        *)
(***************************************************************************)
EXTENDS Consumer, FiniteSetTheorems, TLAPS

(* The empty bag is a bag. *)
LEMMA EmptyBag == NoEvents \in Bags
BY DEF Bags, NoEvents

(* Adding bags and taking a partition's group from one keep them bags. *)
LEMMA BagType ==
    ASSUME NEW a \in Bags, NEW b \in Bags
    PROVE  /\ Both(a, b) \in Bags
           /\ \A p : Group(a, p) \in Bags /\ Ungrouped(a, p) \in Bags
BY DEF Bags, Both, Group, Ungrouped

(* The events of a read form a bag. *)
LEMMA ParsedType ==
    ASSUME NEW from, NEW last
    PROVE  Parsed(from, last) \in Bags
BY DEF Bags, Parsed

(* Every step keeps the types and stays within the stream. *)
LEMMA TypeStep ==
    ASSUME TypeOK, [Next]_vars
    PROVE  TypeOK'
<1> USE BoundsAssumption, SizesAssumption DEF TypeOK, NoIterator, None, external, memory
<1>1. CASE Publish
  BY <1>1 DEF Publish
<1>2. CASE Expire
  BY <1>2 DEF Expire
<1>3. CASE CloseShard
  BY <1>3 DEF CloseShard
<1>4. ASSUME NEW t \in Tasks, TaskStep(t)
      PROVE  TypeOK'
  <2>1. CASE Start(t)
    BY <2>1 DEF Start
  <2>2. CASE Crash(t)
    BY <2>2, EmptyBag DEF Crash
  <2>3. CASE LoadIterator(t)
    BY <2>3 DEF LoadIterator, ResumePoint
  <2>4. CASE ReadBatch(t)
    <3>1. PICK last : ReadUpTo(t, last)
      BY <2>4 DEF ReadBatch
    <3> DEFINE from == ReadFrom(t)
               events == Both(buffer[t], Parsed(from, last))
    <3>2. from \in 0..Len(stream) /\ last \in from..Len(stream)
      BY <3>1 DEF ReadUpTo, ReadFrom, ReadEnds
    <3>3. events \in Bags
      BY BagType, ParsedType
    <3>4. NextIterator(from, last) \in NoIterator..Len(stream)
      BY <3>2 DEF NextIterator
    <3>5. NextPending(pending[t], from, last) \in 0..Len(stream)
      BY <3>2 DEF NextPending
    <3>6. NoEvents \in Bags
      BY EmptyBag
    <3> HIDE DEF from, events
    <3>7. /\ iterator' = [iterator EXCEPT ![t] = NextIterator(from, last)]
          /\ pending' = [pending EXCEPT ![t] = NextPending(pending[t], from, last)]
          /\ UNCHANGED <<external, bronze, checkpoint, starts>>
      BY <3>1 DEF ReadUpTo, from
    <3>8. \/ /\ pc' = [pc EXCEPT ![t] = "flush"]
             /\ buffer' = [buffer EXCEPT ![t] = NoEvents]
             /\ overdue' = [overdue EXCEPT ![t] = FALSE]
             /\ batch' = [batch EXCEPT ![t] = events]
          \/ /\ buffer' = [buffer EXCEPT ![t] = events]
             /\ UNCHANGED <<pc, overdue, batch>>
      BY <3>1 DEF ReadUpTo, from, events
    <3> QED
      BY <3>3, <3>4, <3>5, <3>6, <3>7, <3>8
  <2>5. CASE Elapse(t)
    BY <2>5 DEF Elapse
  <2>6. ASSUME NEW p \in Partitions, WritePartition(t, p)
        PROVE  TypeOK'
    BY <2>6, BagType DEF WritePartition
  <2>7. CASE Commit(t)
    BY <2>7 DEF Commit
  <2> QED
    BY <1>4, <2>1, <2>2, <2>3, <2>4, <2>5, <2>6, <2>7 DEF TaskStep
<1>5. CASE UNCHANGED vars
  BY <1>5 DEF vars
<1> QED
  BY <1>1, <1>2, <1>3, <1>4, <1>5 DEF Next

(* The initial state is well typed. *)
LEMMA TypeInit ==
    ASSUME Init
    PROVE  TypeOK
<1>1. stream \in Seq(Partitions \cup {Unparseable}) /\ Len(stream) = 0
  BY DEF Init
<1>2. trim = 0 /\ checkpoint = 0 /\ starts = 0 /\ closed \in BOOLEAN
  BY DEF Init, None
<1>3. /\ iterator \in [Tasks -> NoIterator..Len(stream)]
      /\ pending \in [Tasks -> 0..Len(stream)]
  BY <1>1 DEF Init, None, NoIterator
<1>4. /\ pc \in [Tasks -> {"down", "poll", "flush"}]
      /\ overdue \in [Tasks -> BOOLEAN]
      /\ bronze \in Bags /\ buffer \in [Tasks -> Bags] /\ batch \in [Tasks -> Bags]
  BY EmptyBag DEF Init
<1> QED
  BY <1>1, <1>2, <1>3, <1>4, BoundsAssumption DEF TypeOK

(* Every reachable state is well typed, and no position - of a task or     *)
(* saved - is past the end of the stream.                                  *)
THEOREM TypeCorrect == Spec => []TypeOK
<1> USE BoundsAssumption, SizesAssumption
<1>1. Init => TypeOK
  BY TypeInit
<1>2. TypeOK /\ [Next]_vars => TypeOK'
  BY TypeStep
<1> QED
  BY <1>1, <1>2, PTL DEF Spec

-----------------------------------------------------------------------------
(* The safety of the checkpoint.  CheckpointSafe alone is not inductive:   *)
(* a commit needs to know that the task dropped nothing it read past, and  *)
(* that a task about to commit holds no event outside the batch it wrote.  *)

(* The buffer is empty between flush and commit, and the batch otherwise.  *)
Phases ==
    \A t \in Tasks :
        /\ pc[t] = "flush" => buffer[t] = NoEvents
        /\ pc[t] # "flush" => batch[t] = NoEvents

Held(t, n) == buffer[t][n] > 0 \/ batch[t][n] > 0

IInv == TypeOK /\ Phases /\ CheckpointSafe /\ NothingReadIsDropped

(* No step unsettles an event: records are only added, retention only      *)
(* advances and bronze objects are never overwritten.                      *)
LEMMA SettledStays ==
    ASSUME TypeOK, [Next]_vars
    PROVE  \A n \in 1..Len(stream) : Settled(n) => Settled(n)'
<1> USE BoundsAssumption DEF Settled, IsEvent
<1>1. CASE UNCHANGED <<stream, trim, bronze>>
  BY <1>1
<1>2. CASE Publish
  BY <1>2 DEF Publish, TypeOK
<1>3. CASE Expire
  BY <1>3 DEF Expire, TypeOK
<1>4. ASSUME NEW t \in Tasks, NEW p \in Partitions, WritePartition(t, p)
      PROVE  \A n \in 1..Len(stream) : Settled(n) => Settled(n)'
  <2>1. /\ stream' = stream /\ trim' = trim
        /\ bronze' = Both(bronze, Group(batch[t], p))
    BY <1>4 DEF WritePartition, external
  <2>2. bronze \in Bags /\ Group(batch[t], p) \in Bags
    BY BagType DEF TypeOK
  <2>3. ASSUME NEW n \in SeqNo, bronze[n] > 0
        PROVE  bronze'[n] > 0
    BY <2>1, <2>2, <2>3 DEF Bags, Both
  <2>4. \A n \in 1..Len(stream) : n \in SeqNo
    BY DEF TypeOK, SeqNo
  <2> QED
    BY <2>1, <2>3, <2>4
<1>5. CASE CloseShard
  BY <1>1, <1>5 DEF CloseShard
<1>6. ASSUME NEW t \in Tasks, Start(t) \/ Crash(t) \/ LoadIterator(t) \/ ReadBatch(t)
                              \/ Elapse(t) \/ Commit(t)
      PROVE  UNCHANGED <<stream, trim, bronze>>
  BY <1>6 DEF Start, Crash, LoadIterator, ReadBatch, ReadUpTo, Elapse, Commit, external
<1>7. CASE UNCHANGED vars
  BY <1>1, <1>7 DEF vars, external
<1> QED
  BY <1>1, <1>2, <1>3, <1>4, <1>5, <1>6, <1>7 DEF Next, TaskStep

(* A flush empties the buffer, and a task leaves "flush" only with its     *)
(* batch written.                                                          *)
LEMMA PhasesStep ==
    ASSUME TypeOK, Phases, [Next]_vars
    PROVE  Phases'
<1> USE DEF Phases, TypeOK
<1>1. ASSUME UNCHANGED <<pc, buffer, batch>>
      PROVE  Phases'
  BY <1>1
<1>2. ASSUME NEW t \in Tasks, TaskStep(t)
      PROVE  Phases'
  <2>1. CASE Start(t)
    BY <2>1 DEF Start
  <2>2. CASE Crash(t)
    BY <2>2 DEF Crash
  <2>3. CASE LoadIterator(t)
    BY <2>3 DEF LoadIterator
  <2>4. CASE ReadBatch(t)
    <3>1. PICK last : ReadUpTo(t, last)
      BY <2>4 DEF ReadBatch
    <3> DEFINE events == Both(buffer[t], Parsed(ReadFrom(t), last))
    <3>2. pc[t] = "poll"
      BY <3>1 DEF ReadUpTo
    <3>3. \/ /\ pc' = [pc EXCEPT ![t] = "flush"]
             /\ buffer' = [buffer EXCEPT ![t] = NoEvents]
             /\ batch' = [batch EXCEPT ![t] = events]
          \/ /\ buffer' = [buffer EXCEPT ![t] = events]
             /\ UNCHANGED <<pc, batch>>
      BY <3>1 DEF ReadUpTo
    <3> HIDE DEF events
    <3> QED
      BY <3>2, <3>3
  <2>5. CASE Elapse(t)
    BY <2>5 DEF Elapse
  <2>6. ASSUME NEW p \in Partitions, WritePartition(t, p)
        PROVE  Phases'
    BY <2>6 DEF WritePartition
  <2>7. CASE Commit(t)
    BY <2>7 DEF Commit, BatchWritten
  <2> QED
    BY <1>2, <2>1, <2>2, <2>3, <2>4, <2>5, <2>6, <2>7 DEF TaskStep
<1> QED
  BY <1>1, <1>2 DEF Next, Publish, Expire, CloseShard, vars, memory

(* Only a commit moves the checkpoint, and it moves it to a number whose   *)
(* every predecessor the task had read and - its buffer and batch being    *)
(* empty - has settled.                                                    *)
LEMMA CheckpointSafeStep ==
    ASSUME IInv, [Next]_vars
    PROVE  CheckpointSafe'
<1> USE DEF IInv
<1>1. \A n \in 1..Len(stream) : Settled(n) => Settled(n)'
  BY SettledStays
<1>2. ASSUME checkpoint' = checkpoint
      PROVE  CheckpointSafe'
  BY <1>1, <1>2 DEF CheckpointSafe, TypeOK
<1>3. ASSUME NEW t \in Tasks, Commit(t)
      PROVE  CheckpointSafe'
  <2>1. CASE pending[t] = None
    BY <1>2, <1>3, <2>1 DEF Commit
  <2>2. CASE pending[t] # None
    <3>1. checkpoint' = pending[t] /\ pending[t] \in 1..Len(stream)
      BY <1>3, <2>2 DEF Commit, TypeOK, None
    <3>2. buffer[t] = NoEvents /\ batch[t] = NoEvents
      BY <1>3 DEF Commit, BatchWritten, Phases
    <3>3. ASSUME NEW n \in 1..pending[t]
          PROVE  Settled(n)
      <4>1. n \in 1..Len(stream) /\ n \in SeqNo /\ n <= pending[t]
        BY <3>1, BoundsAssumption DEF TypeOK, SeqNo
      <4>2. buffer[t][n] = 0 /\ batch[t][n] = 0
        BY <3>2, <4>1 DEF NoEvents
      <4> QED
        BY <4>1, <4>2 DEF NothingReadIsDropped
    <3> QED
      BY <1>1, <3>1, <3>3 DEF CheckpointSafe
  <2> QED
    BY <2>1, <2>2
<1>4. CASE \E t \in Tasks : TaskStep(t)
  BY <1>2, <1>3, <1>4 DEF TaskStep, Start, Crash, LoadIterator, ReadBatch, ReadUpTo, Elapse,
     WritePartition
<1> QED
  BY <1>2, <1>4 DEF Next, Publish, Expire, CloseShard, vars

(* A read puts every event it moves past into the buffer, and what was     *)
(* buffered stays in the buffer or becomes the batch.                      *)
LEMMA ReadKeeps ==
    ASSUME IInv, NEW t \in Tasks, ReadBatch(t)
    PROVE  \A n \in 1..Len(stream') :
               n <= iterator'[t] \/ n <= pending'[t] => Settled(n)' \/ Held(t, n)'
<1>1. PICK last : ReadUpTo(t, last)
  BY DEF ReadBatch
<1> DEFINE from == ReadFrom(t)
           events == Both(buffer[t], Parsed(from, last))
<1>2. /\ pc[t] = "poll" /\ last \in ReadEnds(from)
      /\ iterator'[t] = NextIterator(from, last)
      /\ pending'[t] = NextPending(pending[t], from, last)
      /\ UNCHANGED <<stream, trim, bronze>>
  BY <1>1 DEF ReadUpTo, IInv, TypeOK, external
<1>3. from \in 0..Len(stream) /\ last \in from..Len(stream)
  BY <1>1, SizesAssumption DEF ReadUpTo, ReadFrom, ReadEnds, IInv, TypeOK, NoIterator
<1>4. buffer'[t] = events \/ batch'[t] = events
  BY <1>1 DEF ReadUpTo, IInv, TypeOK
<1> SUFFICES ASSUME NEW n \in 1..Len(stream), n <= iterator'[t] \/ n <= pending'[t]
             PROVE  Settled(n)' \/ Held(t, n)'
  BY <1>2
<1>5. n \in SeqNo /\ Len(stream) \in Nat /\ buffer[t] \in Bags
  BY BoundsAssumption DEF IInv, TypeOK, SeqNo
<1>6. Settled(n)' <=> Settled(n)
  BY <1>2 DEF Settled, IsEvent
<1>7. n <= last \/ n <= pending[t]
  BY <1>2, <1>3, <1>5 DEF NextIterator, NextPending, NoIterator
<1>8. CASE events[n] > 0
  BY <1>4, <1>8 DEF Held
<1>9. CASE Settled(n)
  BY <1>6, <1>9
<1>10. CASE buffer[t][n] > 0
  <2>1. events[n] > 0
    BY <1>5, <1>10 DEF Bags, Both, Parsed
  <2> QED
    BY <1>8, <2>1
<1>11. CASE from < n /\ n <= last /\ IsEvent(n)
  <2>1. events[n] > 0
    BY <1>5, <1>11 DEF Bags, Both, Parsed
  <2> QED
    BY <1>8, <2>1
<1>12. CASE ~(from < n /\ n <= last) /\ ~Settled(n)
  <2>1. n <= iterator[t] \/ n <= pending[t]
    BY <1>3, <1>5, <1>7, <1>12 DEF ReadFrom, Settled, IInv, TypeOK
  <2>2. batch[t][n] = 0
    BY <1>2, <1>5 DEF IInv, Phases, NoEvents
  <2>3. buffer[t][n] > 0
    BY <1>12, <2>1, <2>2 DEF IInv, NothingReadIsDropped
  <2> QED
    BY <1>10, <2>3
<1> QED
  BY <1>9, <1>11, <1>12 DEF Settled

(* What a task has read past is settled or held, and what one step takes   *)
(* from its memory the step settles.                                       *)
LEMMA NothingReadIsDroppedStep ==
    ASSUME IInv, [Next]_vars
    PROVE  NothingReadIsDropped'
<1> DEFINE Passed(t, n) == n <= iterator[t] \/ n <= pending[t]
           Kept(t) == \A n \in 1..Len(stream) : Passed(t, n) => Settled(n) \/ Held(t, n)
<1> SUFFICES \A t \in Tasks : Kept(t)'
  BY DEF NothingReadIsDropped, Held
<1> USE DEF IInv
<1>1. \A n \in 1..Len(stream) : Settled(n) => Settled(n)'
  BY SettledStays
<1>2. \A t \in Tasks : Kept(t)
  BY DEF NothingReadIsDropped, Held
<1>3. /\ TypeOK'
      /\ \A n \in 1..Len(stream) : n \in SeqNo
      /\ Len(stream) \in Nat
  BY TypeStep, BoundsAssumption DEF TypeOK, SeqNo
<1>4. ASSUME NEW t \in Tasks,
             stream' = stream, iterator'[t] = iterator[t], pending'[t] = pending[t],
             buffer'[t] = buffer[t], batch'[t] = batch[t]
      PROVE  Kept(t)'
  BY <1>1, <1>2, <1>4 DEF Held
<1>5. CASE Publish
  <2>1. /\ Len(stream') = Len(stream) + 1
        /\ UNCHANGED <<iterator, pending, buffer, batch>>
    BY <1>5 DEF Publish, TypeOK, memory
  <2> SUFFICES ASSUME NEW t \in Tasks, NEW n \in 1..Len(stream'), Passed(t, n)'
               PROVE  Settled(n)' \/ Held(t, n)'
    OBVIOUS
  <2>2. n \in 1..Len(stream) /\ Passed(t, n)
    BY <1>3, <2>1 DEF TypeOK, NoIterator
  <2> QED
    BY <1>1, <1>2, <2>1, <2>2 DEF Held
<1>6. ASSUME NEW t \in Tasks, TaskStep(t)
      PROVE  Kept(t)'
  <2>1. CASE Start(t)
    BY <1>4, <2>1 DEF Start, external
  <2>2. CASE Crash(t)
    BY <1>3, <2>2 DEF Crash, TypeOK, NoIterator, None, external
  <2>3. CASE LoadIterator(t)
    <3>1. /\ iterator'[t] = checkpoint
          /\ UNCHANGED <<stream, pending, buffer, batch>>
      BY <2>3 DEF LoadIterator, ResumePoint, TypeOK, external
    <3>2. \A n \in 1..Len(stream) : n <= checkpoint => Settled(n)
      BY <1>3 DEF CheckpointSafe, TypeOK
    <3> QED
      BY <1>1, <1>2, <3>1, <3>2 DEF Held
  <2>4. CASE ReadBatch(t)
    BY <2>4, ReadKeeps DEF Held
  <2>5. CASE Elapse(t)
    BY <1>4, <2>5 DEF Elapse, external
  <2>6. ASSUME NEW p \in Partitions, WritePartition(t, p)
        PROVE  Kept(t)'
    <3>1. /\ bronze' = Both(bronze, Group(batch[t], p))
          /\ batch'[t] = Ungrouped(batch[t], p)
          /\ UNCHANGED <<stream, iterator, pending, buffer>>
      BY <2>6 DEF WritePartition, TypeOK, external
    <3> SUFFICES ASSUME NEW n \in 1..Len(stream), Passed(t, n)
                 PROVE  Settled(n)' \/ Held(t, n)'
      BY <3>1
    <3>2. CASE Settled(n)
      BY <1>1, <3>2
    <3>3. CASE buffer[t][n] > 0
      BY <3>1, <3>3 DEF Held
    <3>4. CASE batch[t][n] > 0
      <4>1. bronze[n] \in Nat /\ batch[t][n] \in Nat /\ n \in SeqNo
        BY <1>3 DEF TypeOK, Bags
      <4>2. CASE IsEvent(n) /\ stream[n] = p
        BY <3>1, <3>4, <4>1, <4>2 DEF Both, Group, Settled
      <4>3. CASE ~(IsEvent(n) /\ stream[n] = p)
        BY <3>1, <3>4, <4>1, <4>3 DEF Ungrouped, Held
      <4> QED
        BY <4>2, <4>3
    <3> QED
      BY <1>2, <3>2, <3>3, <3>4 DEF Held
  <2>7. CASE Commit(t)
    BY <1>4, <2>7 DEF Commit, external
  <2> QED
    BY <1>6, <2>1, <2>2, <2>3, <2>4, <2>5, <2>6, <2>7 DEF TaskStep
<1>7. ASSUME NEW t \in Tasks, TaskStep(t), NEW u \in Tasks \ {t}
      PROVE  Kept(u)'
  <2>1. /\ stream' = stream
        /\ iterator'[u] = iterator[u] /\ pending'[u] = pending[u]
        /\ buffer'[u] = buffer[u] /\ batch'[u] = batch[u]
    BY <1>7 DEF TypeOK, TaskStep, Start, Crash, LoadIterator, ReadBatch, ReadUpTo, Elapse,
       WritePartition, Commit, external
  <2> QED
    BY <1>4, <2>1
<1>8. CASE Expire \/ CloseShard \/ UNCHANGED vars
  BY <1>4, <1>8 DEF Expire, CloseShard, vars, memory, external
<1> QED
  BY <1>5, <1>6, <1>7, <1>8 DEF Next

(* The inductive invariant holds initially and is kept by every step. *)
LEMMA InductiveInvariant ==
    /\ Init => IInv
    /\ IInv /\ [Next]_vars => IInv'
<1>1. Init => IInv
  <2> SUFFICES ASSUME Init
               PROVE  IInv
    OBVIOUS
  <2>1. TypeOK
    BY TypeInit
  <2>2. Phases
    BY DEF Init, Phases
  <2>3. CheckpointSafe
    BY DEF Init, CheckpointSafe, None
  <2>4. NothingReadIsDropped
    BY DEF Init, NothingReadIsDropped
  <2> QED
    BY <2>1, <2>2, <2>3, <2>4 DEF IInv
<1>2. IInv /\ [Next]_vars => IInv'
  BY TypeStep, PhasesStep, CheckpointSafeStep, NothingReadIsDroppedStep DEF IInv
<1> QED
  BY <1>1, <1>2

(* Whatever tasks overlap and crash, the saved position never passes an    *)
(* event that is not in bronze (ConsumerService.poll_once commits last).   *)
THEOREM CheckpointDurable == Spec => []CheckpointSafe
<1>1. IInv => CheckpointSafe
  BY DEF IInv
<1> QED
  BY InductiveInvariant, <1>1, PTL DEF Spec

(* A running task always still holds, or has stored, every event it has    *)
(* read past (EventBatcher.flush clears the buffer before the writes).     *)
THEOREM NothingDropped == Spec => []NothingReadIsDropped
<1>1. IInv => NothingReadIsDropped
  BY DEF IInv
<1> QED
  BY InductiveInvariant, <1>1, PTL DEF Spec

-----------------------------------------------------------------------------
(* The consumer implements at-least-once delivery. *)

(* Every step of the consumer is a step of the promise or changes nothing  *)
(* it speaks of.                                                           *)
LEMMA StepImplements ==
    ASSUME IInv, CheckpointSafe', [Next]_vars
    PROVE  [Promise!Next]_(Promise!vars)
<1> USE DEF IInv, Promise!vars
<1>1. CASE UNCHANGED <<stream, trim, bronze, checkpoint>>
  BY <1>1
<1>2. CASE Publish
  BY <1>2 DEF Publish, Promise!Next, Promise!Publish
<1>3. CASE Expire
  BY <1>3 DEF Expire, Promise!Next, Promise!Expire
<1>4. ASSUME NEW t \in Tasks, NEW p \in Partitions, WritePartition(t, p)
      PROVE  Promise!Store
  <2>1. /\ UNCHANGED <<stream, trim, checkpoint>>
        /\ bronze' = Both(bronze, Group(batch[t], p))
    BY <1>4 DEF WritePartition, external
  <2>2. bronze \in Bags /\ batch[t] \in Bags
    BY DEF TypeOK
  <2> DEFINE S == {n \in SeqNo : Group(batch[t], p)[n] > 0}
  <2>3. S \in SUBSET {n \in Promise!Positions : stream[n] \in Partitions}
    BY DEF Group, IsEvent, Promise!Positions
  <2>4. {n \in SeqNo : bronze[n] > 0}' = {n \in SeqNo : bronze[n] > 0} \cup S
    BY <2>1, <2>2 DEF Both, Group, Bags
  <2> QED
    BY <2>1, <2>3, <2>4 DEF Promise!Store
<1>5. ASSUME NEW t \in Tasks, Commit(t), pending[t] # None
      PROVE  Promise!Acknowledge
  <2>1. /\ UNCHANGED <<stream, trim, bronze>>
        /\ checkpoint' = pending[t] /\ pending[t] \in Promise!Positions
    BY <1>5 DEF Commit, TypeOK, None, Promise!Positions, external
  <2>2. \A n \in 1..pending[t] : Settled(n)
    BY <2>1 DEF CheckpointSafe, Settled, IsEvent
  <2>3. \A n \in 1..pending[t] : n \in 1..Len(stream) /\ n \in SeqNo
    BY <2>1, BoundsAssumption DEF TypeOK, Promise!Positions, SeqNo
  <2>4. \A n \in 1..pending[t] : Promise!Settled(n)
    BY <2>2, <2>3 DEF Settled, IsEvent, Promise!Settled
  <2> QED
    BY <2>1, <2>4 DEF Promise!Acknowledge
<1>6. ASSUME NEW t \in Tasks, TaskStep(t)
      PROVE  [Promise!Next]_(Promise!vars)
  <2>1. CASE \E p \in Partitions : WritePartition(t, p)
    BY <1>4, <2>1 DEF Promise!Next
  <2>2. CASE Commit(t) /\ pending[t] # None
    BY <1>5, <2>2 DEF Promise!Next
  <2>3. CASE ~(\E p \in Partitions : WritePartition(t, p)) /\ ~(Commit(t) /\ pending[t] # None)
    BY <1>1, <1>6, <2>3 DEF TaskStep, Start, Crash, LoadIterator, ReadBatch, ReadUpTo, Elapse,
       Commit, external
  <2> QED
    BY <2>1, <2>2, <2>3
<1> QED
  BY <1>1, <1>2, <1>3, <1>6 DEF Next, CloseShard, vars, external

(* The consumer implements its at-least-once promise: the bronze objects   *)
(* and the checkpoint behave as AtLeastOnce says, for any number of tasks. *)
THEOREM Implements == Spec => AtLeastOnceDelivery
<1>1. Init => Promise!Init
  BY DEF Init, Promise!Init, NoEvents, None
<1>2. IInv => CheckpointSafe
  BY DEF IInv
<1> QED
  BY InductiveInvariant, StepImplements, <1>1, <1>2, PTL
     DEF Spec, AtLeastOnceDelivery, Promise!Spec

-----------------------------------------------------------------------------
(* An open shard.  A reader of one keeps its iterator until its container  *)
(* stops, so that within one container positions only advance.  Three      *)
(* facts hold until the shard is closed.                                   *)

(* A task without an iterator has read nothing since it started, and what  *)
(* it would commit is no further than it has read.                         *)
ResumedBy(t) ==
    /\ pc[t] = "down" => iterator[t] = NoIterator
    /\ iterator[t] = NoIterator => pc[t] # "flush" /\ pending[t] = None
    /\ pending[t] # None => pending[t] <= iterator[t]

(* A task holds one copy of an event at most, and only of events it has    *)
(* read past.                                                              *)
InHand(t, n) == buffer[t][n] + batch[t][n]
OneCopyIn(t) ==
    \A n \in SeqNo : /\ InHand(t, n) <= 1
                     /\ InHand(t, n) > 0 => n <= iterator[t]

(* The running tasks that may still store event n: they hold it, or have   *)
(* not read as far.  Each of them has one start to itself.                 *)
Running == {t \in Tasks : pc[t] # "down"}
MayYetStore(t, n) == pc[t] # "down" /\ (iterator[t] < n \/ InHand(t, n) > 0)
MayStore(n) == {t \in Tasks : MayYetStore(t, n)}
StartsCover == \A n \in SeqNo : bronze[n] + Cardinality(MayStore(n)) <= starts

OnOpenShard ==
    ~closed => /\ \A t \in Tasks : ResumedBy(t) /\ OneCopyIn(t)
               /\ IsFiniteSet(Running)
               /\ StartsCover

(* A step of one task leaves the memory of the others alone. *)
LEMMA OthersKeep ==
    ASSUME TypeOK, NEW t \in Tasks, TaskStep(t), NEW u \in Tasks \ {t}
    PROVE  /\ pc'[u] = pc[u] /\ iterator'[u] = iterator[u] /\ pending'[u] = pending[u]
           /\ buffer'[u] = buffer[u] /\ batch'[u] = batch[u]
BY DEF TypeOK, TaskStep, Start, Crash, LoadIterator, ReadBatch, ReadUpTo, Elapse,
       WritePartition, Commit, external

(* A read on an open shard advances the iterator, makes pending the new    *)
(* position or leaves it, and takes in at most a copy of an event, of      *)
(* those between the old position and the new.                             *)
LEMMA ReadAdvances ==
    ASSUME IInv, ~closed, NEW t \in Tasks, ReadBatch(t)
    PROVE  /\ pc[t] = "poll" /\ pc'[t] # "down"
           /\ iterator[t] # NoIterator /\ iterator'[t] \in 0..Len(stream)
           /\ iterator'[t] >= iterator[t]
           /\ pending'[t] = pending[t] \/ pending'[t] = iterator'[t]
           /\ \A n \in SeqNo :
                  \/ InHand(t, n)' = InHand(t, n)
                  \/ /\ InHand(t, n)' = InHand(t, n) + 1
                     /\ iterator[t] < n /\ n <= iterator'[t]
           /\ UNCHANGED <<closed, bronze, checkpoint, starts>>
<1>1. PICK last : ReadUpTo(t, last)
  BY DEF ReadBatch
<1> DEFINE from == ReadFrom(t)
           events == Both(buffer[t], Parsed(from, last))
<1>2. /\ pc[t] = "poll" /\ last \in ReadEnds(from)
      /\ iterator[t] # NoIterator
      /\ iterator'[t] = NextIterator(from, last)
      /\ pending'[t] = NextPending(pending[t], from, last)
      /\ UNCHANGED <<closed, bronze, checkpoint, starts>>
  BY <1>1 DEF ReadUpTo, IInv, TypeOK, external
<1>3. from \in 0..Len(stream) /\ last \in from..Len(stream) /\ iterator[t] <= from
  BY <1>1, SizesAssumption DEF ReadUpTo, ReadFrom, ReadEnds, IInv, TypeOK, NoIterator
<1>4. iterator'[t] = last /\ (pending'[t] = pending[t] \/ pending'[t] = last)
  BY <1>2 DEF NextIterator, NextPending
<1>5. iterator[t] \in Int /\ iterator'[t] \in 0..Len(stream) /\ iterator'[t] >= iterator[t]
  BY <1>3, <1>4 DEF IInv, TypeOK, NoIterator
<1>6. \/ pc'[t] = "flush" /\ buffer'[t] = NoEvents /\ batch'[t] = events
      \/ pc'[t] = "poll" /\ buffer'[t] = events /\ batch'[t] = batch[t]
  BY <1>1, <1>2 DEF ReadUpTo, IInv, TypeOK
<1>7. batch[t] = NoEvents
  BY <1>2 DEF IInv, Phases
<1>8. ASSUME NEW n \in SeqNo
      PROVE  \/ InHand(t, n)' = InHand(t, n)
             \/ /\ InHand(t, n)' = InHand(t, n) + 1
                /\ iterator[t] < n /\ n <= iterator'[t]
  <2>1. buffer[t][n] \in Nat /\ n \in Int
    BY BoundsAssumption DEF IInv, TypeOK, Bags, SeqNo
  <2>2. NoEvents[n] = 0
    BY DEF NoEvents
  <2>3. InHand(t, n) = buffer[t][n]
    BY <1>7, <2>1, <2>2 DEF InHand
  <2>4. events[n] = buffer[t][n] + Parsed(from, last)[n]
    BY DEF Both
  <2>5. \/ Parsed(from, last)[n] = 0
        \/ Parsed(from, last)[n] = 1 /\ from < n /\ n <= last
    BY DEF Parsed
  <2> HIDE DEF events, from
  <2>6. InHand(t, n)' = events[n]
    BY <1>6, <1>7, <2>1, <2>2, <2>4, <2>5 DEF InHand
  <2> QED
    BY <1>3, <1>4, <1>5, <2>1, <2>3, <2>4, <2>5, <2>6
<1> QED
  BY <1>2, <1>4, <1>5, <1>6, <1>8

(* A write moves the copies of an event that a task holds in its batch to  *)
(* bronze, or leaves the event for another partition's object.             *)
LEMMA WriteMoves ==
    ASSUME IInv, NEW t \in Tasks, NEW p \in Partitions, WritePartition(t, p)
    PROVE  /\ UNCHANGED <<closed, checkpoint, starts, pc, iterator, pending>>
           /\ \A n \in SeqNo :
                  \/ bronze'[n] = bronze[n] /\ InHand(t, n)' = InHand(t, n)
                  \/ /\ bronze'[n] = bronze[n] + InHand(t, n)
                     /\ InHand(t, n)' = 0
<1>1. /\ UNCHANGED <<closed, checkpoint, starts, pc, iterator, pending, buffer>>
      /\ bronze' = Both(bronze, Group(batch[t], p))
      /\ batch'[t] = Ungrouped(batch[t], p)
      /\ buffer[t] = NoEvents
  BY DEF WritePartition, external, IInv, TypeOK, Phases
<1>2. ASSUME NEW n \in SeqNo
      PROVE  \/ bronze'[n] = bronze[n] /\ InHand(t, n)' = InHand(t, n)
             \/ bronze'[n] = bronze[n] + InHand(t, n) /\ InHand(t, n)' = 0
  <2>1. /\ bronze[n] \in Nat /\ batch[t][n] \in Nat
        /\ buffer[t][n] = 0 /\ buffer'[t][n] = 0
    BY <1>1 DEF IInv, TypeOK, Bags, NoEvents
  <2>2. InHand(t, n) = batch[t][n] /\ InHand(t, n)' = batch'[t][n]
    <3>1. batch[t] \in Bags /\ batch'[t] \in Bags
      BY <1>1, BagType DEF IInv, TypeOK
    <3>2. batch'[t][n] \in Nat
      BY <3>1 DEF Bags
    <3> QED
      BY <2>1, <3>2 DEF InHand
  <2>3. /\ bronze'[n] = bronze[n] + Group(batch[t], p)[n]
        /\ batch'[t][n] = Ungrouped(batch[t], p)[n]
    BY <1>1 DEF Both
  <2>4. CASE IsEvent(n) /\ stream[n] = p
    BY <2>1, <2>2, <2>3, <2>4 DEF Group, Ungrouped
  <2>5. CASE ~(IsEvent(n) /\ stream[n] = p)
    BY <2>1, <2>2, <2>3, <2>5 DEF Group, Ungrouped
  <2> QED
    BY <2>4, <2>5
<1> QED
  BY <1>1, <1>2

(* A copy in hand is a number of copies. *)
LEMMA InHandType ==
    ASSUME TypeOK, NEW t \in Tasks, NEW n \in SeqNo
    PROVE  InHand(t, n) \in Nat /\ bronze[n] \in Nat /\ n \in Nat \ {0} /\ iterator[t] \in Int
<1>1. buffer[t] \in Bags /\ batch[t] \in Bags /\ bronze \in Bags
  BY DEF TypeOK
<1>2. buffer[t][n] \in Nat /\ batch[t][n] \in Nat /\ bronze[n] \in Nat
  BY <1>1 DEF Bags
<1>3. n \in Nat \ {0}
  BY BoundsAssumption DEF SeqNo
<1>4. iterator[t] \in Int
  BY DEF TypeOK, NoIterator
<1> QED
  BY <1>2, <1>3, <1>4 DEF InHand

(* While the shard is open, every step keeps what a task has read and      *)
(* holds in step.                                                          *)
LEMMA TasksStep ==
    ASSUME IInv, TypeOK', OnOpenShard, ~closed', [Next]_vars, NEW u \in Tasks
    PROVE  ResumedBy(u)' /\ OneCopyIn(u)'
<1>1. ~closed
  BY DEF Next, Publish, Expire, CloseShard, TaskStep, Start, Crash, LoadIterator, ReadBatch,
         ReadUpTo, Elapse, WritePartition, Commit, vars, external
<1>2. ResumedBy(u) /\ OneCopyIn(u)
  BY <1>1 DEF OnOpenShard
<1>3. ASSUME pc'[u] = pc[u], iterator'[u] = iterator[u], pending'[u] = pending[u],
             buffer'[u] = buffer[u], batch'[u] = batch[u]
      PROVE  ResumedBy(u)' /\ OneCopyIn(u)'
  BY <1>2, <1>3 DEF ResumedBy, OneCopyIn, InHand
<1>4. CASE Publish \/ Expire \/ CloseShard \/ UNCHANGED vars
  BY <1>3, <1>4 DEF Publish, Expire, CloseShard, vars, memory
<1>5. CASE TaskStep(u)
  <2> USE DEF IInv
  <2>1. CASE Start(u)
    <3>1. /\ pc'[u] = "poll" /\ pc[u] = "down"
          /\ UNCHANGED <<iterator, pending, buffer, batch>>
      BY <2>1 DEF Start, TypeOK
    <3> QED
      BY <1>2, <3>1 DEF ResumedBy, OneCopyIn, InHand
  <2>2. CASE Crash(u)
    <3>1. /\ pc'[u] = "down" /\ iterator'[u] = NoIterator /\ pending'[u] = None
          /\ buffer'[u] = NoEvents /\ batch'[u] = NoEvents
      BY <2>2 DEF Crash, TypeOK
    <3>2. \A n \in SeqNo : InHand(u, n)' = 0
      BY <3>1 DEF InHand, NoEvents
    <3> QED
      BY <3>1, <3>2 DEF ResumedBy, OneCopyIn
  <2>3. CASE LoadIterator(u)
    <3>1. /\ pc[u] = "poll" /\ iterator[u] = NoIterator /\ iterator'[u] = checkpoint
          /\ UNCHANGED <<pc, pending, buffer, batch>>
      BY <2>3 DEF LoadIterator, ResumePoint, TypeOK
    <3>2. \A n \in SeqNo : InHand(u, n) = 0
      BY <1>2, <3>1, InHandType DEF OneCopyIn, NoIterator
    <3>3. \A n \in SeqNo : InHand(u, n)' = 0
      BY <3>1, <3>2 DEF InHand
    <3>4. iterator'[u] # NoIterator
      BY <3>1 DEF TypeOK, NoIterator
    <3> QED
      BY <1>2, <3>1, <3>3, <3>4 DEF ResumedBy, OneCopyIn
  <2>4. CASE ReadBatch(u)
    <3>1. /\ pc[u] = "poll" /\ pc'[u] # "down"
          /\ iterator[u] # NoIterator /\ iterator'[u] \in 0..Len(stream)
          /\ iterator'[u] >= iterator[u]
          /\ pending'[u] = pending[u] \/ pending'[u] = iterator'[u]
          /\ \A n \in SeqNo :
                 \/ InHand(u, n)' = InHand(u, n)
                 \/ /\ InHand(u, n)' = InHand(u, n) + 1
                    /\ iterator[u] < n /\ n <= iterator'[u]
      BY <1>1, <2>4, ReadAdvances
    <3>2. iterator[u] \in Int /\ pending[u] \in Int /\ Len(stream) \in Nat
      BY DEF TypeOK, NoIterator
    <3>3. ResumedBy(u)'
      BY <1>2, <3>1, <3>2 DEF ResumedBy, NoIterator
    <3>4. ASSUME NEW n \in SeqNo
          PROVE  InHand(u, n)' <= 1 /\ (InHand(u, n)' > 0 => n <= iterator'[u])
      <4>1. InHand(u, n) \in Nat /\ n \in Int
        BY InHandType
      <4>2. InHand(u, n) <= 1 /\ (InHand(u, n) > 0 => n <= iterator[u])
        BY <1>2 DEF OneCopyIn
      <4>3. CASE InHand(u, n)' = InHand(u, n)
        BY <3>1, <3>2, <4>1, <4>2, <4>3
      <4>4. CASE InHand(u, n)' = InHand(u, n) + 1 /\ iterator[u] < n /\ n <= iterator'[u]
        BY <3>1, <3>2, <4>1, <4>2, <4>4
      <4> QED
        BY <3>1, <4>3, <4>4
    <3> QED
      BY <3>3, <3>4 DEF OneCopyIn
  <2>5. CASE Elapse(u)
    BY <1>3, <2>5 DEF Elapse
  <2>6. ASSUME NEW p \in Partitions, WritePartition(u, p)
        PROVE  ResumedBy(u)' /\ OneCopyIn(u)'
    <3>1. /\ UNCHANGED <<pc, iterator, pending>>
          /\ \A n \in SeqNo : InHand(u, n)' = InHand(u, n) \/ InHand(u, n)' = 0
      BY <2>6, WriteMoves
    <3> QED
      BY <1>2, <3>1 DEF ResumedBy, OneCopyIn
  <2>7. CASE Commit(u)
    BY <1>2, <2>7 DEF Commit, ResumedBy, OneCopyIn, InHand, TypeOK
  <2> QED
    BY <1>5, <2>1, <2>2, <2>3, <2>4, <2>5, <2>6, <2>7 DEF TaskStep
<1>6. ASSUME NEW t \in Tasks \ {u}, TaskStep(t) PROVE ResumedBy(u)' /\ OneCopyIn(u)'
  BY <1>3, <1>6, OthersKeep DEF IInv
<1> QED
  BY <1>4, <1>5, <1>6 DEF Next

(* Fewer tasks that may store an event are not more. *)
LEMMA Fewer ==
    ASSUME NEW S, IsFiniteSet(S), NEW T \in SUBSET S
    PROVE  /\ IsFiniteSet(T)
           /\ Cardinality(T) \in Nat /\ Cardinality(S) \in Nat
           /\ Cardinality(T) <= Cardinality(S)
BY FS_Subset, FS_CardinalityType, Zenon

(* Only a start makes a task one that may store an event. *)
LEMMA MayStoreStep ==
    ASSUME IInv, OnOpenShard, ~closed, NEW t \in Tasks, TaskStep(t), ~Start(t),
           NEW u \in Tasks, NEW n \in SeqNo, MayYetStore(u, n)'
    PROVE  MayYetStore(u, n)
<1>1. CASE u # t
  <2>1. pc'[u] = pc[u] /\ iterator'[u] = iterator[u] /\ InHand(u, n)' = InHand(u, n)
    BY <1>1, OthersKeep DEF IInv, InHand
  <2> QED
    BY <2>1 DEF MayYetStore
<1>2. CASE u = t
  <2> USE DEF IInv
  <2>1. CASE Crash(t)
    BY <1>2, <2>1 DEF Crash, TypeOK, MayYetStore
  <2>2. CASE LoadIterator(t)
    <3>1. pc[t] = "poll" /\ iterator[t] = NoIterator
      BY <2>2 DEF LoadIterator
    <3> QED
      BY <1>2, <3>1, InHandType DEF MayYetStore, NoIterator
  <2>3. CASE ReadBatch(t)
    <3>1. /\ pc[t] = "poll"
          /\ iterator'[t] \in Int /\ iterator'[t] >= iterator[t]
          /\ InHand(t, n)' = InHand(t, n) \/ iterator[t] < n
      BY <2>3, ReadAdvances DEF TypeOK
    <3>2. iterator[t] \in Int /\ n \in Int /\ InHand(t, n) \in Int
      BY InHandType
    <3> QED
      BY <1>2, <3>1, <3>2 DEF MayYetStore
  <2>4. CASE Elapse(t) \/ Commit(t)
    <3>1. /\ iterator'[t] = iterator[t] /\ InHand(t, n)' = InHand(t, n)
          /\ pc[t] # "down"
      <4>1. CASE Commit(t)
        BY <4>1 DEF Commit, InHand
      <4>2. CASE Elapse(t)
        <5>1. UNCHANGED <<pc, iterator, buffer, batch>>
          BY <4>2 DEF Elapse
        <5>2. pc[t] # "down"
          BY <1>2, <5>1 DEF MayYetStore
        <5> QED
          BY <5>1, <5>2 DEF InHand
      <4> QED
        BY <2>4, <4>1, <4>2
    <3> QED
      BY <1>2, <3>1 DEF MayYetStore
  <2>5. ASSUME NEW p \in Partitions, WritePartition(t, p)
        PROVE  MayYetStore(u, n)
    <3>1. /\ UNCHANGED <<pc, iterator>>
          /\ InHand(t, n)' = InHand(t, n) \/ InHand(t, n)' = 0
      BY <2>5, WriteMoves
    <3> QED
      BY <1>2, <3>1 DEF MayYetStore
  <2> QED
    BY <2>1, <2>2, <2>3, <2>4, <2>5 DEF TaskStep
<1> QED
  BY <1>1, <1>2

(* Every start covers one copy of each event: the one its task may yet     *)
(* store, or has.                                                          *)
LEMMA CoverStep ==
    ASSUME IInv, TypeOK', OnOpenShard, ~closed, [Next]_vars
    PROVE  IsFiniteSet(Running') /\ StartsCover'
<1>1. IsFiniteSet(Running) /\ StartsCover
  BY DEF OnOpenShard
<1>2. \A n \in SeqNo : MayStore(n) \subseteq Running /\ MayStore(n)' \subseteq Running'
  BY DEF MayStore, MayYetStore, Running
<1>3. \A n \in SeqNo : bronze[n] \in Nat /\ starts \in Nat /\ starts' \in Nat
  BY BoundsAssumption DEF IInv, TypeOK, Bags
<1>4. ASSUME Running' \subseteq Running, bronze' = bronze, starts' = starts,
             \A n \in SeqNo : MayStore(n)' \subseteq MayStore(n)
      PROVE  IsFiniteSet(Running') /\ StartsCover'
  <2>1. ASSUME NEW n \in SeqNo
        PROVE  bronze'[n] + Cardinality(MayStore(n)') <= starts'
    <3>1. IsFiniteSet(MayStore(n))
      BY <1>1, <1>2, Fewer
    <3>2. /\ Cardinality(MayStore(n)') \in Nat /\ Cardinality(MayStore(n)) \in Nat
          /\ Cardinality(MayStore(n)') <= Cardinality(MayStore(n))
      BY <1>4, <3>1, Fewer
    <3>3. bronze[n] + Cardinality(MayStore(n)) <= starts
      BY <1>1 DEF StartsCover
    <3> QED
      BY <1>3, <1>4, <3>2, <3>3
  <2> QED
    BY <1>1, <1>4, <2>1, Fewer DEF StartsCover
<1>5. CASE Publish \/ Expire \/ CloseShard \/ UNCHANGED vars
  <2>1. UNCHANGED <<bronze, starts, pc, iterator, buffer, batch>>
    BY <1>5 DEF Publish, Expire, CloseShard, vars, memory
  <2>2. Running' = Running /\ \A n \in SeqNo : MayStore(n)' = MayStore(n)
    BY <2>1 DEF Running, MayStore, MayYetStore, InHand
  <2> QED
    BY <1>4, <2>1, <2>2
<1>6. ASSUME NEW t \in Tasks, Start(t)
      PROVE  IsFiniteSet(Running') /\ StartsCover'
  <2>1. /\ starts' = starts + 1 /\ bronze' = bronze
        /\ UNCHANGED <<iterator, buffer, batch>>
        /\ \A u \in Tasks \ {t} : pc'[u] = pc[u]
    BY <1>6 DEF Start, IInv, TypeOK
  <2>2. Running' \subseteq Running \cup {t}
    BY <2>1 DEF Running
  <2>3. IsFiniteSet(Running')
    BY <1>1, <2>2, FS_AddElement, Fewer
  <2>4. ASSUME NEW n \in SeqNo
        PROVE  bronze'[n] + Cardinality(MayStore(n)') <= starts'
    <3>1. MayStore(n)' \subseteq MayStore(n) \cup {t}
      BY <2>1 DEF MayStore, MayYetStore, InHand
    <3>2. IsFiniteSet(MayStore(n))
      BY <1>1, <1>2, Fewer
    <3>3. /\ IsFiniteSet(MayStore(n) \cup {t})
          /\ \/ Cardinality(MayStore(n) \cup {t}) = Cardinality(MayStore(n))
             \/ Cardinality(MayStore(n) \cup {t}) = Cardinality(MayStore(n)) + 1
      BY <3>2, FS_AddElement
    <3>4. /\ Cardinality(MayStore(n)') \in Nat /\ Cardinality(MayStore(n)) \in Nat
          /\ Cardinality(MayStore(n)') <= Cardinality(MayStore(n) \cup {t})
      BY <3>1, <3>2, <3>3, Fewer, FS_CardinalityType
    <3>5. bronze[n] + Cardinality(MayStore(n)) <= starts
      BY <1>1 DEF StartsCover
    <3> QED
      BY <1>3, <2>1, <3>3, <3>4, <3>5
  <2> QED
    BY <2>3, <2>4 DEF StartsCover
<1>7. ASSUME NEW t \in Tasks, TaskStep(t), ~Start(t)
      PROVE  IsFiniteSet(Running') /\ StartsCover'
  <2>1. \A n \in SeqNo : MayStore(n)' \subseteq MayStore(n)
    BY <1>7, MayStoreStep DEF MayStore
  <2>2. Running' \subseteq Running
    <3>1. ASSUME pc[t] = "down" PROVE pc' = pc
      BY <1>7, <3>1 DEF TaskStep, Crash, LoadIterator, ReadBatch, ReadUpTo, Elapse,
         WritePartition, Commit
    <3>2. \A u \in Tasks \ {t} : pc'[u] = pc[u]
      BY <1>7, OthersKeep DEF IInv
    <3> QED
      BY <3>1, <3>2 DEF Running
  <2>3. CASE bronze' = bronze /\ starts' = starts
    BY <1>4, <2>1, <2>2, <2>3
  <2>4. ASSUME NEW p \in Partitions, WritePartition(t, p)
        PROVE  IsFiniteSet(Running') /\ StartsCover'
    <3>1. /\ starts' = starts
          /\ \A n \in SeqNo :
                 \/ bronze'[n] = bronze[n] /\ InHand(t, n)' = InHand(t, n)
                 \/ bronze'[n] = bronze[n] + InHand(t, n) /\ InHand(t, n)' = 0
          /\ iterator' = iterator
      BY <2>4, WriteMoves
    <3>2. pc[t] # "down"
      BY <2>4 DEF WritePartition
    <3>3. ASSUME NEW n \in SeqNo
          PROVE  bronze'[n] + Cardinality(MayStore(n)') <= starts'
      <4>1. IsFiniteSet(MayStore(n))
        BY <1>1, <1>2, Fewer
      <4>2. /\ Cardinality(MayStore(n)') \in Nat /\ Cardinality(MayStore(n)) \in Nat
            /\ Cardinality(MayStore(n)') <= Cardinality(MayStore(n))
        BY <2>1, <4>1, Fewer
      <4>3. bronze[n] + Cardinality(MayStore(n)) <= starts
        BY <1>1 DEF StartsCover
      <4>4. /\ InHand(t, n) \in Nat /\ InHand(t, n) <= 1
            /\ InHand(t, n) > 0 => n <= iterator[t]
            /\ n \in Int /\ iterator[t] \in Int
        BY InHandType DEF OnOpenShard, OneCopyIn, IInv
      <4>5. CASE bronze'[n] = bronze[n]
        BY <1>3, <3>1, <4>2, <4>3, <4>5
      <4>6. CASE bronze'[n] # bronze[n]
        <5>1. InHand(t, n) = 1 /\ InHand(t, n)' = 0 /\ bronze'[n] = bronze[n] + 1
          BY <1>3, <3>1, <4>4, <4>6
        <5>2. t \in MayStore(n)
          BY <3>2, <5>1 DEF MayStore, MayYetStore
        <5>3. ~(iterator'[t] < n)
          BY <3>1, <4>4, <5>1
        <5>4. t \notin MayStore(n)'
          BY <5>1, <5>3 DEF MayStore, MayYetStore
        <5>5. MayStore(n)' \subseteq MayStore(n) \ {t}
          BY <2>1, <5>4
        <5>6. /\ IsFiniteSet(MayStore(n) \ {t})
              /\ Cardinality(MayStore(n) \ {t}) = Cardinality(MayStore(n)) - 1
          BY <4>1, <5>2, FS_RemoveElement
        <5>7. Cardinality(MayStore(n)') <= Cardinality(MayStore(n) \ {t})
          BY <5>5, <5>6, Fewer
        <5> QED
          BY <1>3, <3>1, <4>2, <4>3, <5>1, <5>6, <5>7
      <4> QED
        BY <4>5, <4>6
    <3>4. IsFiniteSet(Running')
      BY <1>1, <2>2, Fewer
    <3> QED
      BY <3>3, <3>4 DEF StartsCover
  <2> QED
    BY <1>7, <2>3, <2>4 DEF TaskStep, Crash, LoadIterator, ReadBatch, ReadUpTo, Elapse, Commit
<1> QED
  BY <1>5, <1>6, <1>7 DEF Next

(* The invariant of an open shard holds initially and is kept. *)
LEMMA OpenShardInvariant ==
    /\ Init => OnOpenShard
    /\ IInv /\ OnOpenShard /\ [Next]_vars => OnOpenShard'
<1>1. ASSUME Init PROVE OnOpenShard
  <2>1. \A t \in Tasks : /\ pc[t] = "down" /\ iterator[t] = NoIterator /\ pending[t] = None
                         /\ \A n \in SeqNo : InHand(t, n) = 0
    BY <1>1 DEF Init, InHand, NoEvents
  <2>2. Running = {} /\ \A n \in SeqNo : MayStore(n) = {}
    BY <2>1 DEF Running, MayStore, MayYetStore
  <2>3. IsFiniteSet(Running) /\ \A n \in SeqNo : Cardinality(MayStore(n)) = 0
    BY <2>2, FS_EmptySet
  <2>4. StartsCover
    BY <1>1, <2>3 DEF Init, StartsCover, NoEvents
  <2> QED
    BY <2>1, <2>3, <2>4 DEF OnOpenShard, ResumedBy, OneCopyIn
<1>2. ASSUME IInv, OnOpenShard, [Next]_vars PROVE OnOpenShard'
  <2> SUFFICES ASSUME ~closed'
               PROVE  OnOpenShard'
    BY DEF OnOpenShard
  <2>1. ~closed
    BY <1>2 DEF Next, Publish, Expire, CloseShard, TaskStep, Start, Crash, LoadIterator,
       ReadBatch, ReadUpTo, Elapse, WritePartition, Commit, vars, external
  <2>2. TypeOK'
    BY <1>2, TypeStep DEF IInv
  <2>3. \A u \in Tasks : ResumedBy(u)' /\ OneCopyIn(u)'
    BY <1>2, <2>2, TasksStep
  <2>4. IsFiniteSet(Running') /\ StartsCover'
    BY <1>2, <2>1, <2>2, CoverStep
  <2> QED
    BY <2>3, <2>4 DEF OnOpenShard
<1> QED
  BY <1>1, <1>2

(* However many containers overlap, crash and resume, bronze on an open    *)
(* shard has no more copies of an event than containers were started: no   *)
(* container stores an event twice.                                        *)
THEOREM CopiesFromStarts == Spec => []CopiesBounded
<1>1. IInv /\ OnOpenShard => CopiesBounded
  <2> SUFFICES ASSUME IInv, OnOpenShard, ~closed, NEW n \in SeqNo
               PROVE  bronze[n] <= starts
    BY DEF CopiesBounded
  <2>1. bronze[n] + Cardinality(MayStore(n)) <= starts
    BY DEF OnOpenShard, StartsCover
  <2>2. IsFiniteSet(Running) /\ MayStore(n) \in SUBSET Running
    BY DEF OnOpenShard, MayStore, MayYetStore, Running
  <2>3. Cardinality(MayStore(n)) \in Nat
    BY <2>2, Fewer
  <2>4. bronze[n] \in Nat /\ starts \in Nat
    BY BoundsAssumption DEF IInv, TypeOK, Bags
  <2> QED
    BY <2>1, <2>3, <2>4
<1> QED
  BY InductiveInvariant, OpenShardInvariant, <1>1, PTL DEF Spec

-----------------------------------------------------------------------------
(* One task at a time on an open shard. *)

OneTask == \A t, u \in Tasks : t = u

(* A task resumed at the saved position or after it, and what it would     *)
(* commit is not before it.  It takes the task to be the only one: another *)
(* could save a later position meanwhile.                                  *)
ForwardOf(t) ==
    /\ iterator[t] # NoIterator => iterator[t] >= checkpoint
    /\ pending[t] # None => pending[t] >= checkpoint
Forward == ~closed => \A t \in Tasks : ForwardOf(t)

LEMMA ForwardStep ==
    ASSUME OneTask, IInv, TypeOK', OnOpenShard, Forward, [Next]_vars
    PROVE  Forward'
<1> SUFFICES ASSUME ~closed', NEW u \in Tasks PROVE ForwardOf(u)'
  BY DEF Forward
<1>1. ~closed
  BY DEF Next, Publish, Expire, CloseShard, TaskStep, Start, Crash, LoadIterator, ReadBatch,
         ReadUpTo, Elapse, WritePartition, Commit, vars, external
<1>2. ForwardOf(u) /\ ResumedBy(u)
  BY <1>1 DEF Forward, OnOpenShard
<1>3. ASSUME iterator'[u] = iterator[u], pending'[u] = pending[u], checkpoint' = checkpoint
      PROVE  ForwardOf(u)'
  BY <1>2, <1>3 DEF ForwardOf
<1>4. CASE Publish \/ Expire \/ CloseShard \/ UNCHANGED vars
  BY <1>3, <1>4 DEF Publish, Expire, CloseShard, vars, memory
<1>5. ASSUME TaskStep(u) PROVE ForwardOf(u)'
  <2> USE DEF IInv
  <2>1. CASE Start(u) \/ Elapse(u)
    BY <1>3, <2>1 DEF Start, Elapse
  <2>2. CASE Crash(u)
    BY <2>2 DEF Crash, TypeOK, ForwardOf
  <2>3. CASE LoadIterator(u)
    <3>1. /\ iterator'[u] = checkpoint /\ checkpoint' = checkpoint /\ pending' = pending
      BY <2>3 DEF LoadIterator, ResumePoint, TypeOK
    <3> QED
      BY <1>2, <3>1 DEF ForwardOf, TypeOK
  <2>4. CASE ReadBatch(u)
    <3>1. /\ iterator[u] # NoIterator
          /\ iterator'[u] \in 0..Len(stream) /\ iterator'[u] >= iterator[u]
          /\ pending'[u] = pending[u] \/ pending'[u] = iterator'[u]
          /\ checkpoint' = checkpoint
      BY <1>1, <2>4, ReadAdvances
    <3>2. iterator[u] \in Int /\ checkpoint \in Int /\ Len(stream) \in Nat
      BY DEF TypeOK, NoIterator
    <3> QED
      BY <1>2, <3>1, <3>2 DEF ForwardOf
  <2>5. ASSUME NEW p \in Partitions, WritePartition(u, p) PROVE ForwardOf(u)'
    BY <1>3, <2>5 DEF WritePartition
  <2>6. CASE Commit(u)
    <3>1. /\ UNCHANGED <<iterator, pending>> /\ pc[u] = "flush"
          /\ checkpoint' = IF pending[u] # None THEN pending[u] ELSE checkpoint
      BY <2>6 DEF Commit
    <3>2. pending[u] \in Int /\ iterator[u] \in Int
      BY DEF TypeOK, NoIterator
    <3> QED
      BY <1>2, <3>1, <3>2 DEF ForwardOf, ResumedBy
  <2> QED
    BY <1>5, <2>1, <2>2, <2>3, <2>4, <2>5, <2>6 DEF TaskStep
<1> QED
  BY <1>4, <1>5 DEF Next, OneTask

(* A single task never moves the saved position of an open shard back,     *)
(* however often its container is replaced.                                *)
THEOREM CheckpointAdvances ==
    ASSUME OneTask
    PROVE  Spec => CheckpointMonotone
<1>1. Init => Forward
  BY DEF Init, Forward, ForwardOf
<1>2. IInv /\ OnOpenShard /\ Forward /\ [Next]_vars => Forward'
  BY ForwardStep, TypeStep DEF IInv
<1>3. IInv /\ OnOpenShard /\ Forward /\ [Next]_vars
          => [~closed => checkpoint' >= checkpoint]_checkpoint
  <2> SUFFICES ASSUME IInv, OnOpenShard, Forward, [Next]_vars,
                      ~closed, checkpoint' # checkpoint
               PROVE  checkpoint' >= checkpoint
    OBVIOUS
  <2>1. PICK t \in Tasks : Commit(t) /\ pending[t] # None
    BY DEF Next, Publish, Expire, CloseShard, TaskStep, Start, Crash, LoadIterator,
       ReadBatch, ReadUpTo, Elapse, WritePartition, Commit, vars
  <2>2. checkpoint' = pending[t] /\ ForwardOf(t)
    BY <2>1 DEF Commit, Forward
  <2> QED
    BY <2>1, <2>2 DEF ForwardOf
<1> QED
  BY InductiveInvariant, OpenShardInvariant, <1>1, <1>2, <1>3, PTL
     DEF Spec, CheckpointMonotone

-----------------------------------------------------------------------------
(* Sums.  What the fold of SumFunctionOnSet makes of a set of indices,     *)
(* from what f makes of the set without one of them.  The provers have no  *)
(* induction over operators, so it is done over sets: of the naturals, and *)
(* of the subsets of a finite set, that have the property.                 *)

Picked(s) == CHOOSE x \in s : TRUE
Plus(fun, f, s) == IF s = {} THEN 0 ELSE fun[Picked(s)] + f[s \ {Picked(s)}]
Sums(fun, S, f) == f = [s \in SUBSET S |-> Plus(fun, f, s)]

LEMMA SumIsFold ==
    ASSUME NEW fun, NEW S
    PROVE  SumFunctionOnSet(fun, S) = (CHOOSE f : Sums(fun, S, f))[S]
BY DEF SumFunctionOnSet, FoldFunctionOnSet, MapThenFoldSet, Sums, Plus, Picked

(* A set of naturals has a least. *)
LEMMA Least ==
    ASSUME NEW T \in SUBSET Nat, T # {}
    PROVE  \E m \in T : \A n \in T : m <= n
<1>1. PICK m \in T : \A n \in T : <<n, m>> \notin OpToRel(<, Nat)
  BY NatLessThanWellFounded, WFMin, Zenon
<1>2. \A n \in T : ~(n < m)
  BY <1>1 DEF OpToRel
<1> QED
  BY <1>2

(* Induction over the naturals, for a set of them. *)
LEMMA AllNaturals ==
    ASSUME NEW P, 0 \in P, \A n \in Nat : n \in P => n + 1 \in P
    PROVE  Nat \subseteq P
<1> DEFINE Out == Nat \ P
<1> SUFFICES ASSUME Out # {} PROVE FALSE
  OBVIOUS
<1>1. PICK m \in Out : \A n \in Out : m <= n
  BY Least
<1>2. m - 1 \in Nat /\ m - 1 \notin Out
  BY <1>1
<1> QED
  BY <1>1, <1>2

(* The subsets of a finite set that a step looks at are smaller. *)
LEMMA Smaller ==
    ASSUME NEW S, IsFiniteSet(S), NEW s \in SUBSET S
    PROVE  /\ IsFiniteSet(s) /\ Cardinality(s) \in Nat
           /\ s # {} => /\ Picked(s) \in s /\ s \ {Picked(s)} \in SUBSET S
                        /\ Cardinality(s) >= 1
                        /\ Cardinality(s \ {Picked(s)}) = Cardinality(s) - 1
<1>1. IsFiniteSet(s) /\ Cardinality(s) \in Nat
  BY FS_Subset, FS_CardinalityType
<1>2. ASSUME s # {} PROVE Picked(s) \in s
  BY <1>2 DEF Picked
<1>3. ASSUME s # {} PROVE Cardinality(s) # 0
  BY <1>1, <1>3, FS_EmptySet
<1>4. ASSUME s # {} PROVE Cardinality(s \ {Picked(s)}) = Cardinality(s) - 1
  BY <1>1, <1>2, <1>4, FS_RemoveElement
<1> QED
  BY <1>1, <1>2, <1>3, <1>4

(* The recursive definition of the fold has a solution on a finite set.    *)
LEMMA SumsExist ==
    ASSUME NEW fun, NEW S, IsFiniteSet(S), \A x \in S : fun[x] \in Int
    PROVE  \E f \in [SUBSET S -> Int] : Sums(fun, S, f)
<1> DEFINE UpTo(n, f) == \A s \in SUBSET S : Cardinality(s) <= n => f[s] = Plus(fun, f, s)
           P == {n \in Nat : \E f \in [SUBSET S -> Int] : UpTo(n, f)}
<1>1. 0 \in P
  <2> DEFINE z == [s \in SUBSET S |-> 0]
  <2>1. ASSUME NEW s \in SUBSET S, Cardinality(s) <= 0 PROVE s = {}
    <3>1. IsFiniteSet(s) /\ Cardinality(s) \in Nat
      BY Smaller
    <3> QED
      BY <2>1, <3>1, FS_EmptySet
  <2>2. UpTo(0, z)
    BY <2>1 DEF Plus
  <2>3. z \in [SUBSET S -> Int]
    OBVIOUS
  <2> HIDE DEF z, UpTo
  <2> QED
    BY <2>2, <2>3
<1>2. ASSUME NEW n \in Nat, n \in P PROVE n + 1 \in P
  <2>1. PICK f \in [SUBSET S -> Int] : UpTo(n, f)
    BY <1>2
  <2> DEFINE g == [s \in SUBSET S |-> IF Cardinality(s) <= n THEN f[s] ELSE Plus(fun, f, s)]
  <2>2. ASSUME NEW s \in SUBSET S PROVE Plus(fun, f, s) \in Int
    BY Smaller DEF Plus
  <2>3. g \in [SUBSET S -> Int]
    BY <2>2
  <2>4. ASSUME NEW s \in SUBSET S, Cardinality(s) <= n + 1 PROVE g[s] = Plus(fun, g, s)
    <3>1. g[s] = Plus(fun, f, s)
      BY <2>1
    <3>2. CASE s = {}
      BY <3>1, <3>2 DEF Plus
    <3>3. CASE s # {}
      <4>1. s \ {Picked(s)} \in SUBSET S /\ Cardinality(s \ {Picked(s)}) <= n
        BY <2>4, <3>3, Smaller
      <4>2. g[s \ {Picked(s)}] = f[s \ {Picked(s)}]
        BY <4>1
      <4> QED
        BY <3>1, <3>3, <4>2 DEF Plus
    <3> QED
      BY <3>2, <3>3
  <2> HIDE DEF g
  <2> QED
    BY <2>3, <2>4
<1>3. Cardinality(S) \in Nat /\ Cardinality(S) \in P
  <2>1. Cardinality(S) \in Nat
    BY FS_CardinalityType
  <2> HIDE DEF P
  <2> QED
    BY <1>1, <1>2, <2>1, AllNaturals
<1>4. PICK f \in [SUBSET S -> Int] : UpTo(Cardinality(S), f)
  BY <1>3
<1>5. \A s \in SUBSET S : Cardinality(s) <= Cardinality(S)
  BY FS_Subset
<1>6. f = [s \in SUBSET S |-> Plus(fun, f, s)]
  BY <1>4, <1>5
<1> QED
  BY <1>6 DEF Sums

(* Solutions agree where both are defined. *)
LEMMA SumsAgree ==
    ASSUME NEW fun, NEW S, IsFiniteSet(S), NEW T \in SUBSET S,
           NEW f, NEW g, Sums(fun, S, f), Sums(fun, T, g)
    PROVE  f[T] = g[T]
<1> DEFINE P == {n \in Nat : \A s \in SUBSET T : Cardinality(s) = n => f[s] = g[s]}
<1>1. IsFiniteSet(T) /\ Cardinality(T) \in Nat
  BY FS_Subset, FS_CardinalityType
<1>2. \A s \in SUBSET T : f[s] = Plus(fun, f, s) /\ g[s] = Plus(fun, g, s)
  BY DEF Sums
<1>3. 0 \in P
  <2>1. ASSUME NEW s \in SUBSET T, Cardinality(s) = 0 PROVE s = {}
    <3>1. IsFiniteSet(s)
      BY <1>1, Smaller
    <3> QED
      BY <2>1, <3>1, FS_EmptySet
  <2> QED
    BY <1>2, <2>1 DEF Plus
<1>4. ASSUME NEW n \in Nat, n \in P PROVE n + 1 \in P
  <2> SUFFICES ASSUME NEW s \in SUBSET T, Cardinality(s) = n + 1 PROVE f[s] = g[s]
    OBVIOUS
  <2>1. s # {}
    BY FS_EmptySet
  <2>2. s \ {Picked(s)} \in SUBSET T /\ Cardinality(s \ {Picked(s)}) = n
    BY <1>1, <2>1, Smaller
  <2>3. f[s \ {Picked(s)}] = g[s \ {Picked(s)}]
    BY <1>4, <2>2
  <2> QED
    BY <1>2, <2>1, <2>3 DEF Plus
<1>5. Cardinality(T) \in P
  <2> HIDE DEF P
  <2> QED
    BY <1>1, <1>3, <1>4, AllNaturals
<1> QED
  BY <1>5

(* The sum over no index, *)
LEMMA SumOfNone ==
    ASSUME NEW fun
    PROVE  SumFunctionOnSet(fun, {}) = 0
<1> DEFINE sums == CHOOSE f : Sums(fun, {}, f)
<1>1. \E f : Sums(fun, {}, f)
  BY FS_EmptySet, SumsExist
<1>2. Sums(fun, {}, sums)
  BY <1>1, Zenon
<1>3. sums[{}] = Plus(fun, sums, {})
  BY <1>2 DEF Sums
<1> QED
  BY <1>3, SumIsFold DEF Plus

(* and over some. *)
LEMMA SumSplits ==
    ASSUME NEW fun, NEW S, IsFiniteSet(S), S # {}, \A x \in S : fun[x] \in Int
    PROVE  /\ Picked(S) \in S
           /\ SumFunctionOnSet(fun, S)
                  = fun[Picked(S)] + SumFunctionOnSet(fun, S \ {Picked(S)})
<1> DEFINE sums(T) == CHOOSE f : Sums(fun, T, f)
<1>1. ASSUME NEW T \in SUBSET S PROVE Sums(fun, T, sums(T))
  <2>1. IsFiniteSet(T) /\ \A x \in T : fun[x] \in Int
    BY FS_Subset
  <2>2. \E f : Sums(fun, T, f)
    BY <2>1, SumsExist
  <2> QED
    BY <2>2, Zenon
<1>2. \A T : SumFunctionOnSet(fun, T) = sums(T)[T]
  BY SumIsFold
<1> HIDE DEF sums
<1>3. \A T \in SUBSET S : sums(T)[T] = Plus(fun, sums(T), T)
  BY <1>1 DEF Sums
<1> DEFINE T == S \ {Picked(S)}
<1>4. Picked(S) \in S /\ T \in SUBSET S
  BY Smaller
<1>5. sums(S)[T] = sums(T)[T]
  BY <1>1, <1>4, SumsAgree
<1>6. sums(S)[S] = fun[Picked(S)] + sums(S)[T]
  BY <1>3 DEF Plus
<1> QED
  BY <1>2, <1>4, <1>5, <1>6

(* Induction over the subsets of a finite set, for a set of them.          *)
LEMMA AllSubsets ==
    ASSUME NEW S, IsFiniteSet(S), NEW P, {} \in P,
           \A T \in SUBSET S : T # {} /\ T \ {Picked(T)} \in P => T \in P
    PROVE  S \in P
<1> DEFINE N == {n \in Nat : \A T \in SUBSET S : Cardinality(T) = n => T \in P}
<1>1. 0 \in N
  <2>1. ASSUME NEW T \in SUBSET S, Cardinality(T) = 0 PROVE T = {}
    <3>1. IsFiniteSet(T)
      BY Smaller
    <3> QED
      BY <2>1, <3>1, FS_EmptySet
  <2> QED
    BY <2>1
<1>2. ASSUME NEW n \in Nat, n \in N PROVE n + 1 \in N
  <2> SUFFICES ASSUME NEW T \in SUBSET S, Cardinality(T) = n + 1 PROVE T \in P
    OBVIOUS
  <2>1. T # {}
    <3>1. Cardinality({}) = 0
      BY FS_EmptySet
    <3> QED
      BY <3>1
  <2>2. T \ {Picked(T)} \in SUBSET S /\ Cardinality(T \ {Picked(T)}) = n
    BY <2>1, Smaller
  <2> QED
    BY <1>2, <2>1, <2>2
<1>3. Cardinality(S) \in Nat
  BY FS_CardinalityType
<1>4. Cardinality(S) \in N
  <2> HIDE DEF N
  <2> QED
    BY <1>1, <1>2, <1>3, AllNaturals
<1> QED
  BY <1>4

(* A sum of naturals is one. *)
LEMMA SumType ==
    ASSUME NEW fun, NEW S, IsFiniteSet(S), \A x \in S : fun[x] \in Nat
    PROVE  SumFunctionOnSet(fun, S) \in Nat
<1> DEFINE P == {T \in SUBSET S : SumFunctionOnSet(fun, T) \in Nat}
<1>1. \A T \in SUBSET S : IsFiniteSet(T) /\ \A x \in T : fun[x] \in Int
  BY FS_Subset
<1>2. {} \in P
  BY SumOfNone
<1>3. ASSUME NEW T \in SUBSET S, T # {}, T \ {Picked(T)} \in P PROVE T \in P
  <2>1. Picked(T) \in T /\ SumFunctionOnSet(fun, T)
                             = fun[Picked(T)] + SumFunctionOnSet(fun, T \ {Picked(T)})
    BY <1>1, <1>3, SumSplits
  <2> QED
    BY <1>3, <2>1
<1>4. S \in P
  <2> HIDE DEF P
  <2> QED
    BY <1>2, <1>3, AllSubsets
<1> QED
  BY <1>4

(* Sums add up, *)
LEMMA SumAdds ==
    ASSUME NEW a, NEW b, NEW c, NEW S, IsFiniteSet(S),
           \A x \in S : a[x] \in Nat /\ b[x] \in Nat /\ c[x] = a[x] + b[x]
    PROVE  SumFunctionOnSet(c, S) = SumFunctionOnSet(a, S) + SumFunctionOnSet(b, S)
<1> DEFINE P == {T \in SUBSET S : SumFunctionOnSet(c, T)
                                    = SumFunctionOnSet(a, T) + SumFunctionOnSet(b, T)}
<1>1. \A T \in SUBSET S : IsFiniteSet(T)
  BY FS_Subset
<1>2. \A x \in S : a[x] \in Int /\ b[x] \in Int /\ c[x] \in Int
  OBVIOUS
<1>3. {} \in P
  BY SumOfNone
<1>4. ASSUME NEW T \in SUBSET S, T # {}, T \ {Picked(T)} \in P PROVE T \in P
  <2> DEFINE t == Picked(T)
             R == T \ {t}
  <2>1. /\ t \in T
        /\ SumFunctionOnSet(a, T) = a[t] + SumFunctionOnSet(a, R)
        /\ SumFunctionOnSet(b, T) = b[t] + SumFunctionOnSet(b, R)
        /\ SumFunctionOnSet(c, T) = c[t] + SumFunctionOnSet(c, R)
    BY <1>1, <1>2, <1>4, SumSplits
  <2>2. SumFunctionOnSet(a, R) \in Nat /\ SumFunctionOnSet(b, R) \in Nat
    BY <1>1, SumType
  <2>3. SumFunctionOnSet(c, R) = SumFunctionOnSet(a, R) + SumFunctionOnSet(b, R)
    BY <1>4
  <2> HIDE DEF t, R
  <2> QED
    BY <1>2, <2>1, <2>2, <2>3
<1>5. S \in P
  <2> HIDE DEF P
  <2> QED
    BY <1>3, <1>4, AllSubsets
<1> QED
  BY <1>5

(* and a sum of zeros and ones is at most the number of indices that may   *)
(* have a one.                                                             *)
LEMMA SumCounts ==
    ASSUME NEW fun, NEW S, IsFiniteSet(S), NEW C, IsFiniteSet(C),
           \A x \in S : fun[x] = 0 \/ (fun[x] = 1 /\ x \in C)
    PROVE  SumFunctionOnSet(fun, S) <= Cardinality(C)
<1> DEFINE P == {T \in SUBSET S : SumFunctionOnSet(fun, T) <= Cardinality(T \cap C)}
<1>1. \A T \in SUBSET S : /\ IsFiniteSet(T) /\ IsFiniteSet(T \cap C)
                          /\ Cardinality(T \cap C) \in Nat
                          /\ \A x \in T : fun[x] \in Nat /\ fun[x] \in Int
  <2>1. \A T \in SUBSET S : IsFiniteSet(T)
    BY FS_Subset
  <2>2. \A T \in SUBSET S : IsFiniteSet(T \cap C)
    BY FS_Subset
  <2>3. \A T \in SUBSET S : Cardinality(T \cap C) \in Nat
    BY <2>2, FS_CardinalityType
  <2> QED
    BY <2>1, <2>2, <2>3
<1>2. {} \in P
  <2>1. Cardinality({} \cap C) \in Nat
    BY <1>1
  <2>2. SumFunctionOnSet(fun, {}) = 0
    BY SumOfNone
  <2> QED
    BY <2>1, <2>2
<1>3. ASSUME NEW T \in SUBSET S, T # {}, T \ {Picked(T)} \in P PROVE T \in P
  <2> DEFINE t == Picked(T)
             R == T \ {t}
  <2>1. t \in T /\ SumFunctionOnSet(fun, T) = fun[t] + SumFunctionOnSet(fun, R)
    BY <1>1, <1>3, SumSplits
  <2>2. SumFunctionOnSet(fun, R) <= Cardinality(R \cap C) /\ R \in SUBSET S
    BY <1>3
  <2>3. SumFunctionOnSet(fun, R) \in Nat
    BY <1>1, <2>2, SumType
  <2>4. Cardinality(R \cap C) \in Nat /\ Cardinality(T \cap C) \in Nat
    BY <1>1, <2>2
  <2>5. CASE t \in C
    <3>1. R \cap C = (T \cap C) \ {t} /\ t \in T \cap C
      <4>1. t \in T
        BY <2>1
      <4> HIDE DEF t
      <4> QED
        BY <2>5, <4>1
    <3>2. IsFiniteSet(T \cap C)
      BY <1>1
    <3>3. Cardinality(R \cap C) = Cardinality(T \cap C) - 1
      <4> HIDE DEF t, R
      <4>1. Cardinality((T \cap C) \ {t}) = Cardinality(T \cap C) - 1
        BY <3>1, <3>2, FS_RemoveElement, Zenon
      <4> QED
        BY <3>1, <4>1
    <3>4. fun[t] = 0 \/ fun[t] = 1
      BY <2>1
    <3> HIDE DEF t, R
    <3> QED
      BY <2>1, <2>2, <2>3, <2>4, <3>3, <3>4
  <2>6. CASE t \notin C
    <3>1. R \cap C = T \cap C
      BY <2>6
    <3>2. fun[t] = 0
      BY <2>1, <2>6
    <3> HIDE DEF t, R
    <3> QED
      BY <2>1, <2>2, <2>3, <2>4, <3>1, <3>2
  <2> QED
    BY <2>5, <2>6
<1>4. SumFunctionOnSet(fun, S) <= Cardinality(S \cap C)
  <2>1. S \in P
    <3> HIDE DEF P
    <3> QED
      BY <1>2, <1>3, AllSubsets
  <2> QED
    BY <2>1
<1>5. Cardinality(S \cap C) <= Cardinality(C) /\ Cardinality(S \cap C) \in Nat
      /\ Cardinality(C) \in Nat
  BY <1>1, FS_Subset, FS_CardinalityType
<1>6. SumFunctionOnSet(fun, S) \in Nat
  BY <1>1, SumType
<1> QED
  BY <1>4, <1>5, <1>6

-----------------------------------------------------------------------------
(* The bound on a task's memory. *)

(* The size of a bag is the sum over all positions, *)
LEMMA SizeOfBag ==
    ASSUME NEW a \in Bags
    PROVE  /\ IsFiniteSet(SeqNo)
           /\ Size(a) = SumFunctionOnSet(a, SeqNo) /\ Size(a) \in Nat
<1>1. IsFiniteSet(SeqNo)
  BY BoundsAssumption, FS_Interval DEF SeqNo
<1>2. DOMAIN a = SeqNo /\ \A n \in SeqNo : a[n] \in Nat
  BY DEF Bags
<1>3. Size(a) = SumFunctionOnSet(a, SeqNo)
  BY <1>2 DEF Size, SumFunction
<1> QED
  BY <1>1, <1>2, <1>3, SumType

(* that of the empty bag is zero, *)
LEMMA SizeOfEmpty == Size(NoEvents) = 0
<1>1. IsFiniteSet({}) /\ Cardinality({}) = 0
  BY FS_EmptySet
<1>2. IsFiniteSet(SeqNo) /\ Size(NoEvents) = SumFunctionOnSet(NoEvents, SeqNo)
      /\ Size(NoEvents) \in Nat
  BY EmptyBag, SizeOfBag
<1>3. SumFunctionOnSet(NoEvents, SeqNo) <= Cardinality({})
  BY <1>1, <1>2, SumCounts DEF NoEvents
<1> QED
  BY <1>1, <1>2, <1>3

(* bags add up, *)
LEMMA SizeOfBoth ==
    ASSUME NEW a \in Bags, NEW b \in Bags
    PROVE  Size(Both(a, b)) = Size(a) + Size(b)
<1>1. Both(a, b) \in Bags
  BY BagType
<1>2. /\ Size(Both(a, b)) = SumFunctionOnSet(Both(a, b), SeqNo)
      /\ Size(a) = SumFunctionOnSet(a, SeqNo) /\ Size(b) = SumFunctionOnSet(b, SeqNo)
      /\ IsFiniteSet(SeqNo)
  BY <1>1, SizeOfBag
<1>3. \A n \in SeqNo : a[n] \in Nat /\ b[n] \in Nat /\ Both(a, b)[n] = a[n] + b[n]
  BY DEF Bags, Both
<1>4. SumFunctionOnSet(Both(a, b), SeqNo)
        = SumFunctionOnSet(a, SeqNo) + SumFunctionOnSet(b, SeqNo)
  BY <1>2, <1>3, SumAdds
<1> QED
  BY <1>2, <1>4

(* a read brings as many events as it has records at most, *)
LEMMA SizeOfParsed ==
    ASSUME NEW from \in Nat, NEW last \in Nat, from <= last
    PROVE  Size(Parsed(from, last)) <= last - from /\ Size(Parsed(from, last)) \in Nat
<1>1. Parsed(from, last) \in Bags
  BY ParsedType
<1>2. /\ IsFiniteSet(SeqNo) /\ Size(Parsed(from, last)) \in Nat
      /\ Size(Parsed(from, last)) = SumFunctionOnSet(Parsed(from, last), SeqNo)
  BY <1>1, SizeOfBag
<1>3. IsFiniteSet(from + 1 .. last) /\ Cardinality(from + 1 .. last) = last - from
  <2>1. from + 1 \in Int /\ last \in Int /\ from + 1 <= last + 1
    OBVIOUS
  <2>2. IsFiniteSet(from + 1 .. last)
        /\ Cardinality(from + 1 .. last)
             = IF from + 1 > last THEN 0 ELSE last - (from + 1) + 1
    BY <2>1, FS_Interval
  <2> QED
    BY <2>1, <2>2
<1>4. \A n \in SeqNo : \/ Parsed(from, last)[n] = 0
                       \/ Parsed(from, last)[n] = 1 /\ n \in from + 1 .. last
  BY BoundsAssumption DEF Parsed, SeqNo
<1>5. SumFunctionOnSet(Parsed(from, last), SeqNo) <= Cardinality(from + 1 .. last)
  BY <1>2, <1>3, <1>4, SumCounts
<1> QED
  BY <1>2, <1>3, <1>5

(* and taking a group from a bag makes it no larger. *)
LEMMA SizeOfUngrouped ==
    ASSUME NEW a \in Bags, NEW p
    PROVE  Size(Ungrouped(a, p)) <= Size(a)
<1>1. Group(a, p) \in Bags /\ Ungrouped(a, p) \in Bags
  BY BagType
<1>2. Both(Group(a, p), Ungrouped(a, p)) = a
  BY DEF Bags, Both, Group, Ungrouped
<1>3. Size(a) = Size(Group(a, p)) + Size(Ungrouped(a, p))
  BY <1>1, <1>2, SizeOfBoth
<1>4. Size(Group(a, p)) \in Nat /\ Size(Ungrouped(a, p)) \in Nat
  BY <1>1, SizeOfBag
<1> QED
  BY <1>3, <1>4

(* A task's share of the bound. *)
MemoryBounded(t) == Size(buffer[t]) < MaxSize /\ Size(batch[t]) < MaxSize + Limit

LEMMA MemoryStep ==
    ASSUME TypeOK, [Next]_vars, \A t \in Tasks : MemoryBounded(t), NEW u \in Tasks
    PROVE  MemoryBounded(u)'
<1> USE SizesAssumption
<1>1. /\ MemoryBounded(u)
      /\ buffer[u] \in Bags /\ batch[u] \in Bags
  BY DEF TypeOK
<1>2. ASSUME buffer'[u] = buffer[u], batch'[u] = batch[u] PROVE MemoryBounded(u)'
  BY <1>1, <1>2 DEF MemoryBounded
<1>3. CASE Publish \/ Expire \/ CloseShard \/ UNCHANGED vars
  BY <1>2, <1>3 DEF Publish, Expire, CloseShard, vars, memory
<1>4. ASSUME TaskStep(u) PROVE MemoryBounded(u)'
  <2>1. CASE Start(u) \/ LoadIterator(u) \/ Elapse(u) \/ Commit(u)
    BY <1>2, <2>1 DEF Start, LoadIterator, Elapse, Commit
  <2>2. CASE Crash(u)
    <3>1. buffer'[u] = NoEvents /\ batch'[u] = NoEvents
      BY <2>2 DEF Crash, TypeOK
    <3> QED
      BY <3>1, SizeOfEmpty DEF MemoryBounded
  <2>3. CASE ReadBatch(u)
    <3>1. PICK last : ReadUpTo(u, last)
      BY <2>3 DEF ReadBatch
    <3> DEFINE from == ReadFrom(u)
               events == Both(buffer[u], Parsed(from, last))
    <3>2. from \in Nat /\ last \in Nat /\ from <= last /\ last <= from + Limit
      BY <3>1 DEF ReadUpTo, ReadFrom, ReadEnds, TypeOK, NoIterator
    <3>3. /\ Size(Parsed(from, last)) \in Nat
          /\ Size(Parsed(from, last)) <= Limit
      <4>1. /\ Size(Parsed(from, last)) \in Nat
            /\ Size(Parsed(from, last)) <= last - from
        BY <3>2, SizeOfParsed
      <4> HIDE DEF from
      <4> QED
        BY <3>2, <4>1
    <3>4. Size(events) = Size(buffer[u]) + Size(Parsed(from, last))
      BY <1>1, ParsedType, SizeOfBoth
    <3>5. Size(buffer[u]) \in Nat /\ Size(batch[u]) \in Nat
      BY <1>1, SizeOfBag
    <3>6. \/ IsReady(events, overdue[u]) /\ buffer'[u] = NoEvents /\ batch'[u] = events
          \/ ~IsReady(events, overdue[u]) /\ buffer'[u] = events /\ batch'[u] = batch[u]
      BY <3>1 DEF ReadUpTo, TypeOK
    <3> HIDE DEF events, from
    <3>7. Size(events) \in Nat /\ Size(events) < MaxSize + Limit
      BY <1>1, <3>3, <3>4, <3>5 DEF MemoryBounded
    <3>8. ~IsReady(events, overdue[u]) => Size(events) < MaxSize
      BY <3>7 DEF IsReady
    <3> QED
      BY <1>1, <3>6, <3>7, <3>8, SizeOfEmpty DEF MemoryBounded
  <2>4. ASSUME NEW p \in Partitions, WritePartition(u, p) PROVE MemoryBounded(u)'
    <3>1. buffer'[u] = buffer[u] /\ batch'[u] = Ungrouped(batch[u], p)
      BY <2>4 DEF WritePartition, TypeOK
    <3>2. Size(batch'[u]) <= Size(batch[u])
      BY <1>1, <3>1, SizeOfUngrouped
    <3>3. Ungrouped(batch[u], p) \in Bags
      BY <1>1, BagType
    <3>4. Size(batch'[u]) \in Nat /\ Size(batch[u]) \in Nat
      BY <1>1, <3>1, <3>3, SizeOfBag
    <3> QED
      BY <1>1, <3>1, <3>2, <3>4 DEF MemoryBounded
  <2> QED
    BY <1>4, <2>1, <2>2, <2>3, <2>4 DEF TaskStep
<1>5. ASSUME NEW t \in Tasks \ {u}, TaskStep(t) PROVE MemoryBounded(u)'
  BY <1>2, <1>5, OthersKeep
<1> QED
  BY <1>3, <1>4, <1>5 DEF Next

(* A task never waits with a full buffer and never has more than one read  *)
(* above the batch size in memory (EventBatcher.is_ready after every       *)
(* read_batch), whatever the reads return and when.                        *)
THEOREM MemoryBound == Spec => []BufferBounded
<1> DEFINE Bound == \A t \in Tasks : MemoryBounded(t)
<1>1. Init => Bound
  BY SizesAssumption, SizeOfEmpty DEF Init, MemoryBounded
<1>2. TypeOK /\ Bound /\ [Next]_vars => Bound'
  BY MemoryStep
<1>3. Bound => BufferBounded
  BY DEF MemoryBounded, BufferBounded
<1> QED
  BY TypeInit, TypeStep, <1>1, <1>2, <1>3, PTL DEF Spec
=============================================================================
