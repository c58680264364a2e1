------------------------------ MODULE Consumer ------------------------------
(***************************************************************************)
(* The consumer service: tasks that read the one shard of the event        *)
(* stream, buffer events, flush them to bronze grouped by hour partition   *)
(* and then save the stream position.                                      *)
(*                                                                         *)
(* A task is one container of the ECS service.  It runs ConsumerService's  *)
(* loop alone, so everything between two awaits is one step; an awaited    *)
(* call takes effect in the step that makes it.  A deployment starts the   *)
(* new task before it stops the old one, so two tasks may run at a time,   *)
(* sharing nothing but the stream, the bronze prefix and the checkpoint    *)
(* object.  Sequence numbers are positions in the stream; events are       *)
(* identified by their position, and a bag of events is a function from    *)
(* positions to the number of copies.                                      *)
(***************************************************************************)
EXTENDS Integers, Sequences, Functions

CONSTANTS
    Tasks,          \* the containers that may run
    Partitions,     \* hour partitions an event's timestamp may fall in
    Unparseable,    \* a record that parse_event rejects
    MaxSize,        \* batch_max_size
    Limit,          \* records per get_records call
    MaxRecords,     \* bound: records published
    MaxStarts,      \* bound: container starts
    MaxTrim,        \* bound: records that expire
    MayClose        \* bound: whether the shard may be closed

ASSUME UnparseableAssumption == Unparseable \notin Partitions
ASSUME SizesAssumption == MaxSize \in Nat \ {0} /\ Limit \in Nat \ {0}
ASSUME BoundsAssumption ==
    MaxRecords \in Nat /\ MaxStarts \in Nat /\ MaxTrim \in Nat /\ MayClose \in BOOLEAN

VARIABLES
    (* Kinesis and S3 *)
    stream,         \* the partition of each record's event, or Unparseable
    trim,           \* retention has discarded positions 1..trim
    closed,         \* no record will be added to the shard any more
    bronze,         \* bag of the events in bronze objects
    checkpoint,     \* saved sequence number, None before the first save
    starts,         \* number of container starts so far
    (* memory of each task *)
    pc,             \* "down", "poll" or "flush" (between flush and commit)
    iterator,       \* reads resume after this position, or NoIterator
    pending,        \* _pending_sequence_number
    buffer,         \* bag of the batcher's _events
    overdue,        \* the batch interval has passed since the first event
    batch           \* bag of the flushed events not yet written

external == <<stream, trim, closed>>
memory == <<pc, iterator, pending, buffer, overdue, batch>>
vars == <<external, bronze, checkpoint, starts, memory>>

None == 0
NoIterator == -1
SeqNo == 1..MaxRecords

NoEvents == [n \in SeqNo |-> 0]
Both(a, b) == [n \in SeqNo |-> a[n] + b[n]]
Size(events) == SumFunction(events)
IsEvent(n) == n \in 1..Len(stream) /\ stream[n] \in Partitions

-----------------------------------------------------------------------------
(* Mistakes the code could have made, one line each: none is part of the   *)
(* specification.  Each takes the place of the operator it names below to  *)
(* show which property notices.                                            *)

(* for ResumePoint *)
ResumeAtHorizon(saved) == None
ResumeAtLatest(saved) == IF saved = None THEN Len(stream) ELSE saved

(* for NextIterator *)
RereadIterator(from, last) == IF from < last THEN last - 1 ELSE last

(* for NextPending *)
FirstAsPending(old, from, last) == IF last > from THEN from + 1 ELSE old
NextAsPending(old, from, last) == IF last > from THEN last + 1 ELSE old

(* for IsReady *)
ReadyBySizeOnly(events, late) == Size(events) >= MaxSize
ReadyAboveMaxSize(events, late) == Size(events) > 0 /\ (Size(events) > MaxSize \/ late)

(* for Ungrouped *)
FirstGroupOnly(events, p) == NoEvents

(* for BatchWritten *)
CommitBeforeWrites(t) == TRUE

-----------------------------------------------------------------------------
(* The stream, as the services use it *)

Init ==
    /\ stream = <<>>
    /\ trim = 0
    /\ closed = FALSE
    /\ bronze = NoEvents
    /\ checkpoint = None
    /\ starts = 0
    /\ pc = [t \in Tasks |-> "down"]
    /\ iterator = [t \in Tasks |-> NoIterator]
    /\ pending = [t \in Tasks |-> None]
    /\ buffer = [t \in Tasks |-> NoEvents]
    /\ overdue = [t \in Tasks |-> FALSE]
    /\ batch = [t \in Tasks |-> NoEvents]

(* KinesisPublisher.publish, or another producer's put_record. *)
Publish ==
    /\ ~closed /\ Len(stream) < MaxRecords
    /\ \E r \in Partitions \cup {Unparseable} : stream' = Append(stream, r)
    /\ UNCHANGED <<trim, closed, bronze, checkpoint, starts, memory>>

(* The retention period of the oldest record ends. *)
Expire ==
    /\ trim < Len(stream) /\ trim < MaxTrim
    /\ trim' = trim + 1
    /\ UNCHANGED <<stream, closed, bronze, checkpoint, starts, memory>>

(* The shard is split or merged away: readers that reach its end get no    *)
(* NextShardIterator.                                                      *)
CloseShard ==
    /\ MayClose /\ ~closed
    /\ closed' = TRUE
    /\ UNCHANGED <<stream, trim, bronze, checkpoint, starts, memory>>

-----------------------------------------------------------------------------
(* Containers *)

Start(t) ==
    /\ pc[t] = "down" /\ starts < MaxStarts
    /\ starts' = starts + 1
    /\ pc' = [pc EXCEPT ![t] = "poll"]
    /\ UNCHANGED <<external, bronze, checkpoint, iterator, pending, buffer, overdue, batch>>

(* The container is killed, or an exception leaves run_forever (an expired *)
(* iterator, a throttled or failed call): the task's memory is gone.  Only *)
(* a crash that MaxStarts leaves a container to recover from is modelled.  *)
Crash(t) ==
    /\ pc[t] # "down"
    /\ starts < MaxStarts \/ \E u \in Tasks \ {t} : pc[u] # "down"
    /\ pc' = [pc EXCEPT ![t] = "down"]
    /\ iterator' = [iterator EXCEPT ![t] = NoIterator]
    /\ pending' = [pending EXCEPT ![t] = None]
    /\ buffer' = [buffer EXCEPT ![t] = NoEvents]
    /\ overdue' = [overdue EXCEPT ![t] = FALSE]
    /\ batch' = [batch EXCEPT ![t] = NoEvents]
    /\ UNCHANGED <<external, bronze, checkpoint, starts>>

-----------------------------------------------------------------------------
(* KinesisReader._ensure_iterator, when no iterator is cached: after the   *)
(* saved number, or from the oldest record when nothing is saved.          *)

ResumePoint(saved) == saved

LoadIterator(t) ==
    /\ pc[t] = "poll" /\ iterator[t] = NoIterator
    /\ iterator' = [iterator EXCEPT ![t] = ResumePoint(checkpoint)]
    /\ UNCHANGED <<external, bronze, checkpoint, starts, pc, pending, buffer, overdue, batch>>

-----------------------------------------------------------------------------
(* ConsumerService.poll_once up to the flush: read_batch, add, is_ready,   *)
(* flush.                                                                  *)

(* get_records starts at the oldest record left and returns at most Limit  *)
(* records, possibly none although there are some.                         *)
ReadFrom(t) == IF iterator[t] < trim THEN trim ELSE iterator[t]
ReadEnds(from) == {last \in from .. from + Limit : last <= Len(stream)}

NextIterator(from, last) ==
    IF closed /\ last = Len(stream) THEN NoIterator ELSE last

NextPending(old, from, last) == IF last > from THEN last ELSE old

(* The parsed events of a read; records that do not parse are skipped. *)
Parsed(from, last) ==
    [n \in SeqNo |-> IF from < n /\ n <= last /\ IsEvent(n) THEN 1 ELSE 0]

IsReady(events, late) == Size(events) > 0 /\ (Size(events) >= MaxSize \/ late)

ReadUpTo(t, last) ==
    /\ pc[t] = "poll" /\ iterator[t] # NoIterator
    /\ LET from == ReadFrom(t)
           events == Both(buffer[t], Parsed(from, last))
       IN  /\ last \in ReadEnds(from)
           /\ iterator' = [iterator EXCEPT ![t] = NextIterator(from, last)]
           /\ pending' = [pending EXCEPT ![t] = NextPending(pending[t], from, last)]
           /\ IF IsReady(events, overdue[t])
              THEN /\ pc' = [pc EXCEPT ![t] = "flush"]
                   /\ buffer' = [buffer EXCEPT ![t] = NoEvents]
                   /\ overdue' = [overdue EXCEPT ![t] = FALSE]
                   /\ batch' = [batch EXCEPT ![t] = events]
              ELSE /\ buffer' = [buffer EXCEPT ![t] = events]
                   /\ UNCHANGED <<pc, overdue, batch>>
    /\ UNCHANGED <<external, bronze, checkpoint, starts>>

ReadBatch(t) == \E last \in 0..MaxRecords + Limit : ReadUpTo(t, last)

(* A read that returns records. *)
ReadSome(t) == \E last \in 0..MaxRecords + Limit : last > ReadFrom(t) /\ ReadUpTo(t, last)

(* max_interval_seconds pass since add put the first event in the buffer.  *)
Elapse(t) ==
    /\ buffer[t] # NoEvents /\ ~overdue[t]
    /\ overdue' = [overdue EXCEPT ![t] = TRUE]
    /\ UNCHANGED <<external, bronze, checkpoint, starts, pc, iterator, pending, buffer, batch>>

-----------------------------------------------------------------------------
(* The rest of poll_once: one new bronze object per partition, then        *)
(* commit.                                                                 *)

Group(events, p) ==
    [n \in SeqNo |-> IF IsEvent(n) /\ stream[n] = p THEN events[n] ELSE 0]

Ungrouped(events, p) ==
    [n \in SeqNo |-> IF IsEvent(n) /\ stream[n] = p THEN 0 ELSE events[n]]

(* S3ParquetWriter.write_partition: a new object, nothing is overwritten.  *)
WritePartition(t, p) ==
    /\ pc[t] = "flush"
    /\ Group(batch[t], p) # NoEvents
    /\ bronze' = Both(bronze, Group(batch[t], p))
    /\ batch' = [batch EXCEPT ![t] = Ungrouped(batch[t], p)]
    /\ UNCHANGED <<external, checkpoint, starts, pc, iterator, pending, buffer, overdue>>

BatchWritten(t) == batch[t] = NoEvents

(* KinesisReader.commit and S3CheckpointStore.save, then the poll sleep. *)
Commit(t) ==
    /\ pc[t] = "flush" /\ BatchWritten(t)
    /\ checkpoint' = IF pending[t] # None THEN pending[t] ELSE checkpoint
    /\ pc' = [pc EXCEPT ![t] = "poll"]
    /\ UNCHANGED <<external, bronze, starts, iterator, pending, buffer, overdue, batch>>

-----------------------------------------------------------------------------
TaskStep(t) ==
    \/ Start(t)
    \/ Crash(t)
    \/ LoadIterator(t)
    \/ ReadBatch(t)
    \/ Elapse(t)
    \/ \E p \in Partitions : WritePartition(t, p)
    \/ Commit(t)

Next ==
    \/ Publish
    \/ Expire
    \/ CloseShard
    \/ \E t \in Tasks : TaskStep(t)

Spec == Init /\ [][Next]_vars

(* ECS replaces a stopped container; a running one keeps polling; Kinesis  *)
(* eventually returns the records it holds; time passes.                   *)
TaskFairness(t) ==
    /\ WF_vars(Start(t))
    /\ WF_vars(LoadIterator(t))
    /\ WF_vars(ReadBatch(t))
    /\ WF_vars(ReadSome(t))
    /\ WF_vars(Elapse(t))
    /\ WF_vars(\E p \in Partitions : WritePartition(t, p))
    /\ WF_vars(Commit(t))

FairSpec == Spec /\ \A t \in Tasks : TaskFairness(t)

-----------------------------------------------------------------------------
(* Properties *)

Bags == [SeqNo -> Nat]

(* Every variable has its type, and no position - of a task or saved - is  *)
(* past the end of the stream: AFTER_SEQUENCE_NUMBER of a number that was  *)
(* never issued fails every later start.                                   *)
TypeOK ==
    /\ stream \in Seq(Partitions \cup {Unparseable}) /\ Len(stream) <= MaxRecords
    /\ trim \in 0..Len(stream)
    /\ closed \in BOOLEAN
    /\ bronze \in Bags
    /\ checkpoint \in 0..Len(stream)
    /\ starts \in 0..MaxStarts
    /\ pc \in [Tasks -> {"down", "poll", "flush"}]
    /\ iterator \in [Tasks -> NoIterator..Len(stream)]
    /\ pending \in [Tasks -> 0..Len(stream)]
    /\ buffer \in [Tasks -> Bags]
    /\ overdue \in [Tasks -> BOOLEAN]
    /\ batch \in [Tasks -> Bags]

(* The event of record n can no longer be lost: it is in bronze, or there  *)
(* is nothing to store, or retention has taken it.                         *)
Settled(n) == n <= trim \/ ~IsEvent(n) \/ bronze[n] > 0

(* "only checkpoint after every group has been durably written": whatever  *)
(* crash, overlap of two tasks or late commit comes, a task that resumes   *)
(* at the checkpoint skips no event that is not in bronze.                 *)
CheckpointSafe == \A n \in 1..checkpoint : Settled(n)

(* A running task forgets no event it has read past: the event is settled, *)
(* or it is in the task's buffer or unwritten batch.  This covers pending  *)
(* as well, so that the commit of a batch covers no event still buffered.  *)
NothingReadIsDropped ==
    \A t \in Tasks : \A n \in 1..Len(stream) :
        n <= iterator[t] \/ n <= pending[t] =>
            Settled(n) \/ buffer[t][n] > 0 \/ batch[t][n] > 0

(* Bronze's duplicates come from restarts alone: on an open shard a        *)
(* container stores an event at most once, so copies never exceed starts.  *)
CopiesBounded == ~closed => \A n \in SeqNo : bronze[n] <= starts

(* A task never waits with a full buffer, and never holds more than one    *)
(* read above the batch size in memory.                                    *)
BufferBounded ==
    \A t \in Tasks :
        /\ Size(buffer[t]) < MaxSize
        /\ Size(batch[t]) < MaxSize + Limit

(* One task at a time never moves the saved position of an open shard      *)
(* back, however often it restarts.  (Two overlapping tasks can: the       *)
(* slower one saves last.  So can one task on a closed shard: it has lost  *)
(* its iterator and rereads from a checkpoint below its pending number.)   *)
CheckpointMonotone == [][~closed => checkpoint' >= checkpoint]_checkpoint

(* Every event published reaches bronze, with no further traffic to fill   *)
(* the batch and whatever restarts happen, if retention allows.            *)
Delivery == \A n \in SeqNo : IsEvent(n) ~> bronze[n] > 0

(* The saved position catches up with every event, so that a restart does  *)
(* not deliver it again.                                                   *)
CheckpointCatchesUp == \A n \in SeqNo : IsEvent(n) ~> checkpoint >= n

(* The consumer implements at-least-once delivery. *)
Promise == INSTANCE AtLeastOnce WITH
    Events <- Partitions,
    Skipped <- {Unparseable},
    log <- stream,
    trimmed <- trim,
    stored <- {n \in SeqNo : bronze[n] > 0},
    acked <- checkpoint

AtLeastOnceDelivery == Promise!Spec
=============================================================================
