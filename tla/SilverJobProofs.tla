-------------------------- MODULE SilverJobProofs --------------------------
(***************************************************************************)
(* Proofs about SilverJob.  Its types hold however the job is started; the *)
(* three properties of silver are proved for any number of runners, hours, *)
(* rows, late or early, and refused objects, when only the hourly rule     *)
(* starts the job.  What a run deletes, the queries of this hour and of    *)
(* the next can restore, so not more than one run in a row may fail.       *)
(***************************************************************************)
EXTENDS SilverJob, FiniteSetTheorems, TLAPS

(* What a run still has to clear: from one partition down to the last.     *)
Countdown(r) ==
    /\ Len(todo[r]) <= 3
    /\ \A i \in 1..Len(todo[r]) : todo[r][i] = launched[r] - 2 + Len(todo[r]) - i
    /\ pc[r] = "delete" => todo[r] # <<>>

Typing ==
    /\ TypeOK
    /\ todo \in [Runners -> Seq(Int)]
    /\ \A r \in Runners : Countdown(r)

(* Silver's rows: written by queries that succeeded, each with one row for *)
(* an id, and made of valid rows that had landed.                          *)
BronzeOf(s) == [id |-> s.id, hour |-> s.part, valid |-> TRUE]
Written ==
    /\ \A s \in silver : query[s.query] = "succeeded" /\ BronzeOf(s) \in bronze
    /\ \A s, t \in silver : s.query = t.query /\ s.id = t.id => s = t
    /\ \A b \in bronze : b.hour <= hour + MaxEarly

(* On schedule an hour has one run, and the run the hour's query. *)
OneRun ==
    /\ \A r \in Runners : pc[r] # "idle" =>
           /\ launches = 1 /\ launched[r] = hour
           /\ \A k \in Runners : pc[k] # "idle" => k = r
           /\ IF pc[r] \in {"clear", "delete"} THEN query[hour] = "none"
              ELSE todo[r] = <<>> /\ waiting[r] = hour /\ query[hour] # "none"
           /\ IF pc[r] = "refined" THEN query[hour] = "succeeded" /\ attempts = 0
              ELSE attempts > 0
    /\ launches = 0 => query[hour] = "none"
    /\ query[hour] = "failed" => attempts <= MaxFailures
    /\ \A q \in Hours : q > hour => query[q] = "none"
    /\ \A q \in Hours : query[q] = "running" => q = hour
    /\ attempts > MaxFailures => \E r \in Runners : pc[r] \in {"clear", "delete", "poll"}

(* What the refinements of the hours since one may have lost. *)
Restorable(since) ==
    \A id \in refined \ SilverIds :
        \E b \in bronze : b.id = id /\ b.valid /\ b.hour >= since

Remembered ==
    /\ attempts = 0 \/ query[hour] = "succeeded" => refined \subseteq SilverIds
    /\ launches = 1 /\ attempts <= 1 => Restorable(hour - 2)
    /\ Restorable(hour - 3)

(* A run has the whole partition in its list, and those it is done with    *)
(* hold what this hour's query wrote, or what it could not delete.         *)
ClearedBy(r) ==
    /\ pc[r] = "delete" => listed[r] = {s \in silver : s.part = Head(todo[r])}
    /\ pc[r] # "idle" =>
           \A s \in silver :
               s.part >= launched[r] - 2 + Len(todo[r]) /\ s.part <= launched[r] =>
                   s.part \in uncleared[r] \/ s.query = hour
Cleared == \A r \in Runners : ClearedBy(r)

(* On schedule a query is its hour's, and finds rows in its window, or as  *)
(* far ahead as rows may be.                                               *)
InReach == \A s \in silver : s.part >= s.query - 3 /\ s.part <= s.query + MaxEarly

(* How often a partition holds an event, once a run that deletes it has    *)
(* written it too: each object S3 refused to delete may hold it once, the  *)
(* last query that cleared the partition first, and the one after.         *)
Copies(id, p) == {s \in silver : s.id = id /\ s.part = p}
Bounded(p, n) == \A id \in Ids : Cardinality(Copies(id, p)) <= n + refusals
Reached(p) == \E s \in silver : s.part = p /\ s.query \in p..p + 2

FewIn(p) ==
    /\ Reached(p) => Bounded(p, 2)
    /\ Reached(p) /\ (p >= hour - 2 \/ (p = hour - 3 /\ query[hour] # "succeeded")) =>
           Bounded(p, 1)
    /\ p \in hour - 2 .. hour /\ query[hour] = "running" => Bounded(p, 0)
    /\ \A r \in Runners :
           pc[r] \in {"clear", "delete"} /\ p \in hour - 2 + Len(todo[r]) .. hour =>
               Bounded(p, 0)
Few == \A p \in Hours : FewIn(p)

(* The inductive invariant of any run, and of runs on schedule. *)
IInv == Typing /\ Written
Scheduled == IInv /\ OneRun /\ Cleared /\ InReach /\ Few

USE BoundsAssumption

(* The actions of Next that touch no runner's place in its partitions. *)
Elsewhere ==
    \/ Land \/ Tick
    \/ \E q \in Hours : RunQuery(q) \/ FailQuery(q)
    \/ \E r \in Runners :
           \/ PollSucceeded(r) \/ PollFailed(r) \/ Finish(r) \/ PollTimeout(r)
    \/ UNCHANGED vars

(* A step is one of these, or a runner's at its partitions. *)
LEMMA Steps ==
    ASSUME [Next]_vars
    PROVE  \/ Elsewhere
           \/ \E r \in Runners :
                  Launch(r) \/ ListPartition(r) \/ DeleteListed(r) \/ Submit(r) \/ Crash(r)
BY DEF Next, Progress, Elsewhere

(* The partitions of a runner count down. *)
LEMMA CountdownStep ==
    ASSUME Typing, [Next]_vars
    PROVE  todo' \in [Runners -> Seq(Int)] /\ \A r \in Runners : Countdown(r)'
<1> USE DEF Typing, TypeOK, Hours
<1>1. CASE Elsewhere
  <2>1. UNCHANGED <<todo, launched>>
    BY <1>1 DEF Elsewhere, Land, Tick, RunQuery, FailQuery, PollSucceeded, PollFailed,
                Finish, PollTimeout, vars, run
  <2>2. \A r \in Runners : pc'[r] = "delete" => pc[r] = "delete"
    BY <1>1 DEF Elsewhere, Land, Tick, RunQuery, FailQuery, PollSucceeded, PollFailed,
                Finish, PollTimeout, vars, run
  <2> QED
    BY <2>1, <2>2 DEF Countdown
<1>2. ASSUME NEW r \in Runners, Launch(r)
      PROVE  todo' \in [Runners -> Seq(Int)] /\ \A k \in Runners : Countdown(k)'
  <2>1. LookbackPartitions(hour) = <<hour, hour - 1, hour - 2>>
    BY DEF LookbackPartitions
  <2>2. <<hour, hour - 1, hour - 2>> \in Seq(Int)
    OBVIOUS
  <2>3. todo' = [todo EXCEPT ![r] = <<hour, hour - 1, hour - 2>>]
    BY <1>2, <2>1 DEF Launch
  <2>4. launched'[r] = hour /\ pc'[r] = "clear"
    BY <1>2 DEF Launch
  <2>5. Countdown(r)'
    <3>1. todo'[r] = <<hour, hour - 1, hour - 2>>
      BY <2>3
    <3>2. Len(<<hour, hour - 1, hour - 2>>) = 3
      OBVIOUS
    <3> QED
      BY <2>4, <3>1, <3>2 DEF Countdown
  <2>6. ASSUME NEW k \in Runners, k # r PROVE Countdown(k)'
    BY <1>2, <2>3, <2>6 DEF Countdown, Launch
  <2> QED
    BY <2>2, <2>3, <2>5, <2>6
<1>3. ASSUME NEW r \in Runners, ListPartition(r) \/ DeleteListed(r)
      PROVE  todo' \in [Runners -> Seq(Int)] /\ \A k \in Runners : Countdown(k)'
  <2>1. todo[r] # <<>> /\ todo[r] \in Seq(Int)
    BY <1>3 DEF ListPartition, DeleteListed, Countdown
  <2>2. UNCHANGED launched /\ \A k \in Runners : k # r => pc'[k] = pc[k]
    BY <1>3 DEF ListPartition, DeleteListed
  <2>3. \/ UNCHANGED todo
        \/ todo' = [todo EXCEPT ![r] = Tail(todo[r])] /\ pc'[r] # "delete"
    BY <1>3 DEF ListPartition, DeleteListed
  <2>4. /\ Tail(todo[r]) \in Seq(Int) /\ Len(Tail(todo[r])) = Len(todo[r]) - 1
        /\ \A i \in 1..Len(todo[r]) - 1 : Tail(todo[r])[i] = todo[r][i + 1]
    BY <2>1
  <2>5. CASE UNCHANGED todo
    BY <2>1, <2>2, <2>5 DEF Countdown
  <2>6. CASE todo' = [todo EXCEPT ![r] = Tail(todo[r])] /\ pc'[r] # "delete"
    <3>1. todo' \in [Runners -> Seq(Int)] /\ todo'[r] = Tail(todo[r])
      BY <2>4, <2>6
    <3>2. Len(todo[r]) \in Nat /\ launched[r] \in Int
      BY <2>1
    <3>3. Countdown(r)'
      BY <2>2, <2>4, <2>6, <3>1, <3>2 DEF Countdown
    <3>4. \A k \in Runners : k # r => Countdown(k)'
      BY <2>2, <2>6 DEF Countdown
    <3> QED
      BY <3>1, <3>3, <3>4
  <2> QED
    BY <2>3, <2>5, <2>6
<1>4. ASSUME NEW r \in Runners, Submit(r) \/ Crash(r)
      PROVE  todo' \in [Runners -> Seq(Int)] /\ \A k \in Runners : Countdown(k)'
  <2>1. todo' = [todo EXCEPT ![r] = <<>>]
    BY <1>4 DEF Submit, Crash
  <2>2. UNCHANGED launched /\ pc'[r] # "delete" /\ \A k \in Runners : k # r => pc'[k] = pc[k]
    BY <1>4 DEF Submit, Crash
  <2>3. todo' \in [Runners -> Seq(Int)]
    BY <2>1
  <2>4. Countdown(r)'
    BY <2>1, <2>2 DEF Countdown
  <2>5. \A k \in Runners : k # r => Countdown(k)'
    BY <2>1, <2>2 DEF Countdown
  <2> QED
    BY <2>3, <2>4, <2>5
<1> QED
  BY <1>1, <1>2, <1>3, <1>4, Steps

(* Hours are few: sets of them are finite. *)
LEMMA HoursFinite ==
    ASSUME NEW S \in SUBSET Hours
    PROVE  IsFiniteSet(S) /\ Cardinality(S) \in Nat
<1>1. IsFiniteSet(Hours)
  BY FS_Interval DEF Hours
<1> QED
  BY <1>1, FS_Subset, FS_CardinalityType

(* What a query selects is in bronze and in its window. *)
LEMMA SelectedRows ==
    ASSUME TypeOK, NEW b \in Selected
    PROVE  b \in bronze /\ b \in Rows /\ b.valid /\ b.hour >= hour - 3
BY DEF TypeOK, Selected, Deduped, InWindow

LEMMA TypeStep ==
    ASSUME Typing, [Next]_vars
    PROVE  TypeOK'
<1> USE DEF Typing, TypeOK
<1>1. /\ todo' \in [Runners -> Seq(Int)]
      /\ \A r \in Runners : Len(todo'[r]) \in Nat /\ DOMAIN todo'[r] = 1..Len(todo'[r])
      /\ \A r \in Runners : Countdown(r)'
  BY CountdownStep
<1>2. ASSUME launched' \in [Runners -> Hours]
      PROVE  \A r \in Runners : \A i \in DOMAIN todo'[r] : todo'[r][i] \in -2..launched'[r]
  <2>1. ASSUME NEW r \in Runners, NEW i \in 1..Len(todo'[r])
        PROVE  todo'[r][i] \in -2..launched'[r]
    <3>1. /\ Len(todo'[r]) \in Nat /\ Len(todo'[r]) <= 3 /\ launched'[r] \in Nat
          /\ todo'[r][i] = launched'[r] - 2 + Len(todo'[r]) - i
      BY <1>1, <1>2 DEF Countdown, Hours
    <3> QED
      BY <3>1
  <2> QED
    BY <1>1, <2>1
<1>3. CASE Land
  BY <1>3 DEF Land, history, run
<1>4. CASE Tick
  <2>1. hour' \in Hours
    BY <1>4 DEF Tick, Hours
  <2>2. launches' \in 0..LaunchesPerHour
    BY <1>4 DEF Tick, LaunchesPerHour
  <2> QED
    BY <1>4, <2>1, <2>2 DEF Tick, lake, run
<1>5. ASSUME NEW q \in Hours, RunQuery(q) PROVE TypeOK'
  <2>1. \A b \in Selected : [query |-> q, id |-> b.id, part |-> b.hour] \in SilverRows
    BY SelectedRows DEF Rows, SilverRows
  <2>2. silver' \in SUBSET SilverRows
    BY <1>5, <2>1 DEF RunQuery
  <2>3. query' \in [Hours -> {"none", "running", "succeeded", "failed"}]
    BY <1>5 DEF RunQuery
  <2>4. UNCHANGED <<hour, bronze, history, run>>
    BY <1>5 DEF RunQuery
  <2> QED
    BY <2>2, <2>3, <2>4 DEF history, run
<1>6. ASSUME NEW q \in Hours, FailQuery(q) PROVE TypeOK'
  BY <1>6 DEF FailQuery, lake, history, run
<1>7. ASSUME NEW r \in Runners, Launch(r) PROVE TypeOK'
  <2>1. launches' \in 0..LaunchesPerHour
    BY <1>7 DEF Launch, LaunchesPerHour
  <2>2. attempts' \in 0..MaxFailures + 1
    BY <1>7 DEF Launch
  <2>3. pc' \in [Runners -> {"idle", "clear", "delete", "poll", "refined"}]
    BY <1>7 DEF Launch
  <2>4. launched' \in [Runners -> Hours] /\ uncleared' \in [Runners -> SUBSET Hours]
    BY <1>7 DEF Launch
  <2>5. UNCHANGED <<hour, lake, query, refined, refusals, listed, waiting>>
    BY <1>7 DEF Launch
  <2> QED
    BY <1>2, <2>1, <2>2, <2>3, <2>4, <2>5 DEF lake
<1>8. ASSUME NEW r \in Runners, ListPartition(r) PROVE TypeOK'
  <2>1. /\ pc' \in [Runners -> {"idle", "clear", "delete", "poll", "refined"}]
        /\ listed' \in [Runners -> SUBSET SilverRows]
    <3>1. pc' = pc \/ pc' = [pc EXCEPT ![r] = "delete"]
      BY <1>8 DEF ListPartition
    <3>2. listed' = listed
          \/ listed' = [listed EXCEPT ![r] = {s \in silver : s.part = Head(todo[r])}]
      BY <1>8 DEF ListPartition
    <3> QED
      BY <3>1, <3>2
  <2>2. UNCHANGED <<hour, lake, query, history, launched, waiting, uncleared>>
    BY <1>8 DEF ListPartition
  <2> QED
    BY <1>2, <2>1, <2>2 DEF lake, history
<1>9. ASSUME NEW r \in Runners, DeleteListed(r) PROVE TypeOK'
  <2>1. PICK refused \in SUBSET {s.query : s \in listed[r]} :
            /\ refusals + Cardinality(refused) <= MaxRefused
            /\ refusals' = refusals + Cardinality(refused)
            /\ silver' = silver \ {s \in listed[r] : s.query \notin refused}
            /\ uncleared' = [uncleared EXCEPT ![r] =
                   @ \cup {s.part : s \in {t \in listed[r] : t.query \in refused}}]
    BY <1>9 DEF DeleteListed
  <2>2. \A s \in listed[r] : s.query \in Hours /\ s.part \in Hours
    BY DEF SilverRows
  <2>3. Cardinality(refused) \in Nat
    <3>1. refused \in SUBSET Hours
      BY <2>2
    <3> QED
      BY <3>1, HoursFinite
  <2>4. refusals' \in 0..MaxRefused
    BY <2>1, <2>3
  <2>5. silver' \in SUBSET SilverRows
    BY <2>1
  <2>6. {s.part : s \in {t \in listed[r] : t.query \in refused}} \in SUBSET Hours
    BY <2>2
  <2>7. uncleared' \in [Runners -> SUBSET Hours]
    BY <2>1, <2>6
  <2>8. /\ pc' \in [Runners -> {"idle", "clear", "delete", "poll", "refined"}]
        /\ listed' \in [Runners -> SUBSET SilverRows]
        /\ UNCHANGED <<hour, bronze, query, launches, attempts, refined, launched, waiting>>
    BY <1>9 DEF DeleteListed
  <2> QED
    BY <1>2, <2>4, <2>5, <2>7, <2>8
<1>10. ASSUME NEW r \in Runners, Submit(r) PROVE TypeOK'
  <2>1. /\ query' \in [Hours -> {"none", "running", "succeeded", "failed"}]
        /\ waiting' \in [Runners -> Hours]
        /\ pc' \in [Runners -> {"idle", "clear", "delete", "poll", "refined"}]
    BY <1>10 DEF Submit
  <2>2. UNCHANGED <<hour, lake, history, launched, todo, listed, uncleared>>
    BY <1>10 DEF Submit
  <2> QED
    BY <2>1, <2>2 DEF lake, history
<1>11. ASSUME NEW r \in Runners, PollSucceeded(r) PROVE TypeOK'
  <2>1. SilverIds \subseteq Ids
    BY DEF SilverIds, SilverRows
  <2>2. refined' \in SUBSET Ids /\ attempts' \in 0..MaxFailures + 1
    BY <1>11, <2>1 DEF PollSucceeded
  <2>3. /\ pc' \in [Runners -> {"idle", "clear", "delete", "poll", "refined"}]
        /\ UNCHANGED <<hour, lake, query, launches, refusals, launched, todo, listed,
                        waiting, uncleared>>
    BY <1>11 DEF PollSucceeded
  <2> QED
    BY <2>2, <2>3 DEF lake
<1>12. ASSUME NEW r \in Runners, PollFailed(r) \/ PollTimeout(r) \/ Finish(r) PROVE TypeOK'
  <2>1. /\ pc' \in [Runners -> {"idle", "clear", "delete", "poll", "refined"}]
        /\ UNCHANGED <<hour, lake, query, history, launched, todo, listed, waiting, uncleared>>
    BY <1>12 DEF PollFailed, PollTimeout, Finish
  <2> QED
    BY <2>1 DEF lake, history
<1>13. ASSUME NEW r \in Runners, Crash(r) PROVE TypeOK'
  <2>1. /\ pc' \in [Runners -> {"idle", "clear", "delete", "poll", "refined"}]
        /\ listed' \in [Runners -> SUBSET SilverRows]
        /\ UNCHANGED <<hour, lake, query, history, launched, waiting, uncleared>>
    BY <1>13 DEF Crash
  <2> QED
    BY <1>2, <2>1 DEF lake, history
<1>14. CASE UNCHANGED vars
  BY <1>14 DEF vars, lake, history, run
<1> QED
  BY <1>3, <1>4, <1>5, <1>6, <1>7, <1>8, <1>9, <1>10, <1>11, <1>12, <1>13, <1>14
  DEF Next, Progress

(* The rows a query inserts. *)
Inserted(q) == {[query |-> q, id |-> b.id, part |-> b.hour] : b \in Selected}

(* They are of its own, one for an id, in its window and within reach.     *)
LEMMA InsertedRows ==
    ASSUME TypeOK, Written, NEW q \in Hours
    PROVE  /\ \A s \in Inserted(q) :
                  /\ s.query = q /\ s \in SilverRows /\ BronzeOf(s) \in bronze
                  /\ s.part >= hour - 3 /\ s.part <= hour + MaxEarly
           /\ \A s, t \in Inserted(q) : s.id = t.id => s = t
<1>1. ASSUME NEW b \in Selected
      PROVE  /\ b \in bronze /\ b.id \in Ids /\ b.hour \in Hours /\ b.hour >= hour - 3
             /\ b.hour <= hour + MaxEarly /\ b = [id |-> b.id, hour |-> b.hour, valid |-> TRUE]
  <2>1. b \in bronze /\ b \in Rows /\ b.hour >= hour - 3
    BY SelectedRows
  <2>2. b = [id |-> b.id, hour |-> b.hour, valid |-> b.valid] /\ b.id \in Ids /\ b.hour \in Hours
    BY <2>1 DEF Rows
  <2>3. b.valid = TRUE
    BY <2>1, SelectedRows DEF Rows
  <2> QED
    BY <2>1, <2>2, <2>3 DEF Written
<1>2. ASSUME NEW s \in Inserted(q)
      PROVE  /\ s.query = q /\ s \in SilverRows /\ BronzeOf(s) \in bronze
             /\ s.part >= hour - 3 /\ s.part <= hour + MaxEarly
  <2>1. PICK b \in Selected : s = [query |-> q, id |-> b.id, part |-> b.hour]
    BY DEF Inserted
  <2> QED
    BY <1>1, <2>1 DEF SilverRows, BronzeOf
<1>3. ASSUME NEW s \in Inserted(q), NEW t \in Inserted(q), s.id = t.id PROVE s = t
  <2>1. PICK b \in Selected : s = [query |-> q, id |-> b.id, part |-> b.hour]
    BY DEF Inserted
  <2>2. PICK c \in Selected : t = [query |-> q, id |-> c.id, part |-> c.hour]
    BY DEF Inserted
  <2>3. b.hour <= c.hour /\ c.hour <= b.hour
    BY <1>3, <2>1, <2>2 DEF Selected, Deduped
  <2>4. b.hour = c.hour
    BY <1>1, <2>3 DEF Hours
  <2> QED
    BY <1>3, <2>1, <2>2, <2>4
<1> QED
  BY <1>2, <1>3

(* Where silver, bronze and the queries come from. *)
LEMMA LakeStep ==
    ASSUME TypeOK, [Next]_vars
    PROVE  /\ bronze \subseteq bronze' /\ hour' \in Nat /\ hour' >= hour
           /\ \A q \in Hours : query[q] = "succeeded" => query'[q] = "succeeded"
           /\ \/ \E q \in Hours : RunQuery(q)
              \/ silver' \subseteq silver
<1> USE DEF TypeOK, Hours
<1>1. CASE Land
  BY <1>1 DEF Land
<1>2. CASE Tick
  BY <1>2 DEF Tick, lake
<1>3. ASSUME NEW q \in Hours, RunQuery(q) \/ FailQuery(q)
      PROVE  /\ bronze \subseteq bronze' /\ hour' \in Nat /\ hour' >= hour
             /\ \A k \in Hours : query[k] = "succeeded" => query'[k] = "succeeded"
             /\ RunQuery(q) \/ silver' \subseteq silver
  <2>1. UNCHANGED <<hour, bronze>> /\ (RunQuery(q) \/ UNCHANGED silver)
    BY <1>3 DEF RunQuery, FailQuery, lake
  <2>2. \A k \in Hours : query[k] = "succeeded" => query'[k] = "succeeded"
    BY <1>3 DEF RunQuery, FailQuery
  <2> QED
    BY <2>1, <2>2
<1>4. ASSUME NEW r \in Runners, Submit(r)
      PROVE  /\ bronze \subseteq bronze' /\ hour' \in Nat /\ hour' >= hour
             /\ silver' \subseteq silver
             /\ \A k \in Hours : query[k] = "succeeded" => query'[k] = "succeeded"
  BY <1>4 DEF Submit, lake
<1>5. ASSUME NEW r \in Runners, DeleteListed(r)
      PROVE  UNCHANGED <<bronze, hour, query>> /\ silver' \subseteq silver
  BY <1>5 DEF DeleteListed
<1>6. ASSUME NEW r \in Runners,
             \/ Launch(r) \/ ListPartition(r) \/ PollSucceeded(r) \/ PollFailed(r)
             \/ Finish(r) \/ PollTimeout(r) \/ Crash(r)
      PROVE  UNCHANGED <<bronze, hour, query, silver>>
  BY <1>6 DEF Launch, ListPartition, PollSucceeded, PollFailed, Finish, PollTimeout, Crash, lake
<1>7. CASE UNCHANGED vars
  BY <1>7 DEF vars, lake
<1>8. UNCHANGED <<bronze, hour, query>> /\ silver' \subseteq silver =>
          /\ bronze \subseteq bronze' /\ hour' \in Nat /\ hour' >= hour
          /\ \A q \in Hours : query[q] = "succeeded" => query'[q] = "succeeded"
  OBVIOUS
<1> HIDE DEF TypeOK, Hours
<1> QED
  BY <1>1, <1>2, <1>3, <1>4, <1>5, <1>6, <1>7, <1>8 DEF Next, Progress

LEMMA WrittenStep ==
    ASSUME TypeOK, Written, [Next]_vars
    PROVE  Written'
<1>1. \A b \in bronze' : b.hour <= hour' + MaxEarly
  <2>1. CASE UNCHANGED bronze
    BY <2>1, LakeStep DEF Written, TypeOK, Hours, Rows
  <2>2. CASE Land
    BY <2>2 DEF Land, Written, TypeOK, Hours, Rows
  <2> QED
    BY <2>1, <2>2 DEF Next, Tick, RunQuery, FailQuery, Progress, Launch, ListPartition,
                  DeleteListed, Submit, PollSucceeded, PollFailed, Finish, PollTimeout,
                  Crash, vars, lake
<1>2. CASE silver' \subseteq silver
  <2>1. \A s \in silver : s.query \in Hours
    BY DEF TypeOK, SilverRows
  <2> QED
    BY <1>1, <1>2, <2>1, LakeStep DEF Written, BronzeOf
<1>3. ASSUME NEW q \in Hours, RunQuery(q) PROVE Written'
  <2>1. query[q] = "running" /\ silver' = silver \cup Inserted(q) /\ bronze' = bronze
    BY <1>3 DEF RunQuery, Inserted
  <2>2. \A s \in silver : s.query # q /\ s.query \in Hours
    BY <2>1 DEF Written, TypeOK, SilverRows
  <2>3. query'[q] = "succeeded"
    BY <1>3 DEF RunQuery, TypeOK
  <2>4. \A s \in silver' : query'[s.query] = "succeeded" /\ BronzeOf(s) \in bronze'
    <3>1. \A s \in silver : query'[s.query] = "succeeded" /\ BronzeOf(s) \in bronze'
      BY <2>1, <2>2, LakeStep DEF Written
    <3>2. \A s \in Inserted(q) : query'[s.query] = "succeeded" /\ BronzeOf(s) \in bronze'
      BY <2>1, <2>3, InsertedRows
    <3> QED
      BY <2>1, <3>1, <3>2
  <2>5. \A s, t \in silver' : s.query = t.query /\ s.id = t.id => s = t
    BY <2>1, <2>2, InsertedRows DEF Written
  <2> QED
    BY <1>1, <2>4, <2>5 DEF Written, BronzeOf
<1> QED
  BY <1>2, <1>3, LakeStep

(* On schedule there is one run an hour, over before the hour turns. *)
LEMMA OneRunStep ==
    ASSUME OnSchedule, Typing, Typing', OneRun, [Next]_vars
    PROVE  OneRun'
<1> USE DEF Typing, TypeOK, Hours
<1>1. LaunchesPerHour = 1
  BY DEF LaunchesPerHour
<1>2. CASE UNCHANGED <<hour, query, launches, attempts, pc, launched, todo, waiting>>
  BY <1>2 DEF OneRun
<1>3. CASE Tick
  <2>1. /\ \A r \in Runners : pc[r] = "idle"
        /\ \A q \in Hours : query[q] # "running"
        /\ hour' = hour + 1 /\ launches' = 0
        /\ UNCHANGED <<query, attempts, run>>
    BY <1>3 DEF Tick
  <2>2. ~(attempts > MaxFailures)
    BY <2>1 DEF OneRun
  <2> QED
    BY <2>1, <2>2 DEF OneRun, run
<1>4. ASSUME NEW q \in Hours, RunQuery(q) \/ FailQuery(q) PROVE OneRun'
  <2>1. query[q] = "running" /\ q = hour
    BY <1>4 DEF RunQuery, FailQuery, OneRun
  <2>2. /\ query' = [query EXCEPT ![q] = query'[q]] /\ query'[q] \notin {"none", "running"}
        /\ query'[q] = "failed" => attempts <= MaxFailures
        /\ UNCHANGED <<hour, history, run>>
    BY <1>4 DEF RunQuery, FailQuery, MayFail
  <2>3. \A r \in Runners : pc[r] \in {"idle", "poll"}
    BY <2>1 DEF OneRun
  <2>4. launches # 0
    BY <2>1 DEF OneRun
  <2> QED
    BY <2>1, <2>2, <2>3, <2>4 DEF OneRun, history, run
<1>5. ASSUME NEW r \in Runners, Launch(r) PROVE OneRun'
  <2>1. launches = 0 /\ launches' = 1
    BY <1>1, <1>5 DEF Launch
  <2>2. \A k \in Runners : pc[k] = "idle"
    BY <2>1 DEF OneRun
  <2>3. query[hour] = "none"
    BY <2>1 DEF OneRun
  <2>4. attempts' > 0
    BY <1>5 DEF Launch
  <2>5. /\ pc' = [pc EXCEPT ![r] = "clear"] /\ launched' = [launched EXCEPT ![r] = hour]
        /\ UNCHANGED <<hour, query, waiting>>
    BY <1>5 DEF Launch
  <2> QED
    BY <2>1, <2>2, <2>3, <2>4, <2>5 DEF OneRun
<1>6. ASSUME NEW r \in Runners, ListPartition(r) \/ DeleteListed(r) PROVE OneRun'
  <2>1. pc[r] \in {"clear", "delete"} /\ pc'[r] \in {"clear", "delete"}
    BY <1>6 DEF ListPartition, DeleteListed
  <2>2. \A k \in Runners : k # r => pc'[k] = pc[k] /\ todo'[k] = todo[k]
    BY <1>6 DEF ListPartition, DeleteListed
  <2>3. UNCHANGED <<hour, query, launches, attempts, launched, waiting>>
    BY <1>6 DEF ListPartition, DeleteListed, history
  <2> QED
    BY <2>1, <2>2, <2>3 DEF OneRun
<1>7. ASSUME NEW r \in Runners, Submit(r) PROVE OneRun'
  <2>1. pc[r] = "clear" /\ todo[r] = <<>> /\ query[hour] = "none" /\ launches = 1
    BY <1>7 DEF Submit, OneRun
  <2>2. /\ query' = [query EXCEPT ![hour] = "running"]
        /\ waiting' = [waiting EXCEPT ![r] = hour]
        /\ pc' = [pc EXCEPT ![r] = "poll"]
        /\ UNCHANGED <<hour, launches, attempts, launched, todo>>
    BY <1>7, <2>1 DEF Submit, history
  <2>3. \A k \in Runners : k # r => pc[k] = "idle"
    BY <2>1 DEF OneRun
  <2> QED
    BY <2>1, <2>2, <2>3 DEF OneRun
<1>8. ASSUME NEW r \in Runners, PollSucceeded(r) PROVE OneRun'
  <2>1. pc[r] = "poll" /\ query[hour] = "succeeded"
    BY <1>8 DEF PollSucceeded, OneRun
  <2>2. \A k \in Runners : k # r => pc[k] = "idle"
    BY <2>1 DEF OneRun
  <2>3. /\ attempts' = 0 /\ pc' = [pc EXCEPT ![r] = "refined"]
        /\ UNCHANGED <<hour, query, launches, launched, todo, waiting>>
    BY <1>8 DEF PollSucceeded
  <2> QED
    BY <2>1, <2>2, <2>3 DEF OneRun
<1>9. ASSUME NEW r \in Runners,
             PollFailed(r) \/ PollTimeout(r) \/ Crash(r) \/ Finish(r)
      PROVE  OneRun'
  <2>1. /\ pc[r] # "idle" /\ pc' = [pc EXCEPT ![r] = "idle"]
        /\ UNCHANGED <<hour, query, launches, attempts>>
    BY <1>9 DEF PollFailed, PollTimeout, Crash, Finish, history
  <2>2. \A k \in Runners : pc'[k] = "idle"
    BY <2>1 DEF OneRun
  <2>3. attempts <= MaxFailures
    <3>1. CASE PollFailed(r)
      BY <3>1 DEF PollFailed, OneRun
    <3>2. CASE Finish(r)
      BY <3>2 DEF Finish, OneRun
    <3>3. CASE PollTimeout(r) \/ Crash(r)
      BY <3>3 DEF PollTimeout, Crash, MayFail
    <3> QED
      BY <1>9, <3>1, <3>2, <3>3
  <2> QED
    BY <2>1, <2>2, <2>3 DEF OneRun
<1> QED
  BY <1>2, <1>3, <1>4, <1>5, <1>6, <1>7, <1>8, <1>9
  DEF Next, Progress, Land, vars, history, run

(* A set of naturals has a least. *)
LEMMA Least ==
    ASSUME NEW T \in SUBSET Nat, T # {}
    PROVE  \E m \in T : \A n \in T : m <= n
<1>1. PICK m \in T : \A n \in T : <<n, m>> \notin OpToRel(<, Nat)
  BY NatLessThanWellFounded, WFMin, Zenon
<1>2. \A n \in T : ~(n < m)
  BY <1>1 DEF OpToRel
<1> QED
  BY <1>2

(* A query selects a row of every id that has a row in its window.         *)
LEMMA EveryIdSelected ==
    ASSUME TypeOK, NEW b \in bronze, InWindow(b)
    PROVE  \E c \in Selected : c.id = b.id
<1> DEFINE rows == {c \in bronze : InWindow(c) /\ c.id = b.id}
           hours == {c.hour : c \in rows}
<1>1. hours \in SUBSET Nat /\ hours # {}
  BY DEF TypeOK, Rows, Hours
<1>2. PICK h \in hours : \A n \in hours : h <= n
  BY <1>1, Least
<1>3. PICK c \in rows : c.hour = h
  BY <1>2
<1>4. \A d \in bronze : InWindow(d) /\ d.id = c.id => c.hour <= d.hour
  BY <1>2, <1>3
<1>5. c \in Selected
  BY <1>3, <1>4 DEF Selected, Deduped
<1> QED
  BY <1>3, <1>5

(* The partition a run is at, and how many are left after it. *)
LEMMA HeadOf ==
    ASSUME Typing, NEW r \in Runners, todo[r] # <<>>
    PROVE  /\ Head(todo[r]) = launched[r] - 3 + Len(todo[r])
           /\ Len(todo[r]) \in 1..3 /\ launched[r] \in Nat
           /\ Len(Tail(todo[r])) = Len(todo[r]) - 1
<1> DEFINE left == Len(todo[r])
<1>1. todo[r] \in Seq(Int)
  BY DEF Typing
<1>2. left \in Nat \ {0} /\ left <= 3
  BY <1>1 DEF Typing, Countdown
<1>3. Head(todo[r]) = todo[r][1] /\ Len(Tail(todo[r])) = left - 1
  BY <1>1
<1>4. todo[r][1] = launched[r] - 2 + left - 1
  BY <1>2 DEF Typing, Countdown
<1>5. launched[r] \in Nat
  BY DEF Typing, TypeOK, Hours
<1> HIDE DEF left
<1>6. Head(todo[r]) = launched[r] - 3 + left /\ left \in 1..3
  BY <1>2, <1>3, <1>4, <1>5
<1> QED
  BY <1>3, <1>5, <1>6 DEF left

(* The rows a run has listed are of a partition it looks back on.          *)
LEMMA ListedRows ==
    ASSUME Typing, OneRun, Cleared, NEW r \in Runners, pc[r] = "delete"
    PROVE  /\ listed[r] = {s \in silver : s.part = Head(todo[r])}
           /\ Head(todo[r]) >= hour - 2
<1>1. todo[r] # <<>> /\ launched[r] = hour
  BY DEF Typing, Countdown, OneRun
<1>2. Head(todo[r]) >= hour - 2
  BY <1>1, HeadOf
<1> QED
  BY <1>2 DEF Cleared, ClearedBy

LEMMA RememberedStep ==
    ASSUME OnSchedule, MaxFailures <= 1, Typing, Written, OneRun, Cleared, Remembered,
           [Next]_vars
    PROVE  Remembered'
<1>1. LaunchesPerHour = 1 /\ hour \in Nat /\ attempts \in Nat /\ launches \in 0..1
  BY DEF LaunchesPerHour, Typing, TypeOK, Hours
<1>2. \A b \in bronze : b.hour \in Nat
  BY DEF Typing, TypeOK, Rows, Hours
<1>3. CASE /\ bronze \subseteq bronze'
           /\ query'[hour] = "succeeded" => query[hour] = "succeeded"
           /\ UNCHANGED <<hour, silver, refined, attempts, launches>>
  BY <1>3 DEF Remembered, Restorable, SilverIds
<1>4. CASE Tick
  <2>1. /\ hour' = hour + 1 /\ launches' = 0 /\ UNCHANGED <<lake, query, attempts, refined>>
        /\ \A r \in Runners : pc[r] = "idle"
        /\ launches = 1 /\ hour' \in Hours
    BY <1>1, <1>4 DEF Tick, Hours
  <2>2. query'[hour'] = "none"
    BY <1>1, <2>1 DEF OneRun
  <2>3. attempts <= 1
    BY <1>1, <2>1 DEF OneRun
  <2>4. Restorable(hour - 2)
    BY <2>1, <2>3 DEF Remembered
  <2>5. Restorable(hour - 3)'
    BY <1>1, <1>2, <2>1, <2>4 DEF Restorable, SilverIds, lake
  <2>6. attempts' = 0 => refined' \subseteq SilverIds'
    BY <2>1 DEF Remembered, SilverIds, lake
  <2> QED
    BY <2>1, <2>2, <2>5, <2>6 DEF Remembered
<1>5. ASSUME NEW q \in Hours, RunQuery(q) PROVE Remembered'
  <2>1. /\ UNCHANGED <<hour, bronze, refined, attempts, launches>>
        /\ silver' = silver \cup Inserted(q)
    BY <1>5 DEF RunQuery, Inserted, history
  <2>2. ASSUME NEW id \in refined, id \notin SilverIds PROVE id \in SilverIds'
    <3>1. PICK b \in bronze : b.id = id /\ b.valid /\ b.hour >= hour - 3
      BY <2>2 DEF Remembered, Restorable
    <3>2. PICK c \in Selected : c.id = id
      BY <3>1, EveryIdSelected DEF InWindow, Typing
    <3>3. [query |-> q, id |-> c.id, part |-> c.hour] \in silver'
      BY <2>1 DEF Inserted
    <3> QED
      BY <3>2, <3>3 DEF SilverIds
  <2>3. refined' \subseteq SilverIds'
    BY <2>1, <2>2 DEF SilverIds
  <2> QED
    BY <2>1, <2>3 DEF Remembered, Restorable
<1>6. ASSUME NEW r \in Runners, Launch(r) PROVE Remembered'
  <2>1. launches = 0 /\ launches' = 1
    BY <1>1, <1>6 DEF Launch
  <2>2. attempts <= MaxFailures /\ attempts' = attempts + 1
    BY <1>1, <1>6, <2>1 DEF Launch, OneRun
  <2>3. UNCHANGED <<hour, lake, query, refined>>
    BY <1>6 DEF Launch
  <2>4. attempts' <= 1 => refined \subseteq SilverIds
    BY <1>1, <2>2 DEF Remembered
  <2>5. query[hour] = "none"
    BY <2>1 DEF OneRun
  <2> QED
    BY <1>1, <2>1, <2>2, <2>3, <2>4, <2>5 DEF Remembered, Restorable, SilverIds, lake
<1>7. ASSUME NEW r \in Runners, DeleteListed(r) PROVE Remembered'
  <2>1. pc[r] = "delete" /\ UNCHANGED <<hour, bronze, query, launches, attempts, refined>>
    BY <1>7 DEF DeleteListed
  <2>2. attempts # 0 /\ query[hour] = "none"
    BY <2>1 DEF OneRun, Typing, TypeOK
  <2>3. silver \ silver' \subseteq listed[r]
    BY <1>7 DEF DeleteListed
  <2>4. ASSUME NEW id \in SilverIds, id \notin SilverIds'
        PROVE  \E b \in bronze : b.id = id /\ b.valid /\ b.hour >= hour - 2
    <3>1. PICK s \in silver : s.id = id
      BY DEF SilverIds
    <3>2. s \in listed[r]
      BY <2>3, <2>4, <3>1 DEF SilverIds
    <3>3. s.part >= hour - 2
      BY <2>1, <3>2, ListedRows
    <3>4. BronzeOf(s) \in bronze /\ BronzeOf(s).valid = TRUE
          /\ BronzeOf(s).id = id /\ BronzeOf(s).hour = s.part
      BY <3>1 DEF Written, BronzeOf
    <3> QED
      BY <3>3, <3>4
  <2>5. ASSUME NEW since \in {hour - 2, hour - 3}, Restorable(since)
        PROVE  Restorable(since)'
    BY <1>1, <1>2, <2>1, <2>4, <2>5 DEF Restorable
  <2> QED
    BY <2>1, <2>2, <2>5 DEF Remembered
<1>8. ASSUME NEW r \in Runners, PollSucceeded(r) PROVE Remembered'
  <2>1. /\ refined' = refined \cup SilverIds /\ UNCHANGED <<hour, lake, query, launches>>
        /\ pc[r] = "poll" /\ query[waiting[r]] = "succeeded"
    BY <1>8 DEF PollSucceeded
  <2>2. query[hour] = "succeeded"
    BY <2>1 DEF OneRun
  <2>3. refined' \subseteq SilverIds'
    BY <2>1, <2>2 DEF Remembered, SilverIds, lake
  <2> QED
    BY <2>3 DEF Remembered, Restorable
<1>9. ASSUME NEW q \in Hours, FailQuery(q) PROVE Remembered'
  BY <1>3, <1>9 DEF FailQuery, lake, history, Typing, TypeOK
<1>10. ASSUME NEW r \in Runners, Submit(r) PROVE Remembered'
  BY <1>3, <1>10 DEF Submit, lake, history, Typing, TypeOK
<1>11. CASE Land
  BY <1>3, <1>11 DEF Land, history
<1>12. CASE UNCHANGED <<hour, lake, query, history>>
  BY <1>3, <1>12 DEF lake, history
<1> QED
  BY <1>4, <1>5, <1>6, <1>7, <1>8, <1>9, <1>10, <1>11, <1>12
  DEF Next, Progress, ListPartition, PollFailed, PollTimeout, Crash, Finish, vars

(* The hours of a row are numbers. *)
LEMMA RowsHave ==
    ASSUME TypeOK, NEW s \in silver
    PROVE  s.part \in Nat /\ s.query \in Hours
BY DEF TypeOK, SilverRows, Hours

(* On schedule, no query of an hour to come has written a row. *)
LEMMA QueriesHave ==
    ASSUME TypeOK, Written, OneRun, NEW s \in silver
    PROVE  s.query \in Nat /\ s.query <= hour
<1>1. s.query \in Hours /\ query[s.query] = "succeeded" /\ hour \in Nat
  BY RowsHave DEF Written, TypeOK, Hours
<1>2. ~(s.query > hour)
  BY <1>1 DEF OneRun
<1> QED
  BY <1>1, <1>2 DEF Hours

LEMMA InReachStep ==
    ASSUME Typing, Written, OneRun, InReach, [Next]_vars
    PROVE  InReach'
<1>1. CASE silver' \subseteq silver
  BY <1>1 DEF InReach
<1>2. ASSUME NEW q \in Hours, RunQuery(q) PROVE InReach'
  <2>1. q = hour /\ silver' = silver \cup Inserted(q)
    BY <1>2 DEF RunQuery, Inserted, OneRun
  <2>2. \A s \in Inserted(q) :
            s.query = hour /\ s.part >= hour - 3 /\ s.part <= hour + MaxEarly
    BY <2>1, InsertedRows DEF Typing
  <2> QED
    BY <2>1, <2>2 DEF InReach
<1> QED
  BY <1>1, <1>2, LakeStep DEF Typing

LEMMA ClearedStep ==
    ASSUME OnSchedule, Typing, Written, OneRun, Cleared, [Next]_vars
    PROVE  Cleared'
<1>1. hour \in Nat /\ LaunchesPerHour = 1 /\ launches \in 0..1
  BY DEF Typing, TypeOK, Hours, LaunchesPerHour
<1>2. CASE /\ UNCHANGED <<hour, silver, launched, todo, listed, uncleared>>
           /\ \A r \in Runners : pc[r] = "idle" => pc'[r] = "idle"
           /\ \A r \in Runners : pc'[r] = "delete" => pc[r] = "delete"
  BY <1>2 DEF Cleared, ClearedBy
<1>3. CASE Tick
  <2>1. \A r \in Runners : pc'[r] = "idle"
    BY <1>3 DEF Tick, run
  <2> QED
    BY <2>1 DEF Cleared, ClearedBy
<1>4. ASSUME NEW q \in Hours, RunQuery(q) PROVE Cleared'
  <2>1. q = hour /\ query[hour] = "running"
    BY <1>4 DEF RunQuery, OneRun
  <2>2. \A r \in Runners : pc[r] # "delete"
    BY <2>1 DEF OneRun
  <2>3. silver' = silver \cup Inserted(q) /\ UNCHANGED <<hour, run>>
    BY <1>4 DEF RunQuery, Inserted
  <2>4. \A s \in Inserted(q) : s.query = hour
    BY <2>1, InsertedRows DEF Typing
  <2> QED
    BY <2>2, <2>3, <2>4 DEF Cleared, ClearedBy, run
<1>5. ASSUME NEW r \in Runners, Launch(r) PROVE Cleared'
  <2>1. launches = 0
    BY <1>1, <1>5 DEF Launch
  <2>2. \A k \in Runners : k # r => pc'[k] = "idle"
    BY <1>5, <2>1 DEF Launch, OneRun, Typing, TypeOK
  <2>3. pc'[r] = "clear" /\ launched'[r] = hour /\ silver' = silver
    BY <1>5 DEF Launch, lake, Typing, TypeOK
  <2>4. Len(todo'[r]) = 3
    BY <1>5 DEF Launch, LookbackPartitions, Typing
  <2>5. \A s \in silver :
            ~(s.part >= launched'[r] - 2 + Len(todo'[r]) /\ s.part <= launched'[r])
    BY <1>1, <2>3, <2>4, RowsHave DEF Typing
  <2> QED
    BY <2>2, <2>3, <2>5 DEF Cleared, ClearedBy
<1>6. ASSUME NEW r \in Runners, ListPartition(r) PROVE Cleared'
  <2> DEFINE found == {s \in silver : s.part = Head(todo[r])}
  <2>1. /\ todo[r] # <<>> /\ pc[r] = "clear"
        /\ UNCHANGED <<hour, silver, launched, uncleared>>
    BY <1>6 DEF ListPartition, lake
  <2>2. \A k \in Runners : k # r => /\ pc'[k] = pc[k] /\ todo'[k] = todo[k]
                                   /\ listed'[k] = listed[k]
    BY <1>6 DEF ListPartition, Typing, TypeOK
  <2>3. CASE found = {} /\ todo'[r] = Tail(todo[r]) /\ pc'[r] = "clear"
    <3>1. \A s \in silver : s.part \in Nat /\ s.part # Head(todo[r])
      BY <2>3, RowsHave DEF Typing
    <3>2. ASSUME NEW s \in silver, s.part >= launched[r] - 2 + Len(todo'[r])
          PROVE  s.part >= launched[r] - 2 + Len(todo[r])
      <4>1. s.part >= Head(todo[r])
        BY <2>1, <2>3, <3>2, HeadOf
      <4>2. s.part \in Nat /\ s.part # Head(todo[r])
        BY <3>1
      <4> QED
        BY <2>1, <4>1, <4>2, HeadOf
    <3>3. \A s \in silver :
              s.part >= launched[r] - 2 + Len(todo[r]) /\ s.part <= launched[r] =>
                  s.part \in uncleared[r] \/ s.query = hour
      BY <2>1 DEF Cleared, ClearedBy
    <3>4. \A s \in silver' :
              s.part >= launched'[r] - 2 + Len(todo'[r]) /\ s.part <= launched'[r] =>
                  s.part \in uncleared'[r] \/ s.query = hour'
      BY <2>1, <3>2, <3>3
    <3>5. ClearedBy(r)'
      BY <2>3, <3>4 DEF ClearedBy
    <3>6. \A k \in Runners : k # r => ClearedBy(k)'
      BY <2>1, <2>2 DEF Cleared, ClearedBy
    <3> QED
      BY <3>5, <3>6 DEF Cleared
  <2>4. CASE listed'[r] = found /\ todo'[r] = todo[r] /\ pc'[r] = "delete"
    BY <2>1, <2>2, <2>4 DEF Cleared, ClearedBy
  <2>5. \/ found = {} /\ todo'[r] = Tail(todo[r]) /\ pc'[r] = "clear"
        \/ listed'[r] = found /\ todo'[r] = todo[r] /\ pc'[r] = "delete"
    BY <1>6 DEF ListPartition, Typing, TypeOK
  <2> QED
    BY <2>3, <2>4, <2>5
<1>7. ASSUME NEW r \in Runners, DeleteListed(r) PROVE Cleared'
  <2>1. todo[r] # <<>> /\ pc[r] = "delete" /\ UNCHANGED <<hour, launched>>
    BY <1>7 DEF DeleteListed, Typing, Countdown
  <2>2. PICK refused :
            /\ silver' = silver \ {s \in listed[r] : s.query \notin refused}
            /\ uncleared' = [uncleared EXCEPT ![r] =
                   @ \cup {s.part : s \in {t \in listed[r] : t.query \in refused}}]
    BY <1>7 DEF DeleteListed
  <2>3. /\ todo'[r] = Tail(todo[r]) /\ pc'[r] = "clear"
        /\ \A k \in Runners : k # r => /\ pc'[k] = pc[k] /\ todo'[k] = todo[k]
                                      /\ listed'[k] = listed[k]
    BY <1>7 DEF DeleteListed, Typing, TypeOK
  <2>4. \A k \in Runners : k # r => pc'[k] = "idle"
    BY <2>1, <2>3 DEF OneRun
  <2>5. ASSUME NEW s \in silver', s.part >= launched[r] - 2 + Len(todo'[r]),
               s.part <= launched[r]
        PROVE  s.part \in uncleared'[r] \/ s.query = hour
    <3>1. s \in silver /\ s.part \in Nat
      BY <2>2, RowsHave DEF Typing
    <3>2. CASE s.part = Head(todo[r])
      <4>1. s \in listed[r]
        BY <2>1, <3>1, <3>2, ListedRows
      <4>2. s.query \in refused
        BY <2>2, <4>1
      <4> QED
        BY <2>2, <4>1, <4>2 DEF Typing, TypeOK
    <3>3. CASE s.part >= launched[r] - 2 + Len(todo[r])
      <4>1. s.part \in uncleared[r] \/ s.query = hour
        BY <2>1, <2>5, <3>1, <3>3 DEF Cleared, ClearedBy
      <4> QED
        BY <2>2, <4>1 DEF Typing, TypeOK
    <3>4. s.part >= Head(todo[r])
      BY <2>1, <2>3, <2>5, HeadOf
    <3>5. s.part = Head(todo[r]) \/ s.part >= launched[r] - 2 + Len(todo[r])
      BY <2>1, <3>1, <3>4, HeadOf
    <3> QED
      BY <3>2, <3>3, <3>5
  <2> QED
    BY <2>1, <2>3, <2>4, <2>5 DEF Cleared, ClearedBy
<1>8. ASSUME NEW r \in Runners, Crash(r) PROVE Cleared'
  <2>1. /\ pc[r] # "idle" /\ pc'[r] = "idle"
        /\ \A k \in Runners : k # r => pc'[k] = pc[k]
    BY <1>8 DEF Crash, Typing, TypeOK
  <2>2. \A k \in Runners : pc'[k] = "idle"
    BY <2>1 DEF OneRun
  <2> QED
    BY <2>2 DEF Cleared, ClearedBy
<1>9. ASSUME NEW r \in Runners,
             Submit(r) \/ PollSucceeded(r) \/ PollFailed(r) \/ PollTimeout(r) \/ Finish(r)
      PROVE  Cleared'
  <2>1. UNCHANGED <<hour, silver, launched, todo, listed, uncleared>> /\ pc[r] # "idle"
    BY <1>9 DEF Submit, PollSucceeded, PollFailed, PollTimeout, Finish, lake
  <2>2. pc'[r] # "delete" /\ \A k \in Runners : k # r => pc'[k] = pc[k]
    BY <1>9 DEF Submit, PollSucceeded, PollFailed, PollTimeout, Finish, Typing, TypeOK
  <2> QED
    BY <1>2, <2>1, <2>2
<1>10. ASSUME NEW q \in Hours, FailQuery(q) PROVE Cleared'
  BY <1>2, <1>10 DEF FailQuery, lake, run
<1>11. CASE Land
  BY <1>2, <1>11 DEF Land, run
<1>12. CASE UNCHANGED vars
  BY <1>2, <1>12 DEF vars, lake, run
<1> QED
  BY <1>3, <1>4, <1>5, <1>6, <1>7, <1>8, <1>9, <1>10, <1>11, <1>12 DEF Next, Progress

(* Rows of one id are as few as the queries they are of. *)
LEMMA ByQuery ==
    ASSUME Written, NEW Q \in SUBSET Hours, NEW id,
           NEW S \in SUBSET silver, \A s \in S : s.id = id /\ s.query \in Q
    PROVE  IsFiniteSet(S) /\ Cardinality(S) \in Nat /\ Cardinality(S) <= Cardinality(Q)
<1> DEFINE queryOf == [s \in S |-> s.query]
<1>1. queryOf \in [S -> Q] /\ \A s, t \in S : queryOf[s] = queryOf[t] => s = t
  BY DEF Written
<1>2. queryOf \in Injection(S, Q)
  BY <1>1 DEF Injection, IsInjective
<1>3. IsFiniteSet(Q)
  BY HoursFinite
<1> QED
  BY <1>2, <1>3, FS_Injection, FS_CardinalityType

LEMMA CopiesFinite ==
    ASSUME TypeOK, Written, NEW id, NEW p
    PROVE  IsFiniteSet(Copies(id, p)) /\ Cardinality(Copies(id, p)) \in Nat
<1>1. Copies(id, p) \in SUBSET silver /\ Hours \in SUBSET Hours
  BY DEF Copies
<1>2. \A s \in Copies(id, p) : s.id = id /\ s.query \in Hours
  BY DEF Copies, TypeOK, SilverRows
<1> QED
  BY <1>1, <1>2, ByQuery

(* A bound on the copies stays as long as no row is inserted. *)
LEMMA StaysBounded ==
    ASSUME TypeOK, Written, silver' \subseteq silver, refusals' \in Nat, refusals' >= refusals,
           NEW p, NEW n \in Nat, Bounded(p, n)
    PROVE  Bounded(p, n)'
<1> SUFFICES ASSUME NEW id \in Ids PROVE Cardinality(Copies(id, p)') <= n + refusals'
  BY DEF Bounded
<1>1. Copies(id, p)' \subseteq Copies(id, p)
  BY DEF Copies
<1>2. IsFiniteSet(Copies(id, p)) /\ Cardinality(Copies(id, p)) \in Nat
  BY CopiesFinite
<1>3. Cardinality(Copies(id, p)') <= Cardinality(Copies(id, p))
      /\ Cardinality(Copies(id, p)') \in Nat
  BY <1>1, <1>2, FS_Subset, FS_CardinalityType
<1>4. Cardinality(Copies(id, p)) <= n + refusals /\ refusals \in Nat
  BY DEF Bounded, TypeOK
<1> QED
  BY <1>2, <1>3, <1>4

(* A tighter bound is a bound. *)
LEMMA Looser ==
    ASSUME TypeOK, Written, NEW p, NEW n \in Nat, Bounded(p, n)
    PROVE  Bounded(p, n + 1)
<1> SUFFICES ASSUME NEW id \in Ids PROVE Cardinality(Copies(id, p)) <= n + 1 + refusals
  BY DEF Bounded
<1>1. Cardinality(Copies(id, p)) \in Nat /\ refusals \in Nat
  BY CopiesFinite DEF TypeOK
<1>2. Cardinality(Copies(id, p)) <= n + refusals
  BY DEF Bounded
<1> QED
  BY <1>1, <1>2

(* A partition without rows has no copies. *)
LEMMA NoneBounded ==
    ASSUME TypeOK, NEW p, \A s \in silver : s.part # p
    PROVE  Bounded(p, 0)
<1>1. \A id \in Ids : Copies(id, p) = {}
  BY DEF Copies
<1>2. \A id \in Ids : Cardinality(Copies(id, p)) = 0
  BY <1>1, FS_EmptySet, Zenon
<1> QED
  BY <1>2 DEF Bounded, TypeOK

(* A query adds one copy at most. *)
LEMMA OneCopyMore ==
    ASSUME TypeOK, Written, NEW q \in Hours, RunQuery(q), NEW p, NEW n \in Nat, Bounded(p, n)
    PROVE  Bounded(p, n + 1)'
<1> SUFFICES ASSUME NEW id \in Ids PROVE Cardinality(Copies(id, p)') <= n + 1 + refusals'
  BY DEF Bounded
<1> DEFINE row == [query |-> q, id |-> id, part |-> p]
<1>1. silver' = silver \cup Inserted(q) /\ refusals' = refusals
  BY DEF RunQuery, Inserted, history
<1>2. \A s \in Inserted(q) : s.id = id /\ s.part = p => s = row
  BY DEF Inserted
<1>3. Copies(id, p)' \subseteq Copies(id, p) \cup {row}
  BY <1>1, <1>2 DEF Copies
<1>4. IsFiniteSet(Copies(id, p)) /\ Cardinality(Copies(id, p)) \in Nat
  BY CopiesFinite
<1>5. IsFiniteSet(Copies(id, p) \cup {row})
      /\ Cardinality(Copies(id, p) \cup {row}) <= Cardinality(Copies(id, p)) + 1
      /\ Cardinality(Copies(id, p) \cup {row}) \in Nat
  <2>1. /\ IsFiniteSet(Copies(id, p) \cup {row})
        /\ Cardinality(Copies(id, p) \cup {row}) =
               IF row \in Copies(id, p) THEN Cardinality(Copies(id, p))
               ELSE Cardinality(Copies(id, p)) + 1
    BY <1>4, FS_AddElement, Zenon
  <2> QED
    BY <1>4, <2>1
<1>6. Cardinality(Copies(id, p)') <= Cardinality(Copies(id, p) \cup {row})
      /\ Cardinality(Copies(id, p)') \in Nat
  BY <1>3, <1>5, FS_Subset, FS_CardinalityType
<1>7. Cardinality(Copies(id, p)) <= n + refusals /\ refusals \in Nat
  BY DEF Bounded, TypeOK
<1> QED
  BY <1>1, <1>4, <1>5, <1>6, <1>7

(* What a run does not delete of the partition it is at, S3 refused it. *)
LEMMA RefusedBounds ==
    ASSUME Typing, Written, OneRun, Cleared, NEW r \in Runners, DeleteListed(r),
           NEW p, p = Head(todo[r])
    PROVE  /\ Bounded(p, 0)'
           /\ silver' \subseteq silver /\ refusals' \in Nat /\ refusals' >= refusals
<1>1. PICK refused \in SUBSET {s.query : s \in listed[r]} :
          /\ refusals' = refusals + Cardinality(refused)
          /\ silver' = silver \ {s \in listed[r] : s.query \notin refused}
  BY DEF DeleteListed
<1>2. pc[r] = "delete" /\ refusals \in Nat
  BY DEF DeleteListed, Typing, TypeOK
<1>3. refused \in SUBSET Hours
  BY DEF Typing, TypeOK, SilverRows
<1>4. Cardinality(refused) \in Nat
  BY <1>3, HoursFinite
<1>5. ASSUME NEW id \in Ids
      PROVE  Cardinality({s \in silver' : s.id = id /\ s.part = Head(todo[r])}) <= refusals'
  <2> DEFINE left == {s \in silver' : s.id = id /\ s.part = Head(todo[r])}
  <2>1. left \in SUBSET silver
    BY <1>1
  <2>2. \A s \in left : s.id = id /\ s.query \in refused
    BY <1>1, <1>2, ListedRows
  <2> HIDE DEF left
  <2>3. Cardinality(left) \in Nat /\ Cardinality(left) <= Cardinality(refused)
    BY <1>3, <2>1, <2>2, ByQuery
  <2> QED
    BY <1>1, <1>2, <1>4, <2>3 DEF left
<1>6. Bounded(p, 0)'
  <2>1. refusals' \in Nat
    BY <1>1, <1>2, <1>4
  <2>2. \A id \in Ids : Cardinality(Copies(id, p)') <= refusals'
    BY <1>5 DEF Copies
  <2> QED
    BY <2>1, <2>2 DEF Bounded
<1> QED
  BY <1>1, <1>2, <1>4, <1>6

LEMMA FewStep ==
    ASSUME OnSchedule, Typing, Typing', Written, OneRun, OneRun', Cleared, Few, [Next]_vars
    PROVE  Few'
<1>1. /\ hour \in Nat /\ LaunchesPerHour = 1 /\ launches \in 0..1 /\ refusals \in Nat
      /\ \A p \in Hours : p \in Nat
  BY DEF Typing, TypeOK, Hours, LaunchesPerHour
<1>2. ASSUME UNCHANGED silver, UNCHANGED refusals, NEW p \in Hours, NEW n \in Nat, Bounded(p, n)
      PROVE  Bounded(p, n)'
  BY <1>1, <1>2, StaysBounded DEF Typing
<1>0. ASSUME silver' \subseteq silver, NEW p, Reached(p)' PROVE Reached(p)
  BY <1>0 DEF Reached
<1>3. CASE /\ UNCHANGED <<silver, refusals, hour>>
           /\ query'[hour] = query[hour]
           /\ \A r \in Runners : pc'[r] \in {"clear", "delete"} =>
                  pc[r] \in {"clear", "delete"} /\ todo'[r] = todo[r]
  BY <1>2, <1>0, <1>3 DEF Few, FewIn
<1>4. CASE Tick
  <2>1. /\ hour' = hour + 1 /\ UNCHANGED <<silver, refusals, query, pc>>
        /\ \A r \in Runners : pc[r] = "idle"
    BY <1>4 DEF Tick, lake, run
  <2>2. query'[hour'] = "none"
    BY <1>1, <1>4, <2>1 DEF OneRun, Tick, Hours
  <2>3. ASSUME NEW p \in Hours PROVE FewIn(p)'
    <3>1. Reached(p)' => Reached(p)
      BY <1>0, <2>1
    <3>2. Reached(p) => Bounded(p, 2)'
      BY <1>2, <2>1 DEF Few, FewIn
    <3>3. ASSUME Reached(p), p >= hour' - 2 \/ p = hour' - 3 PROVE Bounded(p, 1)'
      BY <1>1, <1>2, <2>1, <3>3 DEF Few, FewIn
    <3> QED
      BY <2>1, <2>2, <3>1, <3>2, <3>3 DEF FewIn
  <2> QED
    BY <2>3 DEF Few
<1>5. ASSUME NEW q \in Hours, RunQuery(q) PROVE Few'
  <2>1. q = hour /\ query[hour] = "running" /\ query'[hour] = "succeeded" /\ hour' = hour
    BY <1>5 DEF RunQuery, OneRun, Typing, TypeOK
  <2>2. \A r \in Runners : pc'[r] \notin {"clear", "delete"}
    BY <2>1 DEF OneRun
  <2>3. silver' = silver \cup Inserted(q) /\ \A s \in Inserted(q) : s.query = hour
    BY <1>5, <2>1, InsertedRows DEF RunQuery, Inserted, Typing
  <2>4. ASSUME NEW p \in Hours PROVE FewIn(p)'
    <3>1. CASE p \in hour - 2 .. hour
      <4>1. Bounded(p, 0)
        BY <2>1, <3>1 DEF Few, FewIn
      <4>2. Bounded(p, 1)
        BY <4>1, Looser DEF Typing
      <4>3. Bounded(p, 1)' /\ Bounded(p, 2)'
        BY <1>5, <4>1, <4>2, OneCopyMore DEF Typing
      <4> QED
        BY <2>1, <2>2, <4>3 DEF FewIn
    <3>2. CASE p = hour - 3
      <4>1. Reached(p)' => Reached(p)
        BY <1>1, <2>3, <3>2 DEF Reached
      <4>2. Reached(p) => Bounded(p, 1)
        BY <2>1, <3>2 DEF Few, FewIn
      <4>3. Reached(p) => Bounded(p, 2)'
        BY <1>5, <4>2, OneCopyMore DEF Typing
      <4> QED
        BY <1>1, <2>1, <2>2, <3>2, <4>1, <4>3 DEF FewIn
    <3>3. CASE p < hour - 3
      <4>1. \A s \in Inserted(q) : s.part # p
        BY <1>1, <3>3, InsertedRows DEF Typing, SilverRows
      <4>2. \A id \in Ids : Copies(id, p)' = Copies(id, p)
        BY <1>5, <4>1 DEF RunQuery, Inserted, Copies
      <4>3. Reached(p)' => Reached(p)
        BY <2>3, <4>1 DEF Reached
      <4>4. Reached(p)' => Bounded(p, 2)'
        BY <1>5, <4>2, <4>3 DEF Few, FewIn, Bounded, RunQuery, history
      <4> QED
        BY <1>1, <2>1, <2>2, <3>3, <4>4 DEF FewIn
    <3>4. CASE p > hour
      <4>1. \A s \in silver' : s.query \in Nat /\ s.query <= hour
        BY <1>1, <2>3, QueriesHave DEF Typing
      <4>2. ~Reached(p)'
        BY <1>1, <3>4, <4>1 DEF Reached
      <4> QED
        BY <1>1, <2>1, <2>2, <3>4, <4>2 DEF FewIn
    <3> QED
      BY <1>1, <3>1, <3>2, <3>3, <3>4
  <2> QED
    BY <2>4 DEF Few
<1>6. ASSUME NEW q \in Hours, FailQuery(q) PROVE Few'
  <2>1. q = hour /\ query[hour] = "running" /\ query'[hour] = "failed"
    BY <1>6 DEF FailQuery, OneRun, Typing, TypeOK
  <2>2. UNCHANGED <<silver, refusals, hour, pc, todo>>
    BY <1>6 DEF FailQuery, lake, history, run
  <2> QED
    BY <1>2, <1>0, <2>1, <2>2 DEF Few, FewIn
<1>7. ASSUME NEW r \in Runners, Launch(r) PROVE Few'
  <2>1. launches = 0 /\ UNCHANGED <<hour, silver, query, refusals>>
    BY <1>1, <1>7 DEF Launch, lake
  <2>2. \A k \in Runners : k # r => pc'[k] = "idle"
    BY <1>7, <2>1 DEF Launch, OneRun, Typing, TypeOK
  <2>3. Len(todo'[r]) = 3
    BY <1>7 DEF Launch, LookbackPartitions, Typing
  <2>4. \A p \in Hours : p \notin hour - 2 + Len(todo'[r]) .. hour
    BY <1>1, <2>3
  <2> QED
    BY <1>2, <1>0, <2>1, <2>2, <2>4 DEF Few, FewIn
<1>8. ASSUME NEW r \in Runners, ListPartition(r) PROVE Few'
  <2>1. /\ UNCHANGED <<hour, silver, query, refusals>> /\ todo[r] # <<>> /\ pc[r] = "clear"
        /\ \A k \in Runners : k # r => pc'[k] = pc[k]
    BY <1>8 DEF ListPartition, lake, history, Typing, TypeOK
  <2>2. \A k \in Runners : k # r => pc'[k] = "idle"
    BY <2>1 DEF OneRun
  <2>3. \/ todo'[r] = todo[r]
        \/ todo'[r] = Tail(todo[r]) /\ \A s \in silver : s.part # Head(todo[r])
    BY <1>8 DEF ListPartition, Typing, TypeOK
  <2>4. launched[r] = hour
    BY <2>1 DEF OneRun
  <2>5. ASSUME NEW p \in Hours, p \in hour - 2 + Len(todo'[r]) .. hour PROVE Bounded(p, 0)'
    <3>1. CASE p \in hour - 2 + Len(todo[r]) .. hour
      BY <1>2, <2>1, <3>1 DEF Few, FewIn
    <3>2. CASE p = Head(todo[r]) /\ \A s \in silver : s.part # Head(todo[r])
      BY <1>2, <2>1, <3>2, NoneBounded DEF Typing
    <3>3. CASE todo'[r] = todo[r]
      BY <2>5, <3>1, <3>3
    <3>4. CASE todo'[r] = Tail(todo[r]) /\ \A s \in silver : s.part # Head(todo[r])
      <4>1. p = Head(todo[r]) \/ p \in hour - 2 + Len(todo[r]) .. hour
        BY <1>1, <2>1, <2>4, <2>5, <3>4, HeadOf
      <4> QED
        BY <3>1, <3>2, <3>4, <4>1
    <3> QED
      BY <2>3, <3>3, <3>4
  <2> QED
    BY <1>2, <1>0, <2>1, <2>2, <2>5 DEF Few, FewIn
<1>9. ASSUME NEW r \in Runners, DeleteListed(r) PROVE Few'
  <2>1. /\ UNCHANGED <<hour, query>> /\ todo[r] # <<>> /\ pc[r] = "delete"
        /\ todo'[r] = Tail(todo[r]) /\ \A k \in Runners : k # r => pc'[k] = pc[k]
    BY <1>9 DEF DeleteListed, Typing, TypeOK, Countdown
  <2>2. launched[r] = hour /\ \A k \in Runners : k # r => pc'[k] = "idle"
    BY <2>1 DEF OneRun
  <2>3. ASSUME NEW p \in Hours, NEW n \in Nat, Bounded(p, n) PROVE Bounded(p, n)'
    BY <1>9, <2>3, RefusedBounds, StaysBounded DEF Typing
  <2>4. ASSUME NEW p \in Hours, p \in hour - 2 + Len(todo'[r]) .. hour PROVE Bounded(p, 0)'
    <3>1. CASE p \in hour - 2 + Len(todo[r]) .. hour
      BY <2>1, <2>3, <3>1 DEF Few, FewIn
    <3>2. CASE p = Head(todo[r])
      BY <1>9, <3>2, RefusedBounds
    <3> QED
      BY <1>1, <2>1, <2>2, <2>4, <3>1, <3>2, HeadOf
  <2>5. silver' \subseteq silver
    BY <1>9, RefusedBounds
  <2> QED
    BY <1>0, <2>1, <2>2, <2>3, <2>4, <2>5 DEF Few, FewIn
<1>10. ASSUME NEW r \in Runners, Submit(r) PROVE Few'
  <2>1. /\ UNCHANGED <<hour, silver, refusals>> /\ todo[r] = <<>> /\ pc[r] = "clear"
        /\ query[hour] = "none" /\ query'[hour] = "running" /\ pc'[r] = "poll"
        /\ \A k \in Runners : k # r => pc'[k] = pc[k]
    BY <1>10 DEF Submit, lake, history, OneRun, Typing, TypeOK
  <2>2. \A k \in Runners : pc'[k] \notin {"clear", "delete"}
    BY <2>1 DEF OneRun
  <2>3. ASSUME NEW p \in Hours, p \in hour - 2 .. hour PROVE Bounded(p, 0)'
    <3>1. Len(todo[r]) = 0
      BY <2>1
    <3>2. p \in hour - 2 + Len(todo[r]) .. hour
      BY <1>1, <2>3, <3>1
    <3> QED
      BY <1>2, <2>1, <3>2 DEF Few, FewIn
  <2> QED
    BY <1>2, <1>0, <2>1, <2>2, <2>3 DEF Few, FewIn
<1>11. ASSUME NEW r \in Runners,
              \/ PollSucceeded(r) \/ PollFailed(r) \/ PollTimeout(r) \/ Finish(r) \/ Crash(r)
       PROVE  Few'
  <2>1. UNCHANGED <<silver, refusals, hour, query>>
    BY <1>11 DEF PollSucceeded, PollFailed, PollTimeout, Finish, Crash, lake, history
  <2>2. /\ pc'[r] \notin {"clear", "delete"}
        /\ \A k \in Runners : k # r => pc'[k] = pc[k] /\ todo'[k] = todo[k]
    BY <1>11 DEF PollSucceeded, PollFailed, PollTimeout, Finish, Crash, Typing, TypeOK
  <2> QED
    BY <1>3, <2>1, <2>2
<1>12. CASE Land
  BY <1>3, <1>12 DEF Land, history, run
<1>13. CASE UNCHANGED vars
  BY <1>3, <1>13 DEF vars, lake, history, run
<1> QED
  BY <1>4, <1>5, <1>6, <1>7, <1>8, <1>9, <1>10, <1>11, <1>12, <1>13 DEF Next, Progress

(* The initial state satisfies all of it. *)
LEMMA Begins == Init => Scheduled /\ Remembered
<1> SUFFICES ASSUME Init PROVE Scheduled /\ Remembered
  OBVIOUS
<1>1. /\ hour = 0 /\ bronze = {} /\ silver = {} /\ refined = {} /\ launches = 0
      /\ attempts = 0 /\ refusals = 0 /\ query = [q \in Hours |-> "none"]
      /\ pc = [r \in Runners |-> "idle"] /\ todo = [r \in Runners |-> <<>>]
      /\ launched = [r \in Runners |-> 0] /\ waiting = [r \in Runners |-> 0]
      /\ listed = [r \in Runners |-> {}] /\ uncleared = [r \in Runners |-> {}]
  BY DEF Init
<1>2. 0 \in Hours /\ 0 \in 0..LaunchesPerHour
  BY DEF Hours, LaunchesPerHour
<1>3. \A r \in Runners : Countdown(r)
  BY <1>1 DEF Countdown
<1>4. Typing
  BY <1>1, <1>2, <1>3 DEF Typing, TypeOK
<1>5. Written
  BY <1>1 DEF Written
<1>6. OneRun /\ Cleared /\ InReach
  BY <1>1, <1>2 DEF OneRun, Cleared, ClearedBy, InReach
<1>7. ASSUME NEW p \in Hours, NEW n \in Nat PROVE Bounded(p, n)
  <2>1. \A id \in Ids : Copies(id, p) = {}
    BY <1>1 DEF Copies
  <2>2. \A id \in Ids : Cardinality(Copies(id, p)) = 0
    BY <2>1, FS_EmptySet, Zenon
  <2> QED
    BY <1>1, <2>2 DEF Bounded
<1>8. Few
  BY <1>7 DEF Few, FewIn
<1>9. Remembered
  BY <1>1 DEF Remembered, Restorable
<1> QED
  BY <1>4, <1>5, <1>6, <1>8, <1>9 DEF Scheduled, IInv

(* The invariants hold in every reachable state. *)
LEMMA InductiveInvariant == Spec => []IInv
<1>1. Init => IInv
  BY Begins DEF Scheduled
<1>2. IInv /\ [Next]_vars => IInv'
  BY CountdownStep, TypeStep, WrittenStep DEF IInv, Typing
<1> QED
  BY <1>1, <1>2, PTL DEF Spec

LEMMA ScheduledStep ==
    ASSUME OnSchedule, Scheduled, [Next]_vars
    PROVE  Scheduled'
<1>1. IInv'
  BY CountdownStep, TypeStep, WrittenStep DEF Scheduled, IInv, Typing
<1>2. OneRun'
  BY <1>1, OneRunStep DEF Scheduled, IInv
<1>3. Cleared' /\ InReach'
  BY ClearedStep, InReachStep DEF Scheduled, IInv
<1>4. Few'
  BY <1>1, <1>2, FewStep DEF Scheduled, IInv
<1> QED
  BY <1>1, <1>2, <1>3, <1>4 DEF Scheduled

LEMMA ScheduledInvariant == ASSUME OnSchedule PROVE Spec => []Scheduled
<1>1. Init => Scheduled
  BY Begins
<1>2. Scheduled /\ [Next]_vars => Scheduled'
  BY ScheduledStep
<1> QED
  BY <1>1, <1>2, PTL DEF Spec

LEMMA RememberedInvariant ==
    ASSUME OnSchedule, MaxFailures <= 1 PROVE Spec => []Remembered
<1>1. Init => Scheduled /\ Remembered
  BY Begins
<1>2. Scheduled /\ Remembered /\ [Next]_vars => (Scheduled /\ Remembered)'
  BY ScheduledStep, RememberedStep DEF Scheduled, IInv
<1> QED
  BY <1>1, <1>2, PTL DEF Spec

(* Every variable has its type, however the job is started: no run touches *)
(* a partition after the hour it was launched in, and no more deletions    *)
(* are refused than the bound counts.                                      *)
THEOREM TypeCorrect == Spec => []TypeOK
<1>1. IInv => TypeOK
  BY DEF IInv, Typing
<1> QED
  BY InductiveInvariant, <1>1, PTL

(* With the hourly rule alone, and no two runs in a row that fail, what a  *)
(* successful run leaves behind has every id silver ever had after one.    *)
THEOREM Forgotten ==
    ASSUME OnSchedule, MaxFailures <= 1 PROVE Spec => []NothingForgotten
<1>1. ASSUME Scheduled, Remembered PROVE NothingForgotten
  <2>1. \A r \in Runners : pc[r] = "refined" => attempts = 0
    BY <1>1 DEF Scheduled, OneRun
  <2> QED
    BY <1>1, <2>1 DEF Remembered, NothingForgotten
<1> QED
  BY <1>1, ScheduledInvariant, RememberedInvariant, PTL

(* With the hourly rule alone, what a successful run leaves in the         *)
(* partitions it cleared whole is its own query's, one row for an id,      *)
(* however many runs failed before it.                                     *)
THEOREM Unique ==
    ASSUME OnSchedule PROVE Spec => []LookbackUnique
<1>1. ASSUME Scheduled PROVE LookbackUnique
  <2> SUFFICES ASSUME NEW r \in Runners, pc[r] = "refined", NEW id \in Ids
               PROVE  Cardinality({s \in silver : s.id = id /\
                          s.part \in (launched[r] - 2 .. launched[r]) \ uncleared[r]}) <= 1
    BY DEF LookbackUnique
  <2> DEFINE rows == {s \in silver : s.id = id /\
                          s.part \in (launched[r] - 2 .. launched[r]) \ uncleared[r]}
  <2>1. todo[r] = <<>> /\ launched[r] \in Nat /\ Len(<<>>) = 0
    BY <1>1 DEF Scheduled, IInv, Typing, TypeOK, Hours, OneRun
  <2>2. ASSUME NEW s \in rows PROVE s.query = hour
    <3>1. s.part >= launched[r] - 2 + Len(todo[r]) /\ s.part \notin uncleared[r]
      BY <2>1
    <3> QED
      BY <1>1, <3>1 DEF Scheduled, Cleared, ClearedBy
  <2>3. rows \in SUBSET silver /\ {hour} \in SUBSET Hours
    BY <1>1 DEF Scheduled, IInv, Typing, TypeOK
  <2>4. \A s \in rows : s.id = id /\ s.query \in {hour}
    BY <2>2
  <2>5. Cardinality({hour}) = 1
    BY FS_Singleton
  <2> HIDE DEF rows
  <2>6. Cardinality(rows) <= 1
    BY <1>1, <2>3, <2>4, <2>5, ByQuery DEF Scheduled, IInv
  <2> QED
    BY <2>6 DEF rows
<1> QED
  BY <1>1, ScheduledInvariant, PTL

(* With the hourly rule alone, a partition that a run of its hour or of    *)
(* the two after has rewritten holds an event twice at most, and once more *)
(* for each object S3 ever refused to delete.  Any other has a copy from   *)
(* each query of the hours it was ahead of, and one from the query of the  *)
(* third hour after its own.                                               *)
THEOREM FewCopies ==
    ASSUME OnSchedule PROVE Spec => []CopiesBounded
<1>1. ASSUME Scheduled PROVE CopiesBounded
  <2> SUFFICES ASSUME NEW id \in Ids, NEW p \in Hours
               PROVE  Cardinality(Copies(id, p)) <=
                          IF Reached(p) THEN 2 + refusals ELSE MaxEarly + 1
    BY DEF CopiesBounded, Copies, Reached
  <2>1. CASE Reached(p)
    BY <1>1, <2>1 DEF Scheduled, Few, FewIn, Bounded
  <2>2. CASE ~Reached(p)
    <3> DEFINE before == p - MaxEarly .. p - 1
               queries == {s.query : s \in Copies(id, p)}
    <3>1. p \in Int /\ p - MaxEarly \in Int /\ p - 1 \in Int
      BY DEF Hours
    <3>2. IsFiniteSet(before) /\ Cardinality(before) = MaxEarly
      BY <3>1, FS_Interval
    <3>3. p + 3 \notin before
      BY <3>1
    <3>4. /\ IsFiniteSet(before \cup {p + 3})
          /\ Cardinality(before \cup {p + 3}) = MaxEarly + 1
      BY <3>2, <3>3, FS_AddElement, Zenon
    <3>5. ASSUME NEW s \in Copies(id, p) PROVE s.query \in before \cup {p + 3}
      <4>1. s \in silver /\ s.part = p /\ s.query \notin p .. p + 2
        BY <2>2 DEF Copies, Reached
      <4>2. s.query \in Nat
        BY <1>1, <4>1, RowsHave DEF Scheduled, IInv, Typing, Hours
      <4>3. p >= s.query - 3 /\ p <= s.query + MaxEarly
        BY <1>1, <4>1 DEF Scheduled, InReach
      <4> QED
        BY <3>1, <4>1, <4>2, <4>3
    <3>6. queries \subseteq before \cup {p + 3}
      BY <3>5
    <3> HIDE DEF before
    <3>7. Cardinality(queries) \in Nat /\ Cardinality(queries) <= MaxEarly + 1
      BY <3>4, <3>6, FS_Subset, FS_CardinalityType
    <3>8. queries \in SUBSET Hours /\ Copies(id, p) \in SUBSET silver
          /\ \A s \in Copies(id, p) : s.id = id /\ s.query \in queries
      BY <1>1, RowsHave DEF Copies, Scheduled, IInv, Typing
    <3> HIDE DEF queries
    <3>9. /\ Cardinality(Copies(id, p)) \in Nat
          /\ Cardinality(Copies(id, p)) <= Cardinality(queries)
      BY <1>1, <3>8, ByQuery DEF Scheduled, IInv
    <3> QED
      BY <2>2, <3>7, <3>9
  <2> QED
    BY <2>1, <2>2
<1> QED
  BY <1>1, ScheduledInvariant, PTL
=============================================================================
