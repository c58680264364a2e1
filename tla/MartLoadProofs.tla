--------------------------- MODULE MartLoadProofs ---------------------------
(***************************************************************************)
(* Proofs about MartLoad for any metrics, loaders and bounds: a job with   *)
(* nothing running beside it loads every table whole, whatever jobs before *)
(* it left behind.  The invariant ties each of its tables to where the job *)
(* is, and rests on one fact: the only statement that can still run is the *)
(* one the job polls.                                                      *)
(***************************************************************************)
EXTENDS MartLoad, TLAPS

(* The table of the metric loader l is at. *)
Table(l) == mart[Metrics[at[l]]]

(* A table holds one snapshot, no older than gold when l began. *)
Loaded(l, m) == \E v \in base[l][m]..gold[m] : Holds(m, v)

(* No other job is there, and no statement but the polled one can run. *)
OnlyOwn(l) ==
    /\ pc[l] # "idle"
    /\ \A k \in Loaders \ {l} : pc[k] = "idle"
    /\ \A i \in DOMAIN statements :
           statements[i].state = "started" => pc[l] = "poll" /\ i = waiting[l]

(* The polled statement is the one the job is at. *)
PollsOwn(l) ==
    pc[l] = "poll" =>
        /\ statements[waiting[l]].kind = kind[l]
        /\ statements[waiting[l]].metric = Metrics[at[l]]

(* The tables before the one the job is at are loaded. *)
Before(l) == \A i \in DOMAIN Metrics : i < at[l] => Loaded(l, Metrics[i])

(* The table the job is at, by what the job and its statement have done. *)
Current(l) ==
    /\ pc[l] = "submit" /\ kind[l] = "copy" => Table(l) = Empty
    /\ pc[l] = "poll" /\ kind[l] = "truncate" /\ statements[waiting[l]].state = "finished"
           => Table(l) = Empty
    /\ pc[l] = "poll" /\ kind[l] = "copy" =>
           IF statements[waiting[l]].state = "finished"
           THEN Loaded(l, Metrics[at[l]]) ELSE Table(l) = Empty
    /\ pc[l] = "loaded" => at[l] = Len(Metrics) /\ Loaded(l, Metrics[at[l]])

Undisturbed(l) == OnlyOwn(l) /\ PollsOwn(l) /\ Before(l) /\ Current(l)

(* A loader that is not there starts at the first statement. *)
Resting == \A l \in Loaders : pc[l] = "idle" => at[l] = 1 /\ kind[l] = "truncate"

(* Gold never goes back behind where a job found it. *)
BaseBehind == \A l \in Loaders, m \in MetricSet : base[l][m] <= gold[m]

IInv ==
    /\ TypeOK /\ Resting /\ BaseBehind
    /\ \A l \in Loaders : alone[l] => Undisturbed(l)

USE MetricsAssumption, BoundsAssumption

(* The loop has a first and a last metric, in the set of metrics. *)
LEMMA Loop ==
    /\ Len(Metrics) \in Nat \ {0}
    /\ DOMAIN Metrics = 1..Len(Metrics)
    /\ 1 \in DOMAIN Metrics
    /\ \A i \in DOMAIN Metrics : Metrics[i] \in MetricSet
BY DEF MetricSet

(* Where the loop goes next. *)
LEMMA Advance ==
    ASSUME NEW l \in Loaders, at[l] \in DOMAIN Metrics, kind[l] \in {"truncate", "copy"},
           ~NextStep(l).done
    PROVE  /\ NextStep(l).at \in DOMAIN Metrics
           /\ kind[l] = "truncate" => NextStep(l).at = at[l] /\ NextStep(l).kind = "copy"
           /\ kind[l] = "copy" => NextStep(l).at = at[l] + 1 /\ NextStep(l).kind = "truncate"
           /\ NextStep(l).kind \in {"truncate", "copy"}
<1>1. CASE kind[l] = "truncate"
  BY <1>1 DEF NextStep
<1>2. CASE kind[l] = "copy"
  <2>1. NextStep(l) = [at |-> at[l] + 1, kind |-> "truncate", done |-> at[l] = Len(Metrics)]
    BY <1>2 DEF NextStep, FirstKind
  <2>2. NextStep(l).at = at[l] + 1 /\ NextStep(l).kind = "truncate"
    BY <2>1
  <2>3. at[l] # Len(Metrics)
    <3>1. ASSUME at[l] = Len(Metrics) PROVE FALSE
      <4>1. NextStep(l) = [at |-> at[l] + 1, kind |-> "truncate", done |-> TRUE]
        BY <2>1, <3>1
      <4> QED
        BY <4>1
    <3> QED
      BY <3>1
  <2>4. at[l] + 1 \in DOMAIN Metrics
    BY <2>3, Loop
  <2> QED
    BY <1>2, <2>2, <2>4
<1> QED
  BY <1>1, <1>2

(* The loop is over after the COPY of the last metric. *)
LEMMA LastStep ==
    ASSUME NEW l \in Loaders, kind[l] \in {"truncate", "copy"}, NextStep(l).done
    PROVE  kind[l] = "copy" /\ at[l] = Len(Metrics)
<1>1. ASSUME kind[l] = "truncate" PROVE FALSE
  <2>1. NextStep(l) = [at |-> at[l], kind |-> "copy", done |-> FALSE]
    BY <1>1 DEF NextStep
  <2> QED
    BY <2>1
<1>2. ASSUME kind[l] = "copy", at[l] # Len(Metrics) PROVE FALSE
  <2>1. NextStep(l) = [at |-> at[l] + 1, kind |-> FirstKind, done |-> FALSE]
    BY <1>2 DEF NextStep
  <2> QED
    BY <2>1
<1> QED
  BY <1>1, <1>2

(* The initial state satisfies the inductive invariant. *)
LEMMA Begins == Init => IInv
<1> SUFFICES ASSUME Init PROVE IInv
  OBVIOUS
<1>1. TypeOK
  BY Loop DEF Init, TypeOK, Versions, Empty, FirstKind
<1>2. Resting /\ BaseBehind
  BY DEF Init, Resting, BaseBehind, FirstKind
<1>3. \A l \in Loaders : ~alone[l]
  BY DEF Init
<1> QED
  BY <1>1, <1>2, <1>3 DEF IInv

-----------------------------------------------------------------------------
(* Types *)

(* A step of Redshift keeps the types. *)
LEMMA RedshiftTypes ==
    ASSUME TypeOK, NEW i \in DOMAIN statements, Execute(i) \/ Fail(i)
    PROVE  TypeOK' /\ DOMAIN statements' = DOMAIN statements
<1>1. statements \in Seq(Statement) /\ statements[i] \in Statement
  BY DEF TypeOK
<1>2. \E state \in {"finished", "failed"} :
          statements' = [statements EXCEPT ![i] = [statements[i] EXCEPT !.state = state]]
  BY DEF Execute, Fail
<1>3. PICK state \in {"finished", "failed"} :
          statements' = [statements EXCEPT ![i] = [statements[i] EXCEPT !.state = state]]
  BY <1>2
<1>4. [statements[i] EXCEPT !.state = state] \in Statement
  BY <1>1 DEF Statement
<1>5. statements' \in Seq(Statement) /\ Len(statements') = Len(statements)
      /\ DOMAIN statements' = DOMAIN statements
  <2> HIDE DEF Statement
  <2> QED
    BY <1>1, <1>3, <1>4
<1>6. mart' \in [MetricSet -> [Versions -> Nat]]
  <2>1. CASE Fail(i)
    BY <2>1 DEF Fail, TypeOK
  <2>2. CASE Execute(i)
    <3> DEFINE m == statements[i].metric
               rows == Effect(statements[i].kind, mart[m], gold[m])
    <3>1. m \in MetricSet
      BY <1>1 DEF Statement
    <3>2. rows \in [Versions -> Nat]
      BY <3>1 DEF TypeOK, Empty, Versions, Effect
    <3>3. mart' = [mart EXCEPT ![m] = rows]
      BY <2>2 DEF Execute
    <3> HIDE DEF rows, m
    <3> QED
      BY <3>1, <3>2, <3>3 DEF TypeOK
  <2> QED
    BY <2>1, <2>2
<1>7. UNCHANGED <<gold, loader>>
  BY DEF Execute, Fail
<1> QED
  BY <1>5, <1>6, <1>7 DEF TypeOK, loader

(* Every step keeps the types. *)
LEMMA TypeStep ==
    ASSUME TypeOK, [Next]_vars
    PROVE  TypeOK'
<1> USE DEF TypeOK
<1>1. ASSUME NEW m \in MetricSet, RefreshGold(m) PROVE TypeOK'
  <2>1. gold[m] \in Nat /\ gold[m] + 1 \in Versions
    BY <1>1 DEF RefreshGold, Versions
  <2>2. gold' = [gold EXCEPT ![m] = gold[m] + 1]
    BY <1>1 DEF RefreshGold
  <2>3. gold' \in [MetricSet -> Versions]
    BY <2>1, <2>2
  <2>4. UNCHANGED <<mart, statements, pc, at, kind, waiting, base, alone>>
    BY <1>1 DEF RefreshGold, loader
  <2> QED
    BY <2>3, <2>4
<1>2. ASSUME NEW i \in DOMAIN statements, Execute(i) \/ Fail(i) PROVE TypeOK'
  BY <1>2, RedshiftTypes
<1>3. ASSUME NEW l \in Loaders, Launch(l) PROVE TypeOK'
  BY <1>3 DEF Launch
<1>4. ASSUME NEW l \in Loaders, Submit(l) PROVE TypeOK'
  <2> DEFINE s == [kind |-> kind[l], metric |-> Metrics[at[l]], state |-> "started"]
  <2>1. s \in Statement
    BY Loop DEF Statement
  <2>2. statements' = Append(statements, s) /\ Len(statements) < MaxStatements
    BY <1>4 DEF Submit
  <2>3. statements' \in Seq(Statement) /\ Len(statements') = Len(statements) + 1
    <3> HIDE DEF s
    <3> QED
      BY <2>1, <2>2
  <2>4. waiting' = [waiting EXCEPT ![l] = Len(statements')]
    BY <1>4 DEF Submit
  <2>5. pc' = [pc EXCEPT ![l] = "poll"] /\ UNCHANGED <<gold, mart, at, kind, base, alone>>
    BY <1>4 DEF Submit
  <2> QED
    BY <2>2, <2>3, <2>4, <2>5
<1>5. ASSUME NEW l \in Loaders, PollFinished(l) PROVE TypeOK'
  <2>1. CASE NextStep(l).done
    BY <1>5, <2>1 DEF PollFinished
  <2>2. CASE ~NextStep(l).done
    <3>1. NextStep(l).at \in DOMAIN Metrics /\ NextStep(l).kind \in {"truncate", "copy"}
      BY <2>2, Advance DEF TypeOK
    <3>2. /\ at' = [at EXCEPT ![l] = NextStep(l).at]
          /\ kind' = [kind EXCEPT ![l] = NextStep(l).kind]
          /\ pc' = [pc EXCEPT ![l] = "submit"]
          /\ UNCHANGED <<gold, mart, statements, waiting, base, alone>>
      BY <1>5, <2>2 DEF PollFinished
    <3>3. at' \in [Loaders -> DOMAIN Metrics] /\ kind' \in [Loaders -> {"truncate", "copy"}]
      BY <3>1, <3>2
    <3> QED
      BY <3>2, <3>3
  <2> QED
    BY <2>1, <2>2
<1>6. ASSUME NEW l \in Loaders, Abort(l) \/ Finish(l) PROVE TypeOK'
  <2>1. /\ pc' = [pc EXCEPT ![l] = "idle"]
        /\ waiting' = [waiting EXCEPT ![l] = 0]
        /\ alone' = [alone EXCEPT ![l] = FALSE]
        /\ UNCHANGED <<gold, mart, statements>>
    BY <1>6 DEF Abort, Finish, Gone
  <2>2. at' \in [Loaders -> DOMAIN Metrics] /\ kind' \in [Loaders -> {"truncate", "copy"}]
    BY <1>6, Loop DEF Abort, Finish, Gone, FirstKind
  <2>3. base' \in [Loaders -> [MetricSet -> Versions]]
    <3>1. [m \in MetricSet |-> 0] \in [MetricSet -> Versions]
      BY DEF Versions
    <3>2. base' = [base EXCEPT ![l] = [m \in MetricSet |-> 0]]
      BY <1>6 DEF Abort, Finish, Gone
    <3> QED
      BY <3>1, <3>2
  <2> QED
    BY <2>1, <2>2, <2>3
<1>7. CASE UNCHANGED vars
  BY <1>7 DEF vars, loader
<1> QED
  BY <1>1, <1>2, <1>3, <1>4, <1>5, <1>6, <1>7 DEF Next

-----------------------------------------------------------------------------
(* Steps *)

(* What the invariant says of one undisturbed job. *)
LEMMA JobFacts ==
    ASSUME IInv, NEW l \in Loaders, alone[l]
    PROVE  /\ OnlyOwn(l) /\ PollsOwn(l) /\ Before(l) /\ Current(l)
           /\ at[l] \in DOMAIN Metrics /\ kind[l] \in {"truncate", "copy"}
           /\ Metrics[at[l]] \in MetricSet
BY Loop DEF IInv, Undisturbed, TypeOK

(* When gold moves on, what is loaded stays loaded. *)
LEMMA RefreshStep ==
    ASSUME IInv, NEW m \in MetricSet, RefreshGold(m)
    PROVE  Resting' /\ BaseBehind' /\ \A l \in Loaders : alone'[l] => Undisturbed(l)'
<1>1. UNCHANGED <<mart, statements, pc, at, kind, waiting, base, alone>>
  BY DEF RefreshGold, loader
<1>2. /\ gold \in [MetricSet -> Nat] /\ base \in [Loaders -> [MetricSet -> Nat]]
      /\ \A n \in MetricSet : gold[n] <= gold'[n] /\ gold'[n] \in Nat
  <2>1. gold \in [MetricSet -> Nat] /\ base \in [Loaders -> [MetricSet -> Nat]]
    BY DEF IInv, TypeOK, Versions
  <2>2. gold' = [gold EXCEPT ![m] = gold[m] + 1]
    BY DEF RefreshGold
  <2> QED
    BY <2>1, <2>2
<1>3. BaseBehind'
  <2> SUFFICES ASSUME NEW l \in Loaders, NEW n \in MetricSet PROVE base'[l][n] <= gold'[n]
    BY DEF BaseBehind
  <2>1. base[l][n] <= gold[n] /\ base[l][n] \in Nat /\ gold[n] \in Nat
    BY <1>2 DEF IInv, BaseBehind
  <2> QED
    BY <1>1, <1>2, <2>1
<1>4. ASSUME NEW l \in Loaders, NEW n \in MetricSet, Loaded(l, n) PROVE Loaded(l, n)'
  <2>1. PICK v \in base[l][n]..gold[n] : Holds(n, v)
    BY <1>4 DEF Loaded
  <2>2. base[l][n] \in Nat /\ gold[n] \in Nat /\ gold[n] <= gold'[n] /\ gold'[n] \in Nat
    BY <1>2
  <2>3. v \in base'[l][n]..gold'[n]
    BY <1>1, <2>2
  <2> QED
    BY <1>1, <2>1, <2>3 DEF Loaded, Holds
<1>5. ASSUME NEW l \in Loaders, alone'[l] PROVE Undisturbed(l)'
  <2>1. alone[l]
    BY <1>1, <1>5
  <2>2. OnlyOwn(l)' /\ PollsOwn(l)'
    BY <1>1, <2>1, JobFacts DEF OnlyOwn, PollsOwn
  <2>3. Before(l)'
    BY <1>1, <1>4, <2>1, JobFacts, Loop DEF Before
  <2>4. Current(l)'
    BY <1>1, <1>4, <2>1, JobFacts DEF Current, Table
  <2> QED
    BY <2>2, <2>3, <2>4 DEF Undisturbed
<1> QED
  BY <1>1, <1>3, <1>5 DEF IInv, Resting

(* The statement that runs or fails is the one the job polls. *)
LEMMA RedshiftStep ==
    ASSUME IInv, NEW i \in DOMAIN statements, Execute(i) \/ Fail(i)
    PROVE  Resting' /\ BaseBehind' /\ \A l \in Loaders : alone'[l] => Undisturbed(l)'
<1>1. UNCHANGED <<gold, pc, at, kind, waiting, base, alone>>
  BY DEF Execute, Fail, loader
<1>2. PICK state \in {"finished", "failed"} :
          /\ statements' = [statements EXCEPT ![i].state = state]
          /\ state = "failed" => Fail(i)
          /\ state = "finished" => Execute(i)
  BY DEF Execute, Fail
<1>3. statements \in Seq(Statement) /\ statements[i].state = "started"
  BY DEF IInv, TypeOK, Execute, Fail
<1>4. ASSUME NEW j \in DOMAIN statements
      PROVE  /\ j \in DOMAIN statements'
             /\ statements'[j].kind = statements[j].kind
             /\ statements'[j].metric = statements[j].metric
             /\ statements'[j].state = IF j = i THEN state ELSE statements[j].state
  <2>1. statements[j] \in Statement
    BY <1>3
  <2>2. CASE j = i
    BY <1>2, <1>3, <2>1, <2>2 DEF Statement
  <2>3. CASE j # i
    BY <1>2, <1>3, <2>3
  <2> QED
    BY <2>2, <2>3
<1>5. DOMAIN statements' = DOMAIN statements
  BY RedshiftTypes DEF IInv
<1>6. ASSUME NEW l \in Loaders, alone'[l] PROVE Undisturbed(l)'
  <2>1. alone[l]
    BY <1>1, <1>6
  <2>2. pc[l] = "poll" /\ i = waiting[l]
    BY <1>3, <2>1, JobFacts DEF OnlyOwn
  <2> DEFINE m == Metrics[at[l]]
  <2>3. statements[i].kind = kind[l] /\ statements[i].metric = m /\ m \in MetricSet
    BY <2>1, <2>2, JobFacts DEF PollsOwn
  <2>4. OnlyOwn(l)'
    BY <1>1, <1>4, <1>5, <2>1, JobFacts DEF OnlyOwn
  <2>5. PollsOwn(l)'
    BY <1>1, <1>4, <2>1, <2>2, JobFacts DEF PollsOwn
  <2>6. \A n \in MetricSet : n # m => mart'[n] = mart[n]
    BY <2>3 DEF Execute, Fail, IInv, TypeOK
  <2>7. Before(l)'
    <3> SUFFICES ASSUME NEW j \in DOMAIN Metrics, j < at[l] PROVE Loaded(l, Metrics[j])'
      BY <1>1 DEF Before
    <3>1. Loaded(l, Metrics[j])
      BY <2>1, JobFacts DEF Before
    <3>2. Metrics[j] # m
      BY <2>1, JobFacts, Loop
    <3> QED
      BY <1>1, <2>6, <3>1, <3>2, Loop DEF Loaded, Holds
  <2>8. Current(l)'
    <3>1. statements'[waiting'[l]].state = state /\ pc'[l] = "poll" /\ kind'[l] = kind[l]
      BY <1>1, <1>4, <2>2
    <3>2. CASE state = "failed"
      <4>1. mart' = mart
        BY <1>2, <3>2 DEF Fail
      <4>2. kind[l] = "copy" => Table(l) = Empty
        BY <1>3, <2>1, <2>2, JobFacts DEF Current
      <4> QED
        BY <1>1, <3>1, <3>2, <4>1, <4>2 DEF Current, Table
    <3>3. CASE state = "finished"
      <4>1. mart'[m] = Effect(kind[l], mart[m], gold[m])
        BY <1>2, <2>3, <3>3 DEF Execute, IInv, TypeOK
      <4>2. CASE kind[l] = "truncate"
        BY <1>1, <3>1, <3>3, <4>1, <4>2 DEF Current, Table, Effect
      <4>3. CASE kind[l] = "copy"
        <5>1. mart[m] = Empty
          BY <1>3, <2>1, <2>2, <4>3, JobFacts DEF Current, Table
        <5>2. gold[m] \in Versions /\ base[l][m] \in Versions /\ base[l][m] <= gold[m]
          BY <2>3 DEF IInv, TypeOK, BaseBehind
        <5>3. mart'[m] = [Empty EXCEPT ![gold[m]] = 1]
          <6>1. mart'[m] = [Empty EXCEPT ![gold[m]] = Empty[gold[m]] + 1]
            BY <4>1, <4>3, <5>1 DEF Effect
          <6>2. Empty[gold[m]] + 1 = 1
            BY <5>2 DEF Empty
          <6> QED
            BY <6>1, <6>2
        <5>4. gold[m] \in base[l][m]..gold[m]
          BY <5>2 DEF Versions
        <5>5. Loaded(l, m)'
          BY <1>1, <5>3, <5>4 DEF Loaded, Holds
        <5> QED
          BY <1>1, <3>1, <3>3, <4>3, <5>5 DEF Current
      <4> QED
        BY <2>1, <4>2, <4>3, JobFacts
    <3> QED
      BY <3>2, <3>3
  <2> QED
    BY <2>4, <2>5, <2>7, <2>8 DEF Undisturbed
<1> QED
  BY <1>1, <1>6 DEF IInv, Resting, BaseBehind

(* A job is only undisturbed from the start if it found nothing running. *)
LEMMA LaunchStep ==
    ASSUME IInv, NEW k \in Loaders, Launch(k)
    PROVE  Resting' /\ BaseBehind' /\ \A l \in Loaders : alone'[l] => Undisturbed(l)'
<1>1. /\ pc' = [pc EXCEPT ![k] = "submit"] /\ pc[k] = "idle"
      /\ base' = [base EXCEPT ![k] = gold]
      /\ UNCHANGED <<gold, mart, statements, at, kind, waiting>>
  BY DEF Launch
<1>2. /\ pc \in [Loaders -> {"idle", "submit", "poll", "loaded"}]
      /\ base \in [Loaders -> [MetricSet -> Versions]] /\ gold \in [MetricSet -> Versions]
  BY DEF IInv, TypeOK
<1>3. Resting'
  BY <1>1, <1>2 DEF IInv, Resting
<1>4. BaseBehind'
  <2> SUFFICES ASSUME NEW l \in Loaders, NEW m \in MetricSet PROVE base'[l][m] <= gold'[m]
    BY DEF BaseBehind
  <2>1. CASE l = k
    BY <1>1, <1>2, <2>1 DEF Versions
  <2>2. CASE l # k
    BY <1>1, <1>2, <2>2 DEF IInv, BaseBehind
  <2> QED
    BY <2>1, <2>2
<1>5. ASSUME NEW l \in Loaders, alone'[l] PROVE Undisturbed(l)'
  <2>1. l = k /\ Quiet(k)
    BY <1>5 DEF Launch
  <2>2. OnlyOwn(l)'
    BY <1>1, <1>2, <2>1 DEF OnlyOwn, Quiet
  <2>3. at'[l] = 1 /\ kind'[l] = "truncate" /\ pc'[l] = "submit"
    BY <1>1, <1>2, <2>1 DEF IInv, Resting
  <2>4. PollsOwn(l)' /\ Before(l)' /\ Current(l)'
    BY <2>3, Loop DEF PollsOwn, Before, Current
  <2> QED
    BY <2>2, <2>4 DEF Undisturbed
<1> QED
  BY <1>3, <1>4, <1>5

(* The statement a job submits becomes the one it polls. *)
LEMMA SubmitStep ==
    ASSUME IInv, NEW k \in Loaders, Submit(k)
    PROVE  Resting' /\ BaseBehind' /\ \A l \in Loaders : alone'[l] => Undisturbed(l)'
<1> DEFINE s == [kind |-> kind[k], metric |-> Metrics[at[k]], state |-> "started"]
<1>1. /\ pc' = [pc EXCEPT ![k] = "poll"] /\ pc[k] = "submit"
      /\ waiting' = [waiting EXCEPT ![k] = Len(statements')]
      /\ UNCHANGED <<gold, mart, at, kind, base, alone>>
  BY DEF Submit
<1>2. /\ pc \in [Loaders -> {"idle", "submit", "poll", "loaded"}]
      /\ waiting \in [Loaders -> Nat] /\ statements \in Seq(Statement)
  BY DEF IInv, TypeOK
<1>3. /\ DOMAIN statements' = DOMAIN statements \cup {Len(statements')}
      /\ statements'[Len(statements')] = s
      /\ \A i \in DOMAIN statements : statements'[i] = statements[i]
  <2>1. statements' = Append(statements, s)
    BY DEF Submit
  <2> HIDE DEF s
  <2> QED
    BY <1>2, <2>1
<1>4. Resting' /\ BaseBehind'
  BY <1>1, <1>2 DEF IInv, Resting, BaseBehind
<1>5. ASSUME NEW l \in Loaders, alone'[l] PROVE Undisturbed(l)'
  <2>1. alone[l]
    BY <1>1, <1>5
  <2>2. l = k
    BY <1>1, <2>1, JobFacts DEF OnlyOwn
  <2>3. pc'[l] = "poll" /\ waiting'[l] = Len(statements')
    BY <1>1, <1>2, <2>2
  <2>4. OnlyOwn(l)'
    BY <1>1, <1>2, <1>3, <2>1, <2>2, <2>3, JobFacts DEF OnlyOwn
  <2> DEFINE own == statements'[waiting'[l]]
  <2>5. own.kind = kind[l] /\ own.metric = Metrics[at[l]] /\ own.state = "started"
    <3>1. own = s
      BY <1>3, <2>3
    <3> QED
      BY <2>2, <3>1
  <2>6. PollsOwn(l)' /\ Before(l)'
    <3>1. at' = at /\ kind' = kind /\ gold' = gold /\ base' = base /\ mart' = mart
      BY <1>1
    <3>2. PollsOwn(l)'
      BY <2>5, <3>1 DEF PollsOwn
    <3>3. Before(l)
      BY <2>1, JobFacts
    <3>4. Before(l)'
      BY <3>1, <3>3 DEF Before, Loaded, Holds
    <3> QED
      BY <3>2, <3>4
  <2>7. Current(l)'
    <3>1. kind[l] = "copy" => Table(l) = Empty
      BY <1>1, <2>1, <2>2, JobFacts DEF Current
    <3> QED
      BY <1>1, <2>3, <2>5, <3>1 DEF Current, Table
  <2> QED
    BY <2>4, <2>6, <2>7 DEF Undisturbed
<1> QED
  BY <1>4, <1>5

(* A job moves on only when its statement has run. *)
LEMMA PollStep ==
    ASSUME IInv, NEW k \in Loaders, PollFinished(k)
    PROVE  Resting' /\ BaseBehind' /\ \A l \in Loaders : alone'[l] => Undisturbed(l)'
<1>1. /\ pc[k] = "poll" /\ statements[waiting[k]].state = "finished"
      /\ UNCHANGED <<gold, mart, statements, waiting, base, alone>>
  BY DEF PollFinished, Finished
<1>2. /\ pc \in [Loaders -> {"idle", "submit", "poll", "loaded"}]
      /\ at \in [Loaders -> DOMAIN Metrics] /\ kind \in [Loaders -> {"truncate", "copy"}]
  BY DEF IInv, TypeOK
<1>3. /\ \A j \in Loaders \ {k} : pc'[j] = pc[j] /\ at'[j] = at[j] /\ kind'[j] = kind[j]
      /\ pc'[k] # "idle"
  BY <1>2 DEF PollFinished
<1>4. Resting' /\ BaseBehind'
  BY <1>1, <1>3 DEF IInv, Resting, BaseBehind
<1>5. ASSUME NEW l \in Loaders, alone'[l] PROVE Undisturbed(l)'
  <2>1. alone[l]
    BY <1>1, <1>5
  <2>2. l = k
    BY <1>1, <2>1, JobFacts DEF OnlyOwn
  <2>3. \A i \in DOMAIN statements : statements[i].state # "started"
    BY <1>1, <2>1, <2>2, JobFacts DEF OnlyOwn
  <2>4. OnlyOwn(l)'
    BY <1>1, <1>3, <2>1, <2>2, <2>3, JobFacts DEF OnlyOwn
  <2>5. /\ kind[l] = "truncate" => Table(l) = Empty
        /\ kind[l] = "copy" => Loaded(l, Metrics[at[l]])
    BY <1>1, <2>1, <2>2, JobFacts DEF Current
  <2>6. Before(l) /\ (\A m : Loaded(l, m) <=> Loaded(l, m)')
    BY <1>1, <2>1, JobFacts DEF Loaded, Holds
  <2>7. CASE NextStep(l).done
    <3>1. kind[l] = "copy" /\ at[l] = Len(Metrics)
      BY <1>2, <2>7, LastStep
    <3>2. pc'[l] = "loaded" /\ at' = at /\ kind' = kind
      BY <1>2, <2>2, <2>7 DEF PollFinished
    <3>3. Before(l)'
      BY <2>6, <3>2 DEF Before
    <3> QED
      BY <2>4, <2>5, <2>6, <3>1, <3>2, <3>3 DEF Undisturbed, PollsOwn, Current
  <2>8. CASE ~NextStep(l).done
    <3>1. pc'[l] = "submit" /\ at'[l] = NextStep(l).at /\ kind'[l] = NextStep(l).kind
      BY <1>2, <2>2, <2>8 DEF PollFinished
    <3>2. CASE kind[l] = "truncate"
      <4>1. at'[l] = at[l] /\ kind'[l] = "copy"
        BY <1>2, <2>8, <3>1, <3>2, Advance
      <4>2. Before(l)' /\ Current(l)'
        BY <1>1, <2>5, <2>6, <3>1, <3>2, <4>1 DEF Before, Current, Table
      <4> QED
        BY <2>4, <3>1, <4>2 DEF Undisturbed, PollsOwn
    <3>3. CASE kind[l] = "copy"
      <4>1. at'[l] = at[l] + 1 /\ kind'[l] = "truncate"
        BY <1>2, <2>8, <3>1, <3>3, Advance
      <4>2. Before(l)'
        <5> SUFFICES ASSUME NEW j \in DOMAIN Metrics, j < at'[l] PROVE Loaded(l, Metrics[j])'
          BY DEF Before
        <5>1. j < at[l] \/ j = at[l]
          BY <1>2, <4>1, Loop
        <5> QED
          BY <2>5, <2>6, <3>3, <5>1 DEF Before
      <4> QED
        BY <2>4, <3>1, <4>1, <4>2 DEF Undisturbed, PollsOwn, Current
    <3> QED
      BY <1>2, <3>2, <3>3
  <2> QED
    BY <2>7, <2>8
<1> QED
  BY <1>4, <1>5

(* While a job is undisturbed no other is there to end. *)
LEMMA GoneStep ==
    ASSUME IInv, NEW k \in Loaders, Gone(k), pc[k] # "idle"
    PROVE  Resting' /\ BaseBehind' /\ \A l \in Loaders : alone'[l] => Undisturbed(l)'
<1>1. /\ at' = [at EXCEPT ![k] = 1] /\ kind' = [kind EXCEPT ![k] = "truncate"]
      /\ pc' = [pc EXCEPT ![k] = "idle"]
      /\ base' = [base EXCEPT ![k] = [m \in MetricSet |-> 0]]
      /\ alone' = [alone EXCEPT ![k] = FALSE]
      /\ gold' = gold
  BY DEF Gone, FirstKind
<1>2. /\ at \in [Loaders -> DOMAIN Metrics] /\ kind \in [Loaders -> {"truncate", "copy"}]
      /\ pc \in [Loaders -> {"idle", "submit", "poll", "loaded"}]
      /\ base \in [Loaders -> [MetricSet -> Versions]] /\ gold \in [MetricSet -> Versions]
      /\ alone \in [Loaders -> BOOLEAN]
  BY DEF IInv, TypeOK
<1>3. Resting'
  BY <1>1, <1>2 DEF IInv, Resting
<1>4. BaseBehind'
  <2> SUFFICES ASSUME NEW l \in Loaders, NEW m \in MetricSet PROVE base'[l][m] <= gold'[m]
    BY DEF BaseBehind
  <2>1. CASE l = k
    BY <1>1, <1>2, <2>1 DEF Versions
  <2>2. CASE l # k
    BY <1>1, <1>2, <2>2 DEF IInv, BaseBehind
  <2> QED
    BY <2>1, <2>2
<1>5. ASSUME NEW l \in Loaders, alone'[l] PROVE FALSE
  <2>1. l # k /\ alone[l]
    BY <1>1, <1>2, <1>5
  <2> QED
    BY <2>1, JobFacts DEF OnlyOwn
<1> QED
  BY <1>3, <1>4, <1>5

-----------------------------------------------------------------------------
(* Theorems *)

(* The invariant is inductive. *)
LEMMA Inductive == Spec => []IInv
<1>1. ASSUME IInv, [Next]_vars PROVE IInv'
  <2>1. TypeOK'
    BY <1>1, TypeStep DEF IInv
  <2>2. Resting' /\ BaseBehind' /\ \A l \in Loaders : alone'[l] => Undisturbed(l)'
    <3>1. CASE \E m \in MetricSet : RefreshGold(m)
      BY <1>1, <3>1, RefreshStep
    <3>2. CASE \E i \in DOMAIN statements : Execute(i) \/ Fail(i)
      BY <1>1, <3>2, RedshiftStep
    <3>3. CASE \E l \in Loaders : Launch(l)
      BY <1>1, <3>3, LaunchStep
    <3>4. CASE \E l \in Loaders : Submit(l)
      BY <1>1, <3>4, SubmitStep
    <3>5. CASE \E l \in Loaders : PollFinished(l)
      BY <1>1, <3>5, PollStep
    <3>6. CASE \E l \in Loaders : Abort(l) \/ Finish(l)
      BY <1>1, <3>6, GoneStep DEF Abort, Finish
    <3>7. CASE UNCHANGED vars
      BY <1>1, <3>7 DEF vars, loader, IInv, Resting, BaseBehind, Undisturbed, OnlyOwn,
                        PollsOwn, Before, Current, Loaded, Holds, Table
    <3> QED
      BY <1>1, <3>1, <3>2, <3>3, <3>4, <3>5, <3>6, <3>7 DEF Next
  <2> QED
    BY <2>1, <2>2 DEF IInv
<1> QED
  BY <1>1, Begins, PTL DEF Spec

(* Every variable keeps its type; a job polls a statement it submitted. *)
THEOREM TypeCorrect == Spec => []TypeOK
<1>1. IInv => TypeOK
  BY DEF IInv
<1> QED
  BY <1>1, Inductive, PTL

(* Whatever earlier jobs left, a job with nothing running beside it leaves *)
(* every table it has passed one whole snapshot of gold.                   *)
THEOREM LoadsWhole == Spec => []LoadedIsGold
<1>1. ASSUME IInv PROVE LoadedIsGold
  <2> SUFFICES ASSUME NEW l \in Loaders, alone[l], pc[l] # "idle", NEW i \in DOMAIN Metrics
               PROVE  /\ i < at[l] \/ pc[l] = "loaded" => Loaded(l, Metrics[i])
                      /\ i = at[l] /\ kind[l] = "copy" =>
                             Table(l) = Empty \/ \E v \in Versions : Holds(Metrics[i], v)
    BY DEF LoadedIsGold, Loaded, Table
  <2>1. Before(l) /\ Current(l) /\ at[l] \in DOMAIN Metrics
    BY <1>1, JobFacts
  <2>2. pc[l] \in {"idle", "submit", "poll", "loaded"}
    BY <1>1 DEF IInv, TypeOK
  <2>3. ASSUME i < at[l] \/ pc[l] = "loaded" PROVE Loaded(l, Metrics[i])
    <3>1. i < at[l] \/ i = at[l]
      BY <2>1, <2>3, Loop DEF Current
    <3> QED
      BY <2>1, <2>3, <3>1, Loop DEF Before, Current
  <2>4. Metrics[i] \in MetricSet /\ (Loaded(l, Metrics[i]) => \E v \in Versions : Holds(Metrics[i], v))
    BY <1>1, Loop DEF IInv, TypeOK, Loaded, Versions
  <2>5. ASSUME i = at[l], kind[l] = "copy"
        PROVE  Table(l) = Empty \/ \E v \in Versions : Holds(Metrics[i], v)
    BY <2>1, <2>2, <2>4, <2>5 DEF Current
  <2> QED
    BY <2>3, <2>5
<1> QED
  BY <1>1, Inductive, PTL
=============================================================================
