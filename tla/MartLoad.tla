------------------------------ MODULE MartLoad ------------------------------
(***************************************************************************)
(* jobs/redshift/load.py: for each metric, TRUNCATE the mart table, then   *)
(* COPY gold/<metric>/ into it.  Each statement is submitted to the        *)
(* Redshift Data API, commits on its own, and is polled for a minute; the  *)
(* first that fails or takes longer ends the job.  A statement the job no  *)
(* longer polls may still be executed, beside those of the next job, and   *)
(* nothing keeps a job started by hand from running beside the hourly one. *)
(*                                                                         *)
(* What gold/<metric>/ holds is a version number; a mart table is a bag of *)
(* such versions, one for each COPY since the last TRUNCATE.               *)
(***************************************************************************)
EXTENDS Integers, Sequences

CONSTANTS
    Metrics,        \* METRICS, in order
    Loaders,        \* containers of the load job that may exist at a time
    MaxVersion,     \* bound: versions of gold
    MaxStatements   \* bound: statements submitted

ASSUME MetricsAssumption ==
    /\ Metrics \in Seq(STRING) /\ Metrics # <<>>
    /\ \A i, j \in DOMAIN Metrics : Metrics[i] = Metrics[j] => i = j
ASSUME BoundsAssumption == MaxVersion \in Nat /\ MaxStatements \in Nat

VARIABLES
    gold,           \* the version of each gold/<metric>/
    mart,           \* the copies of each version in each mart table
    statements,     \* those submitted, in order: kind, metric, state
    (* each loader *)
    pc,             \* "idle", "submit", "poll" or "loaded"
    at,             \* index of the metric
    kind,           \* "truncate" or "copy": the statement it is at
    waiting,        \* the statement it polls
    base,           \* history: gold when the job began
    alone           \* history: whether no other job or statement runs beside it

loader == <<pc, at, kind, waiting, base, alone>>
vars == <<gold, mart, statements, loader>>

MetricSet == {Metrics[i] : i \in DOMAIN Metrics}
Versions == 0..MaxVersion
Statement == [kind : {"truncate", "copy"}, metric : MetricSet,
              state : {"started", "finished", "failed"}]
Empty == [v \in Versions |-> 0]

-----------------------------------------------------------------------------
(* Mistakes the code could have made; each takes the place of the operator *)
(* it names to show which property notices.                                *)

(* for FirstKind *)
CopyWithoutTruncate == "copy"

(* for NextStep *)
NeverDone(l) ==
    IF kind[l] = "truncate" THEN [at |-> at[l], kind |-> "copy", done |-> FALSE]
    ELSE [at |-> at[l] + 1, kind |-> "truncate", done |-> at[l] > Len(Metrics)]

(* for Finished *)
NotPolled(state) == TRUE

-----------------------------------------------------------------------------
FirstKind == "truncate"

(* load_metric's two statements, and the loop over METRICS. *)
NextStep(l) ==
    IF kind[l] = "truncate" THEN [at |-> at[l], kind |-> "copy", done |-> FALSE]
    ELSE [at |-> at[l] + 1, kind |-> FirstKind, done |-> at[l] = Len(Metrics)]

(* _run_statement returns. *)
Finished(state) == state = "finished"

Init ==
    /\ gold = [m \in MetricSet |-> 0]
    /\ mart = [m \in MetricSet |-> Empty]
    /\ statements = <<>>
    /\ pc = [l \in Loaders |-> "idle"]
    /\ at = [l \in Loaders |-> 1]
    /\ kind = [l \in Loaders |-> FirstKind]
    /\ waiting = [l \in Loaders |-> 0]
    /\ base = [l \in Loaders |-> [m \in MetricSet |-> 0]]
    /\ alone = [l \in Loaders |-> FALSE]

(* A gold job changes what gold/<metric>/ holds. *)
RefreshGold(m) ==
    /\ gold[m] < MaxVersion
    /\ gold' = [gold EXCEPT ![m] = @ + 1]
    /\ UNCHANGED <<mart, statements, loader>>

-----------------------------------------------------------------------------
(* Redshift *)

(* TRUNCATE empties the table, COPY adds the version gold holds. *)
Effect(statement, table, version) ==
    IF statement = "truncate" THEN Empty
    ELSE [table EXCEPT ![version] = @ + 1]

(* A statement runs. *)
Execute(i) ==
    /\ statements[i].state = "started"
    /\ statements' = [statements EXCEPT ![i].state = "finished"]
    /\ LET m == statements[i].metric
       IN  mart' = [mart EXCEPT ![m] = Effect(statements[i].kind, @, gold[m])]
    /\ UNCHANGED <<gold, loader>>

(* A statement fails or is aborted: its transaction changes nothing. *)
Fail(i) ==
    /\ statements[i].state = "started"
    /\ statements' = [statements EXCEPT ![i].state = "failed"]
    /\ UNCHANGED <<gold, mart, loader>>

-----------------------------------------------------------------------------
(* The load job *)

(* Nothing of another job is left to run. *)
Quiet(l) ==
    /\ \A k \in Loaders \ {l} : pc[k] = "idle"
    /\ \A i \in DOMAIN statements : statements[i].state # "started"

(* The hourly rule starts a job, or somebody does. *)
Launch(l) ==
    /\ pc[l] = "idle"
    /\ pc' = [pc EXCEPT ![l] = "submit"]
    /\ base' = [base EXCEPT ![l] = gold]
    /\ alone' = [k \in Loaders |-> k = l /\ Quiet(l)]
    /\ UNCHANGED <<gold, mart, statements, at, kind, waiting>>

Submit(l) ==
    /\ pc[l] = "submit" /\ Len(statements) < MaxStatements
    /\ statements' = Append(statements,
           [kind |-> kind[l], metric |-> Metrics[at[l]], state |-> "started"])
    /\ waiting' = [waiting EXCEPT ![l] = Len(statements')]
    /\ pc' = [pc EXCEPT ![l] = "poll"]
    /\ UNCHANGED <<gold, mart, at, kind, base, alone>>

PollFinished(l) ==
    /\ pc[l] = "poll" /\ Finished(statements[waiting[l]].state)
    /\ LET next == NextStep(l)
       IN  IF next.done
           THEN /\ pc' = [pc EXCEPT ![l] = "loaded"]
                /\ UNCHANGED <<at, kind>>
           ELSE /\ pc' = [pc EXCEPT ![l] = "submit"]
                /\ at' = [at EXCEPT ![l] = next.at]
                /\ kind' = [kind EXCEPT ![l] = next.kind]
    /\ UNCHANGED <<gold, mart, statements, waiting, base, alone>>

(* The container and what it knew are gone; its statements are not. *)
Gone(l) ==
    /\ pc' = [pc EXCEPT ![l] = "idle"]
    /\ at' = [at EXCEPT ![l] = 1]
    /\ kind' = [kind EXCEPT ![l] = FirstKind]
    /\ waiting' = [waiting EXCEPT ![l] = 0]
    /\ base' = [base EXCEPT ![l] = [m \in MetricSet |-> 0]]
    /\ alone' = [alone EXCEPT ![l] = FALSE]
    /\ UNCHANGED <<gold, mart, statements>>

(* The job ends early: the statement failed or took more than              *)
(* MAX_WAIT_SECONDS, another call raised, or the container was stopped.    *)
Abort(l) ==
    /\ pc[l] \in {"submit", "poll"}
    /\ Gone(l)

Finish(l) ==
    /\ pc[l] = "loaded"
    /\ Gone(l)

Next ==
    \/ \E m \in MetricSet : RefreshGold(m)
    \/ \E i \in DOMAIN statements : Execute(i) \/ Fail(i)
    \/ \E l \in Loaders :
        Launch(l) \/ Submit(l) \/ PollFinished(l) \/ Abort(l) \/ Finish(l)

Spec == Init /\ [][Next]_vars

-----------------------------------------------------------------------------
(* Properties *)

(* Every variable has its type, and a job is at a metric of the list. *)
TypeOK ==
    /\ gold \in [MetricSet -> Versions]
    /\ mart \in [MetricSet -> [Versions -> Nat]]
    /\ statements \in Seq(Statement) /\ Len(statements) <= MaxStatements
    /\ pc \in [Loaders -> {"idle", "submit", "poll", "loaded"}]
    /\ at \in [Loaders -> DOMAIN Metrics]
    /\ kind \in [Loaders -> {"truncate", "copy"}]
    /\ waiting \in [Loaders -> Nat]
    /\ \A l \in Loaders : pc[l] = "poll" => waiting[l] \in DOMAIN statements
    /\ base \in [Loaders -> [MetricSet -> Versions]] /\ alone \in [Loaders -> BOOLEAN]

(* The table holds one copy of one version. *)
Holds(m, v) == mart[m] = [Empty EXCEPT ![v] = 1]

(* However earlier jobs ended and whatever their statements left in the    *)
(* tables, a job with nothing running beside it leaves each table one      *)
(* snapshot, no older than gold was when the job began; a table it has     *)
(* truncated holds nothing or one snapshot.                                *)
LoadedIsGold ==
    \A l \in Loaders : alone[l] /\ pc[l] # "idle" =>
        \A i \in DOMAIN Metrics :
            /\ i < at[l] \/ pc[l] = "loaded" =>
                   \E v \in base[l][Metrics[i]]..gold[Metrics[i]] : Holds(Metrics[i], v)
            /\ i = at[l] /\ kind[l] = "copy" =>
                   mart[Metrics[i]] = Empty \/ \E v \in Versions : Holds(Metrics[i], v)
=============================================================================
