---------------------------- MODULE ReadThrough ----------------------------
(***************************************************************************)
(* What the metrics endpoints promise of their answers, whatever engine    *)
(* and cache are behind them: a request is answered with rows that the     *)
(* table held at one moment of the request, or with what the cache stores, *)
(* or with an error; and the cache stores nothing but rows some request    *)
(* has just been answered with, never an empty result.                     *)
(*                                                                         *)
(* Nothing bounds how long rows stay stored: the promise is that stale     *)
(* rows are rows the table once held, not that there are none.             *)
(***************************************************************************)
CONSTANTS
    Readers,        \* the requests
    Results,        \* what the table may hold
    NoRows,         \* the empty result, one of Results
    Nothing,        \* no stored rows
    Failure         \* the answer of a request that failed

VARIABLES
    table,          \* the rows in the table
    stored,         \* the rows in the cache, or Nothing
    at,             \* each request: "idle", "asked" or "read"
    read,           \* what it read from the table
    answer          \* what it answered last

vars == <<table, stored, at, read, answer>>

Init ==
    /\ table = NoRows /\ stored = Nothing
    /\ at = [r \in Readers |-> "idle"]
    /\ read = [r \in Readers |-> NoRows]
    /\ answer = [r \in Readers |-> NoRows]

Answer(r, result) ==
    /\ at' = [at EXCEPT ![r] = "idle"]
    /\ answer' = [answer EXCEPT ![r] = result]

(* The table is emptied or loaded. *)
Change == table' \in Results /\ UNCHANGED <<stored, at, read, answer>>

(* The cache loses what it stores. *)
Forget == stored' = Nothing /\ UNCHANGED <<table, at, read, answer>>

Ask(r) ==
    /\ at[r] = "idle"
    /\ at' = [at EXCEPT ![r] = "asked"]
    /\ UNCHANGED <<table, stored, read, answer>>

Hit(r) ==
    /\ at[r] = "asked" /\ stored # Nothing
    /\ Answer(r, stored)
    /\ UNCHANGED <<table, stored, read>>

Read(r) ==
    /\ at[r] = "asked"
    /\ at' = [at EXCEPT ![r] = "read"]
    /\ read' = [read EXCEPT ![r] = table]
    /\ UNCHANGED <<table, stored, answer>>

(* The answer is what was read, which the cache may come to store. *)
Reply(r) ==
    /\ at[r] = "read"
    /\ Answer(r, read[r])
    /\ \/ stored' = stored
       \/ read[r] # NoRows /\ stored' = read[r]
    /\ UNCHANGED <<table, read>>

Fail(r) ==
    /\ at[r] # "idle"
    /\ Answer(r, Failure)
    /\ UNCHANGED <<table, stored, read>>

Next ==
    \/ Change \/ Forget
    \/ \E r \in Readers : Ask(r) \/ Hit(r) \/ Read(r) \/ Reply(r) \/ Fail(r)

Spec == Init /\ [][Next]_vars
=============================================================================
