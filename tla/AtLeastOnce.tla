---------------------------- MODULE AtLeastOnce ----------------------------
(***************************************************************************)
(* What the consumer promises (ARCHITECTURE "at-least-once delivery" and   *)
(* the comment above ConsumerService's commit): a record may be            *)
(* acknowledged only once every event up to it is stored, stored events    *)
(* stay stored, and the acknowledged position says nothing else - it may   *)
(* move back, which only means that events are stored again.               *)
(***************************************************************************)
EXTENDS Integers, Sequences

CONSTANTS
    Events,         \* the records that parse as an event
    Skipped         \* the records that do not

VARIABLES
    log,            \* the records, in stream order
    trimmed,        \* the stream has discarded positions 1..trimmed
    stored,         \* positions whose event is in the lake
    acked           \* a restarted reader resumes after this position

vars == <<log, trimmed, stored, acked>>

Positions == 1..Len(log)

(* An event of position n can no longer be lost by acknowledging it. *)
Settled(n) == n <= trimmed \/ log[n] \notin Events \/ n \in stored

Init ==
    /\ log = <<>>
    /\ trimmed = 0
    /\ stored = {}
    /\ acked = 0

Publish ==
    /\ \E r \in Events \cup Skipped : log' = Append(log, r)
    /\ UNCHANGED <<trimmed, stored, acked>>

Expire ==
    /\ trimmed < Len(log)
    /\ trimmed' = trimmed + 1
    /\ UNCHANGED <<log, stored, acked>>

Store ==
    /\ \E S \in SUBSET {n \in Positions : log[n] \in Events} : stored' = stored \cup S
    /\ UNCHANGED <<log, trimmed, acked>>

Acknowledge ==
    /\ \E m \in Positions :
        /\ \A n \in 1..m : Settled(n)
        /\ acked' = m
    /\ UNCHANGED <<log, trimmed, stored>>

Next == Publish \/ Expire \/ Store \/ Acknowledge

Spec == Init /\ [][Next]_vars
=============================================================================
