------------------------------ MODULE LogLedger -------------------------------
(***************************************************************************)
(* What log ingestion promises, without handlers, queues and workers: a    *)
(* log is stored once, it is confirmed and gets its embedding only while   *)
(* it is stored, and what is truncated is gone for good.                   *)
(***************************************************************************)
CONSTANT Logs

VARIABLES
    stored,     \* the logs in the table
    embedded,   \* those with an embedding
    confirmed,  \* the logs whose sender knows that they are stored
    gone        \* logs that were truncated

ledgerVars == <<stored, embedded, confirmed, gone>>

Init == stored = {} /\ embedded = {} /\ confirmed = {} /\ gone = {}

\* Several at once, when a process dies while it commits them.
Store(some) ==
    /\ some \cap (stored \cup gone) = {}
    /\ stored' = stored \cup some
    /\ UNCHANGED <<embedded, confirmed, gone>>

Confirm(r) ==
    /\ r \in stored
    /\ confirmed' = confirmed \cup {r}
    /\ UNCHANGED <<stored, embedded, gone>>

Embed(r) ==
    /\ r \in stored
    /\ embedded' = embedded \cup {r}
    /\ UNCHANGED <<stored, confirmed, gone>>

Truncate ==
    /\ gone' = gone \cup stored
    /\ stored' = {} /\ embedded' = {}
    /\ UNCHANGED confirmed

Next ==
    \/ \E some \in SUBSET Logs : Store(some)
    \/ \E r \in Logs : Confirm(r) \/ Embed(r)
    \/ Truncate

Spec == Init /\ [][Next]_ledgerVars
===============================================================================
