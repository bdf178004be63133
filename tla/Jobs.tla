--------------------------------- MODULE Jobs ---------------------------------
(***************************************************************************)
(* The background jobs of the ledger together, over one journal: bulk      *)
(* requests, scheduled transactions, and clients that post under the same  *)
(* keys in the meantime.                                                   *)
(***************************************************************************)
EXTENDS Bulk, Schedules

CONSTANT Direct   \* requests that clients post themselves

\* A request is posted by a client, for an item or for a schedule; keys and bodies may
\* be the same.
ASSUME JobsAssumption ==
    /\ Direct \subseteq Requests \ Scheduled
    /\ \A b \in Bulks : \A i \in Items(b) : ItemOf[b][i] \notin Direct \cup Scheduled

vars == <<journal, bulkVars, scheduleVars>>

\* post; a request that is refused or replayed changes nothing.
PostDirect(r) ==
    /\ Free(r)
    /\ journal' = After({r}, {})
    /\ UNCHANGED <<bulkVars, scheduleVars>>

Init ==
    /\ journal = [k \in Keys |-> NoRequest]
    /\ BulkInit
    /\ SchedulesInit

Next ==
    \/ BulkStep /\ UNCHANGED scheduleVars
    \/ SchedulesStep /\ UNCHANGED bulkVars
    \/ \E r \in Direct : PostDirect(r)

Spec == Init /\ [][Next]_vars /\ BulkFairness /\ SchedulesFairness

\* Every job that was accepted ends, though the jobs share keys, workers stop and
\* transactions fail: a bulk request is completed, a schedule resolved (processBulk,
\* executeDue).
EveryJobEnds == EveryCompleted /\ EveryResolved
===============================================================================
