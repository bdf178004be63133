------------------------------- MODULE Schedules -------------------------------
(***************************************************************************)
(* Scheduled transactions (internal/modules/ledger/schedules.go).  The     *)
(* sweep of every instance locks schedules that are due, posts them and    *)
(* sets their status in one database transaction, while clients cancel     *)
(* them and post under the same keys.                                      *)
(***************************************************************************)
EXTENDS KeyedJournal, Integers, FiniteSets

CONSTANTS
    Scheduled,   \* requests that clients schedule
    Sweepers,    \* instances of the service, each with one goroutine in sweep
    SweepBatch   \* schedules of one call of executeDue

ASSUME SchedulesAssumption ==
    /\ Scheduled \subseteq Requests /\ IsFiniteSet(Scheduled)
    /\ \A s, t \in Scheduled : KeyOf[s] = KeyOf[t] => s = t
    /\ SweepBatch \in Nat \ {0}

VARIABLES
    schedule,  \* request -> "absent" or the status of its schedule
    due,       \* schedules whose execute_at has passed
    locked     \* sweeper -> the schedules that its transaction has locked

scheduleVars == <<schedule, due, locked>>

Resolved == {"executed", "failed", "canceled"}

Locked == UNION {locked[i] : i \in Sweepers}

SchedulesInit ==
    /\ schedule = [s \in Scheduled |-> "absent"]
    /\ due = {}
    /\ locked = [i \in Sweepers |-> {}]

\* The service's schedule; its key is UNIQUE and a repeated call is replayed.
Schedule(s) ==
    /\ schedule[s] = "absent"
    /\ schedule' = [schedule EXCEPT ![s] = "scheduled"]
    /\ UNCHANGED <<journal, due, locked>>

FallsDue(s) ==
    /\ schedule[s] = "scheduled" /\ s \notin due
    /\ due' = due \cup {s}
    /\ UNCHANGED <<journal, schedule, locked>>

\* Mutant: the row is read without FOR UPDATE.
CancelScheduleUnlocked(s) ==
    /\ schedule[s] = "scheduled"
    /\ schedule' = [schedule EXCEPT ![s] = "canceled"]
    /\ UNCHANGED <<journal, due, locked>>

\* Waits for a sweep that has locked the row, and looks at what it left.
CancelSchedule(s) ==
    /\ s \notin Locked
    /\ schedule[s] = "scheduled"
    /\ schedule' = [schedule EXCEPT ![s] = "canceled"]
    /\ UNCHANGED <<journal, due, locked>>

\* What FOR UPDATE SKIP LOCKED chooses from.
Open == {s \in due \ Locked : schedule[s] = "scheduled"}

\* The SELECT of executeDue.
LockDue(i, S) ==
    /\ locked[i] = {}
    /\ S # {} /\ S \subseteq Open
    /\ Cardinality(S) = SweepBatch \/ (S = Open /\ Cardinality(S) < SweepBatch)
    /\ locked' = [locked EXCEPT ![i] = S]
    /\ UNCHANGED <<journal, schedule, due>>

\* Mutant: without a look at the results.
ExecuteDueAll(i, bad) ==
    /\ locked[i] # {}
    /\ journal' = After(locked[i], bad)
    /\ schedule' = [s \in Scheduled |-> IF s \in locked[i] THEN "executed" ELSE schedule[s]]
    /\ locked' = [locked EXCEPT ![i] = {}]
    /\ UNCHANGED due

\* The rest of executeDue.  If the answer to the commit is lost, the sweep only logs it.
ExecuteDue(i, bad) ==
    /\ locked[i] # {}
    /\ journal' = After(locked[i], bad)
    /\ schedule' = [s \in Scheduled |-> IF s \notin locked[i] THEN schedule[s]
                                        ELSE IF Succeeds(s, bad) THEN "executed" ELSE "failed"]
    /\ locked' = [locked EXCEPT ![i] = {}]
    /\ UNCHANGED due

\* The transaction fails, or the instance stops.
AbortDue(i) ==
    /\ locked[i] # {}
    /\ locked' = [locked EXCEPT ![i] = {}]
    /\ UNCHANGED <<journal, schedule, due>>

SchedulesStep ==
    \/ \E s \in Scheduled : Schedule(s) \/ FallsDue(s) \/ CancelSchedule(s)
    \/ \E i \in Sweepers : AbortDue(i) \/ \E S \in SUBSET Scheduled : LockDue(i, S)
    \/ \E i \in Sweepers : \E bad \in SUBSET locked[i] : ExecuteDue(i, bad)

(***************************************************************************)
(* Time passes, the ticker of sweep keeps every instance looking for       *)
(* schedules in the order of execute_at, and its transactions do not fail  *)
(* for ever.                                                               *)
(***************************************************************************)
SchedulesFairness ==
    /\ \A s \in Scheduled : WF_<<journal, scheduleVars>>(FallsDue(s))
    /\ \A i \in Sweepers : SF_<<journal, scheduleVars>>(\E bad \in SUBSET locked[i] : ExecuteDue(i, bad))
    /\ \A i \in Sweepers, s \in Scheduled :
           SF_<<journal, scheduleVars>>(\E S \in SUBSET Scheduled : s \in S /\ LockDue(i, S))

-------------------------------------------------------------------------------
(***************************************************************************)
(* Properties.                                                             *)
(***************************************************************************)

\* The status of a schedule tells the truth: executed means that the journal has the
\* transaction, posted by the schedule or under its key before; any other status, that
\* the schedule has posted nothing (executeDue, cancelSchedule).
StatusIsTrue ==
    \A s \in Scheduled : IF schedule[s] = "executed" THEN Posted(s) ELSE journal[KeyOf[s]] # s

\* A schedule that was executed, failed or canceled stays so, though two sweeps and a
\* cancellation race for it (FOR UPDATE, SKIP LOCKED).
ResolvedStays ==
    [][\A s \in Scheduled : schedule[s] \in Resolved => schedule'[s] = schedule[s]]_scheduleVars

\* What a client is told of a schedule is true and stays so (executeDue, cancelSchedule).
StatusIsFinal == []StatusIsTrue /\ ResolvedStays

\* Every schedule is executed, fails or is canceled.
EveryResolved == \A s \in Scheduled : schedule[s] = "scheduled" ~> schedule[s] \in Resolved
===============================================================================
