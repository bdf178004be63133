-------------------------------- MODULE Monitors --------------------------------
(***************************************************************************)
(* Balance monitors (monitors.go) beside the batches that change balances. *)
(* A transaction selects the monitors of its accounts once they are        *)
(* locked, and writes an event for each one whose condition did not hold   *)
(* on the balances it has read and holds on those it writes                *)
(* (ledgerState.crossed).  The row of a monitor refers to its account, so  *)
(* its INSERT waits for a transaction that has the account locked; the     *)
(* balance that createMonitor answers with was read before that.           *)
(***************************************************************************)
EXTENDS BatchPosting

CONSTANTS
    Alarms,    \* monitors
    AlarmOf    \* monitor -> [purse, operator, value]

Operators == {"gt", "gte", "eq", "lt", "lte", "not_eq"}

ASSUME AlarmAssumption == \A m \in Alarms : AlarmOf[m].purse \in Purses /\ AlarmOf[m].operator \in Operators

VARIABLES
    alarm,     \* monitor -> "absent", "creating", "live" or "deleted"
    told,      \* monitor -> triggered as createMonitor answers it, or "none"
    watching,  \* batch -> the monitors that its transaction has selected
    alerts     \* monitor -> balance_monitor.triggered events written for it

alarmVars == <<alarm, told, watching, alerts>>

\* AlertCondition.holds, of the balance it is about.
Holds(m, balance) ==
    LET v == balance[AlarmOf[m].purse]
        w == AlarmOf[m].value
    IN  CASE AlarmOf[m].operator = "gt"     -> v > w
          [] AlarmOf[m].operator = "gte"    -> v >= w
          [] AlarmOf[m].operator = "eq"     -> v = w
          [] AlarmOf[m].operator = "lt"     -> v < w
          [] AlarmOf[m].operator = "lte"    -> v <= w
          [] AlarmOf[m].operator = "not_eq" -> v # w

Crossed(g, before, after) ==
    {m \in watching[g] : ~Holds(m, before) /\ Holds(m, after)}

-------------------------------------------------------------------------------
(***************************************************************************)
(* createMonitor and deleteMonitor.                                        *)
(***************************************************************************)

\* selectAccount, without a lock.
ReadBalance(m) ==
    /\ alarm[m] = "absent"
    /\ alarm' = [alarm EXCEPT ![m] = "creating"]
    /\ told' = [told EXCEPT ![m] = IF Holds(m, books.balance) THEN "triggered" ELSE "quiet"]
    /\ UNCHANGED <<batchVars, watching, alerts>>

\* Mutant: the monitor is inserted without a lock on its account.
InsertFree(m) == TRUE

\* The foreign key locks the account against FOR UPDATE.
InsertWaits(m) == \A g \in Locking : AlarmOf[m].purse \notin LockedBy(g)

\* INSERT and COMMIT.
InsertMonitor(m) ==
    /\ alarm[m] = "creating"
    /\ InsertWaits(m)
    /\ alarm' = [alarm EXCEPT ![m] = "live"]
    /\ UNCHANGED <<batchVars, told, watching, alerts>>

DeleteMonitor(m) ==
    /\ alarm[m] = "live"
    /\ alarm' = [alarm EXCEPT ![m] = "deleted"]
    /\ UNCHANGED <<batchVars, told, watching, alerts>>

-------------------------------------------------------------------------------
(***************************************************************************)
(* The batches, as they select monitors and write events.                  *)
(***************************************************************************)

ReadWatched(g) ==
    /\ ReadRows(g)
    /\ watching' = [watching EXCEPT ![g] =
           {m \in Alarms : alarm[m] = "live" /\ AlarmOf[m].purse \in LockedBy(g)}]
    /\ UNCHANGED <<alarm, told, alerts>>

\* queueWriteAccounts writes the events and the balances in one round trip.
CommitWatched(g) ==
    /\ CommitGroup(g)
    /\ alerts' = [m \in Alarms |->
           IF m \in Crossed(g, task[g].seen.balance, books'.balance) THEN alerts[m] + 1 ELSE alerts[m]]
    /\ watching' = [watching EXCEPT ![g] = {}]
    /\ UNCHANGED <<alarm, told>>

\* A transaction that is rolled back.
RollBackWatched(g) ==
    /\ AbortGroup(g) \/ RetryGroup(g)
    /\ watching' = [watching EXCEPT ![g] = {}]
    /\ UNCHANGED <<alarm, told, alerts>>

Unwatched(g) ==
    /\ Validate(g) \/ TakeSlot(g) \/ SlotCanceled(g) \/ ReadExternals(g)
    /\ UNCHANGED alarmVars

MonitorsInit ==
    /\ BatchInit
    /\ alarm = [m \in Alarms |-> "absent"]
    /\ told = [m \in Alarms |-> "none"]
    /\ watching = [g \in Groups |-> {}]
    /\ alerts = [m \in Alarms |-> 0]

MonitorsStep ==
    \/ \E g \in Groups : Unwatched(g) \/ ReadWatched(g) \/ CommitWatched(g) \/ RollBackWatched(g)
    \/ \E m \in Alarms : ReadBalance(m) \/ InsertMonitor(m) \/ DeleteMonitor(m)

monitorVars == <<batchVars, alarmVars>>

MonitorsSpec == MonitorsInit /\ [][MonitorsStep]_monitorVars

-------------------------------------------------------------------------------

\* Between committed balances a live monitor never misses a crossing, though it may be
\* created and deleted while a batch is under way: it has one event when its condition
\* becomes true.  It has none otherwise: no event for a batch that leaves the condition
\* as it was, or that crosses the limit and comes back (crossed, createMonitor).
AlertsAreCrossings ==
    [][\A m \in Alarms :
        LET crosses == ~Holds(m, books.balance) /\ Holds(m, books'.balance)
        IN  /\ alerts'[m] # alerts[m] => crosses /\ alerts'[m] = alerts[m] + 1
            /\ alarm[m] = "live" /\ crosses => alerts'[m] = alerts[m] + 1]_monitorVars

\* A client that was told its monitor was not triggered hears of it when the condition
\* has come to hold (createMonitor answers "triggered (whether the condition currently
\* holds)", and events tell the rest).
QuietOnesAreTold ==
    \A m \in Alarms :
        alarm[m] = "live" /\ told[m] = "quiet" /\ Holds(m, books.balance) => alerts[m] > 0
===============================================================================
