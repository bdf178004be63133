------------------------------ MODULE Statements ------------------------------
(***************************************************************************)
(* Statements of internal/modules/ledger/history.go.  A statement keeps    *)
(* totals, and its entries are read again whenever they are listed, so it  *)
(* keeps the id below which transactions had ended when it was made.  Its  *)
(* transaction is READ COMMITTED: each of its statements has a snapshot of *)
(* its own.                                                                *)
(*                                                                         *)
(* The transactions that post are those of clients; a settlement is one    *)
(* more of them.  A transaction has its id from its first lock on.         *)
(***************************************************************************)
EXTENDS AccountHistory

CONSTANTS
    Statements,    \* calls of createStatement
    StatementOf    \* call -> [acct, from, until]

ASSUME StatementsAssumption == \A s \in Statements : StatementOf[s].from < StatementOf[s].until

VARIABLES
    nextXid,    \* the next transaction id of the database
    xid,        \* transaction -> its id, 0 before it has one
    statement   \* call -> [step, before, opening, period]

statementVars == <<nextXid, xid, statement>>

NoTotals == [debits |-> 0, credits |-> 0, count |-> 0]

Totals(S) ==
    [debits  |-> NetOf({e \in S : e.amt > 0}),
     credits |-> -NetOf({e \in S : e.amt < 0}),
     count   |-> Cardinality(S)]

\* Mutant: pg_snapshot_xmax.
SnapshotXmax == nextXid

\* selectSnapshotXmin: the oldest transaction in progress.
SnapshotXmin == Min({xid[t] : t \in {u \in Txns : InProgress(u)}} \cup {nextXid})

\* The entries that selectTotals and selectEntries read: from <= effective_at < until
\* and posted_xid below the bound.
Select(acct, from, until, before) ==
    {e \in Committed : e.acct = acct /\ from <= e.eff /\ e.eff < until /\ xid[e.txn] < before}

Opening(s, before) == Select(StatementOf[s].acct, 0, StatementOf[s].from, before)

\* Also what listEntries shows of the statement.
Period(s, before) == Select(StatementOf[s].acct, StatementOf[s].from, StatementOf[s].until, before)

-------------------------------------------------------------------------------

TakeBound(s) ==
    /\ statement[s].step = "new"
    /\ statement' = [statement EXCEPT ![s].step = "bounded", ![s].before = SnapshotXmin]

ReadOpening(s) ==
    /\ statement[s].step = "bounded"
    /\ statement' = [statement EXCEPT ![s].step = "opened", ![s].opening = Totals(Opening(s, statement[s].before))]

\* The second selectTotals; then insertStatement and the commit, which only add its row.
ReadPeriod(s) ==
    /\ statement[s].step = "opened"
    /\ statement' = [statement EXCEPT ![s].step = "saved", ![s].period = Totals(Period(s, statement[s].before))]

StatementStep(s) ==
    /\ TakeBound(s) \/ ReadOpening(s) \/ ReadPeriod(s)
    /\ UNCHANGED <<historyVars, nextXid, xid>>

PostNumbered(p) ==
    \/ /\ BeginPost(p)
       /\ xid' = [xid EXCEPT ![p] = nextXid]
       /\ nextXid' = nextXid + 1
       /\ UNCHANGED statement
    \/ (WritePost(p, "begun") \/ EndPost(p)) /\ UNCHANGED statementVars

StatementsInit ==
    /\ nextXid = 1
    /\ xid = [t \in Txns |-> 0]
    /\ statement = [s \in Statements |->
          [step |-> "new", before |-> 0, opening |-> NoTotals, period |-> NoTotals]]

-------------------------------------------------------------------------------

\* A statement stays true: whatever transactions end after it was made, backdated ones
\* and ones that were in progress too, the entries listed for it give the number it
\* reports and lead from its starting to its ending balance (createStatement, listEntries).
StatementsStayTrue ==
    \A s \in Statements :
        statement[s].step = "saved" =>
            /\ Totals(Opening(s, statement[s].before)) = statement[s].opening
            /\ Totals(Period(s, statement[s].before)) = statement[s].period
===============================================================================
