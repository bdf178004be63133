------------------------------ MODULE CommitOrder ------------------------------
(***************************************************************************)
(* Rows of an append-only table of PostgreSQL that keep the id of the      *)
(* transaction that wrote them (posted_xid, created_xid).  The database    *)
(* gives out transaction ids at the first write and transactions commit in *)
(* any order, so a reader that goes through the table in the order of that *)
(* id takes only rows older than every transaction in progress             *)
(* (pg_snapshot_xmin).  The sealer and the event dispatcher read so.       *)
(***************************************************************************)
EXTENDS Integers, FiniteSets

CONSTANT Rows   \* ids of rows, in the order of the column id

VARIABLES
    nextXid,  \* the next transaction id the database gives out
    xid,      \* row -> the id of its transaction, 0 before it is written
    state     \* row -> "new", "open" (in progress), "committed" or "aborted"

journal == <<nextXid, xid, state>>

JournalInit ==
    /\ nextXid = 1
    /\ xid = [r \in Rows |-> 0]
    /\ state = [r \in Rows |-> "new"]

\* A transaction writes the rows S; all of them become visible at its commit.
Write(S) ==
    /\ S # {}
    /\ \A r \in S : state[r] = "new"
    /\ xid' = [r \in Rows |-> IF r \in S THEN nextXid ELSE xid[r]]
    /\ state' = [r \in Rows |-> IF r \in S THEN "open" ELSE state[r]]
    /\ nextXid' = nextXid + 1

End(x, outcome) ==
    /\ \E r \in Rows : xid[r] = x /\ state[r] = "open"
    /\ state' = [r \in Rows |-> IF xid[r] = x /\ state[r] = "open" THEN outcome ELSE state[r]]
    /\ UNCHANGED <<nextXid, xid>>

Before(r, u) == xid[r] < xid[u] \/ (xid[r] = xid[u] /\ r < u)

\* Mutant: whatever is committed, though an older transaction is in progress.
VisibleCommitted(r) == state[r] = "committed"

\* Committed, and its transaction is below pg_snapshot_xmin(pg_current_snapshot()).
Visible(r) == state[r] = "committed" /\ \A u \in Rows : state[u] = "open" => xid[r] < xid[u]

\* The first n rows of S: ORDER BY xid, id LIMIT n.
FirstOf(S, n) ==
    {B \in SUBSET S :
        /\ \A r \in B, u \in S : Before(u, r) => u \in B
        /\ Cardinality(B) <= n
        /\ B = S \/ Cardinality(B) = n}

JournalTypeOK ==
    /\ nextXid \in Nat \ {0}
    /\ xid \in [Rows -> Nat]
    /\ state \in [Rows -> {"new", "open", "committed", "aborted"}]
===============================================================================
