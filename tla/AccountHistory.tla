---------------------------- MODULE AccountHistory ----------------------------
(***************************************************************************)
(* The entries of the ledger as its reports read them: ledger_postings     *)
(* with the effective time of their transaction.  A database transaction   *)
(* locks its accounts in the order of their ids and may wait at each of    *)
(* them, so transactions write and commit in another order than the one in *)
(* which they begin.                                                       *)
(*                                                                         *)
(* What a client posts is an input here: module LedgerCore models it.  An  *)
(* amount is the debit minus the credit of an entry.                       *)
(***************************************************************************)
EXTENDS Sums, FiniteSetsExt

CONSTANTS
    Txns,         \* database transactions: posts of clients and settlements
    Posts,
    Touches,      \* transaction -> the accounts it locks
    AmountOf,     \* post -> account -> amount
    EffectiveOf   \* post -> effective_at

ASSUME PostsAssumption ==
    /\ Posts \subseteq Txns
    /\ \A t \in Txns : IsFiniteSet(Touches[t])
    /\ \A p \in Posts : \A a \in Touches[p] : AmountOf[p][a] \in Int
    /\ \A p \in Posts : MapThenSumSet(LAMBDA a : AmountOf[p][a], Touches[p]) = 0

VARIABLES
    stage,     \* transaction -> how far it is
    entries    \* rows of ledger_postings: [txn, acct, amt, eff]

historyVars == <<stage, entries>>

Goto(t, to) == stage' = [stage EXCEPT ![t] = to]

InProgress(t) == stage[t] \in {"begun", "summed", "written"}

\* The entries of committed transactions: what any statement sees.
Committed == {e \in entries : stage[e.txn] = "committed"}

\* The sum of the amounts of entries: debits less credits.
NetOf(S) ==
    SumOf([e \in S |-> IF e.amt > 0 THEN e.amt ELSE 0], S) - SumOf([e \in S |-> IF e.amt < 0 THEN -e.amt ELSE 0], S)

-------------------------------------------------------------------------------

\* Accounts are locked FOR UPDATE, to the end of the transaction.
CanLock(t) ==
    \A u \in Txns \ {t} : stage[u] \in {"summed", "written"} => Touches[u] \cap Touches[t] = {}

\* The entries of a transaction that is rolled back are gone.
Undo(t) == entries' = {e \in entries : e.txn # t}

\* The first of its accounts is locked.
BeginPost(p) ==
    /\ stage[p] = "idle"
    /\ Goto(p, "begun")
    /\ UNCHANGED entries

\* All accounts are locked and the entries inserted.
WritePost(p, from) ==
    /\ stage[p] = from
    /\ CanLock(p)
    /\ entries' = entries \cup
           {[txn |-> p, acct |-> a, amt |-> AmountOf[p][a], eff |-> EffectiveOf[p]] : a \in Touches[p]}
    /\ Goto(p, "written")

EndPost(p) ==
    /\ stage[p] = "written"
    /\ \/ Goto(p, "committed") /\ UNCHANGED entries
       \/ Goto(p, "over") /\ Undo(p)

HistoryInit ==
    /\ stage = [t \in Txns |-> "idle"]
    /\ entries = {}
===============================================================================
