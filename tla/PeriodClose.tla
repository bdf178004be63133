------------------------------ MODULE PeriodClose ------------------------------
(***************************************************************************)
(* Closing a period of a ledger (internal/modules/ledger/ledgers.go)       *)
(* against transactions that are being posted into it.                     *)
(*                                                                         *)
(* A posting transaction gets its transaction id when it locks its         *)
(* accounts, reads closed_before in the same statement, inserts its rows,  *)
(* where a trigger of the database looks at closed_before again, and       *)
(* commits.  A request to close updates closed_before in one transaction   *)
(* and then waits until no transaction with an older id is in progress.    *)
(* No row lock connects the two: the insert does not reference the row of  *)
(* the ledger, and both checks read it without a lock.                     *)
(*                                                                         *)
(* One ledger and one period: every poster dates its transaction in it,    *)
(* and a request closes the period or reopens it.                          *)
(***************************************************************************)
EXTENDS Integers

CONSTANTS
    Posters,  \* database transactions that post, or change a pending transaction
    Closers   \* calls of closePeriod

ASSUME PeriodAssumption == Posters \cap Closers = {}

VARIABLES
    closed,   \* the committed closed_before covers the period
    stage,    \* poster or closer -> its progress
    txid,     \* poster or closer -> its transaction id, 0 before it has one
    nextTxid, \* the next id the database gives out
    target,   \* closer -> what it asks for: closed or reopened
    found,    \* closer -> whether it found the period as it asks for
    kept      \* closers that committed since closed last changed, that one included

periodVars == <<closed, stage, txid, nextTxid, target, found, kept>>

Over == {"refused", "landed", "responded", "failed"}

InProgress(x) == stage[x] \in {"locked", "inserted", "updating"}

\* pg_snapshot_xmin, the oldest id in progress or else the next one to give out,
\* is above n.
XminAbove(n) == nextTxid > n /\ \A x \in Posters \cup Closers : InProgress(x) => txid[x] > n

NewTxid(x) ==
    /\ txid' = [txid EXCEPT ![x] = nextTxid]
    /\ nextTxid' = nextTxid + 1

GoOn(x, label) == stage' = [stage EXCEPT ![x] = label]

-------------------------------------------------------------------------------
(***************************************************************************)
(* A posting transaction.                                                  *)
(***************************************************************************)

\* queueLockAccounts and the check of resolveRequest.
Lock(p) ==
    /\ stage[p] = "idle"
    /\ NewTxid(p)
    /\ GoOn(p, IF closed THEN "refused" ELSE "locked")
    /\ UNCHANGED <<closed, target, found, kept>>

\* The insert or update, with the trigger ledger_transactions_period_check.
Insert(p) ==
    /\ stage[p] = "locked"
    /\ GoOn(p, IF closed THEN "refused" ELSE "inserted")
    /\ UNCHANGED <<closed, txid, nextTxid, target, found, kept>>

CommitPosting(p) ==
    /\ stage[p] = "inserted"
    /\ GoOn(p, "landed")
    /\ UNCHANGED <<closed, txid, nextTxid, target, found, kept>>

\* Any other error rolls back.
AbortPosting(p) ==
    /\ stage[p] \in {"locked", "inserted"}
    /\ GoOn(p, "refused")
    /\ UNCHANGED <<closed, txid, nextTxid, target, found, kept>>

-------------------------------------------------------------------------------
(***************************************************************************)
(* closePeriod.                                                            *)
(***************************************************************************)

\* SELECT ... FOR UPDATE on the ledger, one caller at a time.
BeginClose(c, t) ==
    /\ stage[c] = "idle"
    /\ \A d \in Closers : stage[d] # "updating"
    /\ NewTxid(c)
    /\ target' = [target EXCEPT ![c] = t]
    /\ found' = [found EXCEPT ![c] = (closed = t)]
    /\ GoOn(c, "updating")
    /\ UNCHANGED <<closed, kept>>

\* Mutant: a period that is as asked for is answered at once.
CommitCloseAtOnce(c) ==
    /\ stage[c] = "updating"
    /\ closed' = target[c]
    /\ kept' = (IF found[c] THEN kept ELSE {}) \cup {c}
    /\ GoOn(c, IF found[c] THEN "responded" ELSE "waiting")
    /\ UNCHANGED <<txid, nextTxid, target, found>>

\* A period that is as asked for is not updated; the caller waits all the same.
CommitClose(c) ==
    /\ stage[c] = "updating"
    /\ closed' = target[c]
    /\ kept' = (IF found[c] THEN kept ELSE {}) \cup {c}
    /\ GoOn(c, "waiting")
    /\ UNCHANGED <<txid, nextTxid, target, found>>

AbortClose(c) ==
    /\ stage[c] = "updating"
    /\ GoOn(c, "failed")
    /\ UNCHANGED <<closed, txid, nextTxid, target, found, kept>>

\* Mutant: compares with an id that is taken anew at each look.
RespondIdle(c) ==
    /\ stage[c] = "waiting"
    /\ XminAbove(nextTxid)
    /\ GoOn(c, "responded")
    /\ UNCHANGED <<closed, txid, nextTxid, target, found, kept>>

\* waitForOlderTransactions.
Respond(c) ==
    /\ stage[c] = "waiting"
    /\ XminAbove(txid[c])
    /\ GoOn(c, "responded")
    /\ UNCHANGED <<closed, txid, nextTxid, target, found, kept>>

\* The context of the request is done first: the period is closed all the same.
GiveUpWaiting(c) ==
    /\ stage[c] = "waiting"
    /\ GoOn(c, "failed")
    /\ UNCHANGED <<closed, txid, nextTxid, target, found, kept>>

-------------------------------------------------------------------------------
PeriodInit ==
    /\ closed = FALSE
    /\ stage = [x \in Posters \cup Closers |-> "idle"]
    /\ txid = [x \in Posters \cup Closers |-> 0]
    /\ nextTxid = 1
    /\ target = [c \in Closers |-> FALSE]
    /\ found = [c \in Closers |-> FALSE]
    /\ kept = {}

PostingStep(p) == Lock(p) \/ Insert(p) \/ CommitPosting(p) \/ AbortPosting(p)

ClosingStep(c) ==
    \/ \E t \in BOOLEAN : BeginClose(c, t)
    \/ CommitClose(c) \/ AbortClose(c) \/ Respond(c) \/ GiveUpWaiting(c)

PeriodNext == (\E p \in Posters : PostingStep(p)) \/ (\E c \in Closers : ClosingStep(c))

(***************************************************************************)
(* Transactions that are open end, and a caller that waits looks again.    *)
(***************************************************************************)
PeriodFairness ==
    /\ \A p \in Posters : WF_periodVars(Insert(p) \/ CommitPosting(p) \/ AbortPosting(p))
    /\ \A c \in Closers : WF_periodVars(CommitClose(c) \/ AbortClose(c)) /\ WF_periodVars(Respond(c))

PeriodSpec == PeriodInit /\ [][PeriodNext]_periodVars /\ PeriodFairness

-------------------------------------------------------------------------------
(***************************************************************************)
(* Properties.                                                             *)
(***************************************************************************)

\* Every variable has its type; ids are given out once.
PeriodTypeOK ==
    /\ closed \in BOOLEAN
    /\ stage \in [Posters \cup Closers ->
                  {"idle", "locked", "inserted", "updating", "waiting"} \cup Over]
    /\ \A p \in Posters : stage[p] \in {"idle", "locked", "inserted", "refused", "landed"}
    /\ \A c \in Closers : stage[c] \in {"idle", "updating", "waiting", "responded", "failed"}
    /\ txid \in [Posters \cup Closers -> Nat]
    /\ nextTxid \in Nat \ {0}
    /\ \A x \in Posters \cup Closers : txid[x] < nextTxid
    /\ target \in [Closers -> BOOLEAN] /\ found \in [Closers -> BOOLEAN]
    /\ kept \subseteq Closers

Landed == {p \in Posters : stage[p] = "landed"}

\* The period is closed, and the caller c that closed it, or found it closed, has
\* its response.
Confirmed(c) == closed /\ c \in kept /\ stage[c] = "responded"

\* docs/api.md on closePeriod: "nothing can land in the period once it has
\* responded".
NothingLandsOnceResponded ==
    [][(\E c \in Closers : Confirmed(c)) => Landed' = Landed]_periodVars

\* A second request that finds the period closed settles it: once it has its
\* response, nothing lands (closePeriod waits on the path without an update too).
NothingLandsOnceRepeated ==
    [][(\E c \in Closers : Confirmed(c) /\ found[c]) => Landed' = Landed]_periodVars

\* Requests that wait get their response: transactions that begin later do not hold
\* them up, and of finitely many requests none waits for ever.
WaitEnds == <>[](\A c \in Closers : stage[c] # "waiting")
===============================================================================
