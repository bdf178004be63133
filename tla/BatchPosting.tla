------------------------------ MODULE BatchPosting ------------------------------
(***************************************************************************)
(* applyRequests of internal/modules/ledger/engine.go: several posting     *)
(* requests in one database transaction.  The requests are a group of      *)
(* calls that the workers of batcher.go collected, or the items of one     *)
(* call of postBatch, which may ask for all or nothing.  The transaction   *)
(* reads the accounts, the keys and the external ids once, and resolves    *)
(* its requests one after another in memory.                               *)
(*                                                                         *)
(* Balances are the posted ones of accounts without pending entries and    *)
(* holds (module LedgerCore has those); module Batcher has the failures of *)
(* the database other than a lost race for a unique key.                   *)
(***************************************************************************)
EXTENDS Integers, Sequences, FiniteSets, FiniteSetsExt

CONSTANTS
    Purses,        \* accounts
    MayOverdraw,   \* the accounts with allow_negative
    Items,         \* posting requests
    ItemOf,        \* request -> what it asks for, see IsItem
    Groups,        \* batches
    GroupOf,       \* batch -> [kind, items]
    ItemKeys, Externals,
    NoItemKey, NoExternal, NoTxn,
    Slots,         \* capacity of batchSlots
    GroupAttempts  \* maxAttempts of db.RunTx

(***************************************************************************)
(* valid: validatePost accepts it.  ext: the externalKey, a ledger and an  *)
(* id.  refused: what does not depend on balances refuses it, a closed     *)
(* period, an account that is not open, entries that do not balance or are *)
(* of two ledgers.  moves: what the entries add to the balance of each     *)
(* account they touch.  at: lock_version of entries.  least: the gte bound *)
(* of a balance condition.                                                 *)
(***************************************************************************)
IsItem(it) ==
    /\ it.valid \in BOOLEAN /\ it.refused \in BOOLEAN /\ it.archive \in BOOLEAN
    /\ it.key \in ItemKeys /\ it.body \in STRING /\ it.ext \in Externals \cup {NoExternal}
    /\ DOMAIN it.moves \subseteq Purses /\ it.moves \in [DOMAIN it.moves -> Int]
    /\ DOMAIN it.at \subseteq DOMAIN it.moves /\ it.at \in [DOMAIN it.at -> Nat]
    /\ DOMAIN it.least \subseteq DOMAIN it.moves /\ it.least \in [DOMAIN it.least -> Int]
    /\ it.valid => DOMAIN it.moves # {}

\* A transaction: the body of its request, and its status.
TxnType == [body : STRING, status : {"posted", "archived"}]

\* sameContent compares the accounts of the entries, so requests of one key and body
\* are about the same accounts; validateEntries asks for two entries.
ASSUME BatchAssumption ==
    /\ MayOverdraw \subseteq Purses
    /\ NoItemKey \notin ItemKeys /\ NoExternal \notin Externals /\ NoTxn \notin TxnType
    /\ Slots \in Nat \ {0} /\ GroupAttempts \in Nat \ {0}
    /\ \A i \in Items : IsItem(ItemOf[i])
    /\ \A i, j \in Items : ItemOf[i].key = ItemOf[j].key /\ ItemOf[i].body = ItemOf[j].body =>
                             DOMAIN ItemOf[i].moves = DOMAIN ItemOf[j].moves
    /\ \A g \in Groups : /\ GroupOf[g].kind \in {"group", "batch", "atomic"}
                         /\ GroupOf[g].items \in Seq(Items)

VARIABLES
    books,   \* the committed rows: [balance, version, txn, owner]
    task     \* batch -> [step, seen, attempts, answers]

batchVars == <<books, task>>

\* txn: key -> the request that its transaction was made from, and its status.
\* owner: external key -> the idempotency key of its transaction.
EmptyBooks ==
    [balance |-> [a \in Purses |-> 0], version |-> [a \in Purses |-> 0],
     txn |-> [k \in ItemKeys |-> NoTxn], owner |-> [x \in Externals |-> NoItemKey]]

Places(g) == DOMAIN GroupOf[g].items
ItemAt(g, p) == ItemOf[GroupOf[g].items[p]]

\* The places of the requests that get past validatePost.
Sent(g) == {p \in Places(g) : ItemAt(g, p).valid}

NewTask(g) ==
    [step |-> "new", seen |-> EmptyBooks, attempts |-> 0, answers |-> [p \in Places(g) |-> "none"]]

Succeeded == {"posted", "archived", "replayed"}

-------------------------------------------------------------------------------
(***************************************************************************)
(* resolveRequest and transition, on the books b that the earlier requests *)
(* of the batch have left in memory.                                       *)
(***************************************************************************)

\* Mutant: lock_version is compared with the version the transaction has read.
LocksHoldAsRead(read, b, it) ==
    /\ \A a \in DOMAIN it.at : it.at[a] = read.version[a]
    /\ \A a \in DOMAIN it.least : b.balance[a] + it.moves[a] >= it.least[a]

\* lock_version is that of the account before the request, a balance condition is
\* about its balance after it.
LocksHold(read, b, it) ==
    /\ \A a \in DOMAIN it.at : it.at[a] = b.version[a]
    /\ \A a \in DOMAIN it.least : b.balance[a] + it.moves[a] >= it.least[a]

\* checkFunds.
FundsSuffice(b, it) ==
    \A a \in DOMAIN it.moves \ MayOverdraw : it.moves[a] >= 0 \/ b.balance[a] + it.moves[a] >= 0

ExternalFree(b, it) == it.ext = NoExternal \/ b.owner[it.ext] \in {NoItemKey, it.key}

\* What becomes of a request under a key that is new, in the order of the checks.
Judge(read, b, it) ==
    IF ~ExternalFree(b, it) THEN "external_id_exists"
    ELSE IF it.refused THEN "refused"
    ELSE IF ~LocksHold(read, b, it) THEN (IF it.archive THEN "archived" ELSE "lock_failed")
    ELSE IF ~FundsSuffice(b, it) THEN "insufficient_funds"
    ELSE "posted"

\* The books with the transaction of a request that was posted or archived.
Recorded(b, it, verdict) ==
    LET moved == IF verdict = "posted" THEN DOMAIN it.moves ELSE {}
    IN  [balance |-> [a \in Purses |-> IF a \in moved THEN b.balance[a] + it.moves[a] ELSE b.balance[a]],
         version |-> [a \in Purses |-> IF a \in moved THEN b.version[a] + 1 ELSE b.version[a]],
         txn     |-> [b.txn EXCEPT ![it.key] = [body |-> it.body, status |-> verdict]],
         owner   |-> IF it.ext = NoExternal THEN b.owner ELSE [b.owner EXCEPT ![it.ext] = it.key]]

Repeated(txn, it) == IF txn.body = it.body THEN "replayed" ELSE "conflict"

\* m: [books, first, answers]; first is firstByKey, 0 for a key not met yet.
Resolve(g, read, m, p) ==
    LET it      == ItemAt(g, p)
        prior   == m.first[it.key]
        verdict ==
            IF read.txn[it.key] # NoTxn THEN Repeated(read.txn[it.key], it)
            ELSE IF prior = 0 THEN Judge(read, m.books, it)
            ELSE IF m.answers[prior] \notin Succeeded THEN m.answers[prior]
            ELSE Repeated(m.books.txn[it.key], it)
        new     == read.txn[it.key] = NoTxn /\ prior = 0
    IN  [books   |-> IF new /\ verdict \in Succeeded THEN Recorded(m.books, it, verdict) ELSE m.books,
         first   |-> IF new THEN [m.first EXCEPT ![it.key] = p] ELSE m.first,
         answers |-> [m.answers EXCEPT ![p] = verdict]]

\* The loop of applyRequests on what it has read: what there is after n places of g.
Resolving(g, read) ==
    LET after[n \in 0 .. Len(GroupOf[g].items)] ==
            IF n = 0 THEN [books |-> read, first |-> [k \in ItemKeys |-> 0], answers |-> task[g].answers]
            ELSE IF ItemAt(g, n).valid THEN Resolve(g, read, after[n - 1], n)
            ELSE after[n - 1]
    IN  after

Resolved(g, read) == Resolving(g, read)[Len(GroupOf[g].items)]

Errs(answers, g) == {p \in Sent(g) : answers[p] \notin Succeeded}

\* runRequests of an atomic batch: the loop ends at the first error, and what has none
\* by then is aborted.
Aborted(g, m) ==
    [p \in Places(g) |-> IF p = Min(Errs(m.answers, g)) THEN m.answers[p] ELSE "aborted"]

-------------------------------------------------------------------------------
(***************************************************************************)
(* The steps of a batch.                                                   *)
(***************************************************************************)

Step(g, to) == task' = [task EXCEPT ![g].step = to]

Answered(g, answers) == task' = [task EXCEPT ![g] = [NewTask(g) EXCEPT !.step = "done", !.answers = answers]]

\* Calls of postBatch that hold one of batchSlots.
Holding == {g \in Groups : GroupOf[g].kind # "group" /\ task[g].step \in {"read", "external", "write"}}

\* Invalid requests are answered, or refuse the call if it is atomic.
Validate(g) ==
    LET answers == [p \in Places(g) |-> IF ItemAt(g, p).valid THEN "none" ELSE "invalid"]
    IN  /\ task[g].step = "new"
        /\ IF Sent(g) = {} \/ (GroupOf[g].kind = "atomic" /\ Sent(g) # Places(g))
           THEN Answered(g, answers)
           ELSE task' = [task EXCEPT ![g].step = "slot", ![g].answers = answers]
        /\ UNCHANGED books

TakeSlot(g) ==
    /\ task[g].step = "slot"
    /\ GroupOf[g].kind # "group" => Cardinality(Holding) < Slots
    /\ Step(g, "read")
    /\ UNCHANGED books

\* The context of the call is done before it has a slot.
SlotCanceled(g) ==
    /\ task[g].step = "slot"
    /\ GroupOf[g].kind # "group"
    /\ Answered(g, [p \in Places(g) |-> "canceled"])
    /\ UNCHANGED books

LockedBy(g) == UNION {DOMAIN ItemAt(g, p).moves : p \in Sent(g)}

\* Batches that hold the rows of their accounts FOR UPDATE.
Locking == {g \in Groups : task[g].step \in {"external", "write"}}

\* The accounts are locked, and then the keys selected: each statement sees what is
\* committed when it begins.
ReadRows(g) ==
    /\ task[g].step = "read"
    /\ \A h \in Locking : LockedBy(h) \cap LockedBy(g) = {}
    /\ task' = [task EXCEPT ![g].step = "external", ![g].seen = books]
    /\ UNCHANGED books

\* The external ids are selected last.
ReadExternals(g) ==
    /\ task[g].step = "external"
    /\ task' = [task EXCEPT ![g].step = "write", ![g].seen.owner = books.owner]
    /\ UNCHANGED books

\* The places of the requests that applyRequests has accepted.
Accepted(g, m) == {p \in Sent(g) : m.answers[p] \in {"posted", "archived"}}

\* The UNIQUE indexes on the key and on the external id, at the insert.
Unique(g, m) ==
    \A p \in Accepted(g, m) :
        LET it == ItemAt(g, p)
        IN  /\ books.txn[it.key] = NoTxn
            /\ it.ext # NoExternal => books.owner[it.ext] = NoItemKey
            /\ \A q \in Accepted(g, m) \ {p} :
                   ItemAt(g, q).key # it.key /\ (it.ext # NoExternal => ItemAt(g, q).ext # it.ext)

\* The rows of the batch replace the committed ones.
Written(g, m) ==
    [balance |-> [a \in Purses |-> IF a \in LockedBy(g) THEN m.books.balance[a] ELSE books.balance[a]],
     version |-> [a \in Purses |-> IF a \in LockedBy(g) THEN m.books.version[a] ELSE books.version[a]],
     txn     |-> [k \in ItemKeys |-> IF \E p \in Accepted(g, m) : ItemAt(g, p).key = k
                                     THEN m.books.txn[k] ELSE books.txn[k]],
     owner   |-> [x \in Externals |-> IF \E p \in Accepted(g, m) : ItemAt(g, p).ext = x
                                      THEN m.books.owner[x] ELSE books.owner[x]]]

Fails(g, m) == GroupOf[g].kind = "atomic" /\ Errs(m.answers, g) # {}

CommitGroup(g) ==
    LET m == Resolved(g, task[g].seen)
    IN  /\ task[g].step = "write"
        /\ ~Fails(g, m)
        /\ Unique(g, m)
        /\ books' = Written(g, m)
        /\ Answered(g, m.answers)

\* errAborted rolls everything back.
AbortGroup(g) ==
    LET m == Resolved(g, task[g].seen)
    IN  /\ task[g].step = "write"
        /\ Fails(g, m)
        /\ Answered(g, Aborted(g, m))
        /\ UNCHANGED books

\* ErrRetry: RunTx begins again, up to its last attempt.
RetryGroup(g) ==
    LET m == Resolved(g, task[g].seen)
    IN  /\ task[g].step = "write"
        /\ ~Fails(g, m)
        /\ ~Unique(g, m)
        /\ IF task[g].attempts + 1 < GroupAttempts
           THEN task' = [task EXCEPT ![g].step = "read", ![g].seen = EmptyBooks, ![g].attempts = @ + 1]
           ELSE Answered(g, [p \in Places(g) |-> "failed"])
        /\ UNCHANGED books

BatchInit ==
    /\ books = EmptyBooks
    /\ task = [g \in Groups |-> NewTask(g)]

-------------------------------------------------------------------------------
(***************************************************************************)
(* The reference: the requests of g posted one at a time, each by a        *)
(* transaction that reads what the one before it has written.              *)
(***************************************************************************)

\* A request repeats the key of one that was refused earlier in the batch; one that was
\* in conflict has not refused the key.
RefusedBefore(g, answers, p) ==
    {q \in Sent(g) : q < p /\ ItemAt(g, q).key = ItemAt(g, p).key
                     /\ answers[q] \notin Succeeded \cup {"conflict"}}

\* The request at place p, posted on the books s.books.
PostOne(g, s, p) ==
    LET it      == ItemAt(g, p)
        before  == RefusedBefore(g, s.answers, p)
        verdict == IF before # {} THEN s.answers[Min(before)]
                   ELSE IF s.books.txn[it.key] # NoTxn THEN Repeated(s.books.txn[it.key], it)
                   ELSE Judge(s.books, s.books, it)
    IN  [books   |-> IF verdict \in {"posted", "archived"} THEN Recorded(s.books, it, verdict) ELSE s.books,
         answers |-> [s.answers EXCEPT ![p] = verdict]]

\* What there is after n places of g, from the books given.
Posting(g, from) ==
    LET after[n \in 0 .. Len(GroupOf[g].items)] ==
            IF n = 0 THEN [books |-> from, answers |-> task[g].answers]
            ELSE IF ItemAt(g, n).valid THEN PostOne(g, after[n - 1], n)
            ELSE after[n - 1]
    IN  after

OneByOne(g, from) == Posting(g, from)[Len(GroupOf[g].items)]

\* A batch writes what its requests would, posted one at a time at the moment it
\* commits, though it reads the accounts, the keys and the external ids once and other
\* batches commit in between.  It answers success to the same requests, and an error as
\* of the moment it has read; a repetition of a key that was refused earlier in the
\* batch is refused with it.  A batch that writes nothing reports nothing as done: an
\* atomic one with an error, or one that has lost every race for a key or an external
\* id (applyRequests, resolveRequest, runRequests).
BatchIsSerial ==
    [][\A g \in Groups :
        LET answers == task'[g].answers
            now     == OneByOne(g, books)
            read    == OneByOne(g, task[g].seen)
            good(s) == {p \in Places(g) : s[p] \in Succeeded}
        IN  task[g].step = "write" /\ task'[g].step = "done" =>
                IF \A p \in Places(g) : answers[p] = "failed" THEN books' = books
                ELSE IF GroupOf[g].kind = "atomic" /\ Errs(read.answers, g) # {}
                THEN books' = books /\ good(answers) = {}
                ELSE /\ books' = now.books
                     /\ answers = read.answers
                     /\ good(answers) = good(now.answers)]_batchVars
===============================================================================
