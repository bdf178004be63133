# A verification of astrum

astrum is a double-entry ledger service: a Go process (`cmd/astrum`) that keeps
accounts, transactions and holds in PostgreSQL, answers an HTTP API, and delivers
events to webhooks. Several instances may run on one database. This directory has
TLA+ modules that model its core, TLC configurations that check them on small
instances, and theorems that TLAPS checks for every value of the constants.

`PROJECT.json` lists the components, the runs, the lines each definition
translates, the hazards the properties are aimed at, and the theorems.

## 1. The system

Paths are relative to `src/`; `ledger/` is `internal/modules/ledger/` and
`kernel/` is `internal/kernel/`.

| Component | State | Operations | What is hard about it | What makes it correct |
|---|---|---|---|---|
| Ledger core: `ledger/state.go`, `service.go`, `pending.go`, `holds.go` | accounts (status, posted and pending totals, held), transactions (pending, posted, archived, reversals), holds | create, freeze and close accounts; post, edit, post a pending one, archive, reverse; hold, capture, void, expire | many operations on shared balances, in any order, with limits on amounts | totals are the sums of entries; debits equal credits; no account below its floor; what is resolved stays so; what is pending can be released |
| Posting engine: `ledger/batcher.go`, `kernel/db/tx.go` | a queue, workers with a batch each, result channels | submit, collect, post a group in one transaction, post one by one, drain at shutdown | cancelled callers, lost commit acknowledgements, unique-key conflicts with other instances, shutdown | an answer tells the truth, a key is posted once, every call returns |
| Batches: `ledger/engine.go`, `service.go` | accounts, keys and external ids in memory for one transaction | resolve requests one after another, all or nothing if asked | everything is read once; keys and external ids repeat, within a batch and across instances | a batch does what its requests would, one at a time |
| Period close: `ledger/ledgers.go`, `migrations/0012` | `closed_before` of a ledger | close or reopen, wait for older transactions | no row lock between the close and a posting | nothing lands in a period that is confirmed closed |
| Seal chain: `ledger/seal.go` | `ledger_seals`, the highest seq an instance has seen | seal a batch | rows become visible out of the order of their ids; several instances; restarts | no gap, linked, every posted transaction is sealed, no false alarm |
| Event feed: `kernel/events/events.go`, `dispatch.go`, `retention.go` | events, a cursor, deliveries | publish, dispatch, prune | as for the seal chain; endpoints change meanwhile | no event is missed, each becomes one delivery per subscriber |
| Webhook delivery: `kernel/events/dispatch.go`, `resources.go` | status, attempts and due time of a delivery; claims in memory | claim under a lease, send, record, retry on request | leases that lapse, crashes after the send | success is final, a delivery is given up only after its attempts, each is settled |
| Idempotency middleware: `kernel/idempotency` | one row per key: claim token, stored answer | claim, take over, finish, prune | a takeover while the first handler runs, claims left behind | one handler at a time, one outcome per key, everyone is answered |
| Bulk requests: `ledger/bulk.go` | counters, results and lease of a bulk request | create, process a chunk | a chunk is posted and recorded in two transactions, under a lease that lapses | each item once, the counts agree, results agree with the journal |
| Schedules: `ledger/schedules.go` | schedules and their status | schedule, cancel, execute | cancel against execute, on several instances | the status tells whether the transaction exists, and stays |
| Settlements: `ledger/settlements.go` | settlements, marked entries | create, settle, post | entries and other settlements that commit meanwhile, calls with one key at the same time | an entry is settled once, a settlement nets to zero, a key settles once |
| Categories: `ledger/categories.go` | a graph of categories and members | create, delete, add and remove members and children, roll up balances | concurrent changes | acyclic, bounded depth, each account counted once |
| Monitors: `ledger/monitors.go`, `state.go` | conditions on balances | create, delete, crossings while posting | crossings within a batch, monitors created under it | one event per crossing |
| Details: `ledger/ledgers.go` and others | names and metadata | merge a patch | patches at the same time, and repeated ones | no update is lost |
| History: `ledger/history.go`, `store_history.go` | statements | balances at a time, statements, entries of a statement | rows that commit late, also backdated ones | a statement stays true of its entries |
| API keys: `kernel/auth` | keys, a cache per instance | create, authenticate, revoke | a stale cache, revocations at the same time | a revoked key stops working; an admin key remains |
| Rate limiter: `kernel/ratelimit` | one token bucket per key | allow | times out of order, rounding | burst and rate are kept, the wait it tells is enough |
| Money: `internal/money` | none | parse, format, arithmetic on 128 bits | boundaries | exact, round trips, overflow is refused |
| Migrations: `kernel/db/migrate.go` | `schema_migrations` | apply the scripts of a release | several releases start at once, and stop half way | each script runs once, an instance that is up has its own |
| HTTP layer, configuration, commands, benchmarks, web interface | none of their own | | | |

How they interact. HTTP handlers call the service of `ledger`, whose operations are
one database transaction each; single postings go through the batcher. Each
transaction writes its events with its effects (`events.Insert`). In the background
every instance runs a sealer, a sweep (expired holds, due schedules, bulk requests) and
the dispatcher and sender of events. Instances share nothing but the database, and
synchronise by row locks, unique keys, advisory locks and transaction ids.

## 2. The modules

| Module | Models | Used by |
|---|---|---|
| `Sums`, `SumsTheorems` | sums over finite sets, the facts proofs need of them, and the least element of a set of numbers | `LedgerCore`, `AccountHistory`, proofs |
| `LedgerCore`, `MCLedgerCore`, `LedgerCoreProofs` | the ledger core | |
| `PostingService` | abstract: what posting promises a caller | refined by `Batcher` |
| `Batcher`, `MCBatcher`, `BatcherProofs` | the posting engine | |
| `PeriodClose`, `MCPeriodClose` | period close | `Snapshots` |
| `CommitOrder` | rows with transaction ids, and what a reader below `pg_snapshot_xmin` sees | `SealChain`, `EventDispatch` |
| `SealChain` | the seal chain | `Snapshots` |
| `Snapshots`, `SnapshotsProofs` | both in one specification, a behaviour of which follows one of them | |
| `DeliveryStatus` | abstract: the life of a delivery | `EventDispatch` (its steps), refined by `Deliveries` |
| `EventDispatch`, `MCEventDispatch`, `EventDispatchProofs` | the event feed | |
| `Deliveries` | webhook delivery | `Kernel` |
| `KeyedJournal` | the journal as background jobs see it: posting under keys | `Bulk`, `Schedules` |
| `Bulk`, `Schedules` | bulk requests, scheduled transactions | `Jobs` |
| `Jobs`, `MCJobs`, `JobsProofs` | both jobs and clients over one journal | |
| `Idempotency` | the idempotency middleware | `Kernel` |
| `RateLimit` | the rate limiter | `Kernel` |
| `Migrations` | migrations of the schema | `Kernel` |
| `Kernel`, `MCKernel`, `KernelProofs` | these and `Deliveries` in one specification, a behaviour of which follows one of them | |
| `AccountHistory` | the entries of the ledger as reports read them, posted by transactions that lock their accounts | `Settlements`, `Statements` |
| `Settlements`, `Statements` | settlements, account statements | `Services` |
| `Categories` | categories of accounts | `Services` |
| `ApiKeys` | API keys, their cache and their revocation | `Services` |
| `BatchPosting` | several requests in one transaction | `Monitors` |
| `Monitors`, `MCMonitors` | balance monitors beside batches | `Services` |
| `Details` | PATCH of names and metadata | `Services` |
| `Money` | amounts | `Services` |
| `Services`, `MCServices`, `ServicesProofs` | the seven from `Settlements` on in one specification, a behaviour of which follows one of them | |

### LedgerCore

An action is one database transaction of the service: `CreateAccount`,
`SetAccountStatus`, `Post`, `PostArchived`, `UpdatePending`, `PostPending`,
`ArchiveTransaction`, `Reverse`, `CreateHold`, `CaptureHold`, `VoidHold` and
`ExpireHolds`, the sweep. Every one of them locks the rows it reads with `FOR UPDATE`, so
that the committed ones are atomic; a refused call rolls back and is a stuttering
step. `Transition` is the change to accounts that all of them share (`apply` in
`state.go`): what an entry moves from pending to posted, what a hold releases, the
check of amounts against `MaxAmount`, of account status, and of the floor
(`AllowNegative`, `OverdraftLimit`). The entries of a transaction are the amount
moved on each side of each account; their order and their split into lines are
presentation. A key names its transaction, since it is unique.

### Batcher and PostingService

The channel `queue` is a sequence bounded by `QueueSize`; `done` are the result
channels; a worker has a program counter for the steps of `work`, `collect`,
`flush`, `commit` and `drain`. A database transaction is the steps `Read` (the
locks and the keys already posted), and `Commit`, `Conflict` (a unique key that another
transaction took), `Transient` (to be tried again by `RunTx`), `Fail` or `LostAck` (committed,
but the caller sees an error). What the ledger says to a new key is a free choice, as
`LedgerCore` decides that. `PostingService` has the journal and the answers
only; the refinement mapping is the identity on both.

### BatchPosting and Monitors

A batch is a group that a worker has collected, or a call of `postBatch`, atomic or not. Its
transaction reads accounts and keys (`ReadRows`, one step since the accounts stay locked from then on),
then the external ids (`ReadExternals`), and `Resolved` is the loop over the requests: a key that is
known, a key met earlier in the batch, an external id, the reasons to refuse that do not depend on
balances (an input, `refused`), lock versions and balance conditions, with
`archive_on_lock_failure`, and the funds. A commit is refused by the unique indexes
when another batch was faster, and `RunTx` begins again. `BatchIsSerial` compares each commit with
`OneByOne`, which posts the requests in transactions of their own; both are recursive functions over the places
of the batch (`Resolving`, `Posting`). A request whose key was refused earlier in the batch is refused with it
(`RefusedBefore`); one that follows a conflict is not, as the key has its transaction. Batches on the same
accounts lock each other out; those on different ones race for keys and external ids. Requests of one key and body
name the same accounts (`BatchAssumption`; `sameContent` compares them), so two batches at work at once never
hold the same request.

`Monitors` adds the monitors a transaction selects once its accounts are locked, and the
events it writes with its balances. `createMonitor` is the read of the balance, without a lock,
and the insert, whose foreign key waits for the lock on the account.

### PeriodClose

A posting takes its transaction id with its account locks, and reads `closed_before`
there and again in the trigger; a request to close updates the row in a transaction of its own
and waits until `pg_snapshot_xmin` is above its id. One ledger, one period; requests
close it or reopen it.

### CommitOrder, SealChain, EventDispatch

`CommitOrder` has the transaction ids of the database, rows that become visible when their
transaction commits, and `Visible`, the rows below the snapshot's xmin. `SealChain`
adds the advisory lock, `loadHead`, the batch, the hash links and the
highest seq an instance keeps in memory, with aborts, lost acknowledgements and
restarts. `EventDispatch` adds endpoints that are updated, disabled and deleted
under the dispatcher, the cursor row whose lock serialises `Dispatch`, the
foreign key that makes an insert fail, and the two statements of `Prune`.

### Deliveries

A lease is only a later `next_attempt_at`; time is the action `FallsDue`, which
may happen while a claim waits for one of the eight workers or sends. `Send`
meets the endpoint, `Record` writes the outcome with the attempt count read at
the claim, as the code does without a condition (so that two instances that hold one delivery write
the same number). Crashes, lost updates, retries on
request and changes of the endpoint are bounded by named constants.

### KeyedJournal, Bulk, Schedules, Jobs

`KeyedJournal` has `applyRequests` as its callers see it: a set of requests is posted in one step,
a request whose key is taken is replayed if the body is the same and refused otherwise, and the
ledger may refuse any other. `Bulk` has one worker per instance, with the steps of
`processBulk` (`ClaimBulk`, `PostChunk`, `RecordChunk`); the lease lapses at any time, also
under a worker that goes on, and every step may fail or lose the answer to its commit.
`Schedules` has the transaction of `executeDue` in two steps, between which its rows are
locked; `CancelSchedule` waits for them. `Jobs` runs both with a client that posts under
a key of theirs.

What the model shows of a bulk request that two workers have worked on at once, because posting
a chunk took longer than the lease: an item may be recorded as failed, with the refusal
the first worker was given, and be posted by the other one after all. `ResultsAreTrue`
excuses exactly these requests (`overtaken`); it does not hold without the excuse. No
document of the repository says otherwise.

### Idempotency

A call goes through `claim`, the handler and `finish`, or through `resolveExisting`; each
statement on the row of its key is a step. Errors of the database, before or after the
statement has committed, server errors and stopped instances are bounded by `MaxFaults`. The
lock's timeout and the retention are actions. A client repeats its call with a new token
when the answer was no final one. History variables name the two ways in which a
handler may run a second time, `excused`: a claim that was taken over, a row that was pruned.

### RateLimit and Migrations

A request takes its time (`TakeTime`) before it takes the mutex (`Admit`, `Deny`), so that
the bucket may be ahead of it. Tokens are counted in parts, `TicksPerSecond` of them, which makes the refill
exact where the code has `float64`; a duration that is cut to whole ticks, and a header that is rounded up to
whole seconds, are as in the code. `AdmitsWithinRate` counts from the moment the first request came: a bucket that is
made by a request that had to wait gives that time away, and a count from the moment of
its admission would not hold.

An instance holds the advisory lock from its first script to its last. A script and its row are one
transaction and one step; an instance may stop before or after it. Releases
may have other scripts, or another text of the same script, which is refused.

### AccountHistory, Settlements, Statements

`AccountHistory` has the posting of clients as an input: a transaction locks its accounts,
writes its entries, and commits or is rolled back. `Settlements` runs calls of
`createSettlement` against it, each a transaction in steps: the lookup of the key
(`BeginSettlement`, `ReplaySettlement`), the locks and the sum (`SumUnsettled`), the posting, the row
and the marks (`WriteSettlement`), the commit. Entries that are posted with an earlier effective time
than the settlement's bound, or by another settlement, come in between wherever the locks
allow. A unique key that is taken, and any other error, rolls back and is retried up to
`MaxAttempts`. `Statements` numbers the transactions: `TakeBound` reads the snapshot's xmin,
`ReadOpening` and `ReadPeriod` are two statements with a snapshot each. `StatementsStayTrue`
compares what the statement has stored with what its entries give in every later state.

### Categories

A change is three steps: the category is found (`FindCategory`), the row of its ledger locked
(`LockLedger`), and then it is read again, checked (`Check`) and applied (`Apply`). `Up` and `Down` have the rows of the
recursive query of `setChild` with its bound on depth. `GraphIsSound` does not refer to them: it asks for
levels. `RollUp` counts the accounts of `Tree`; the reference in `RollUpCountsOnce` is the intersection of
all sets closed under nesting.

### ApiKeys

`Authenticate` is a lookup, a read of the database and a store into the cache, with the time it took at its
start; `Revoke` is the wait for the advisory lock, the decision, the commit and the removal from the cache of
its own instance. `now()` in the query for other admins is the start of the revoking transaction:
an admin key that expires while the revocation waits for the lock still counts as the one
that remains. `LastAdminStays` says exactly this.

### Details and Money

A patch is merged into the row that was read for update: `MergePatch` is `mergePatch` on objects
of objects, with members that are set, replaced, extended and removed. The reference in
`NoUpdateLost` is the history of patches: each member is what the last patch that speaks of it says. An
attempt may fail, and a patch be sent again after the answer to its commit was lost.

An `Amount` is two words, here of `WordBits` bits each, and its text has two halves of `HalfDigits` digits in
some `Radix`. `MoneyAssumption` states how the three depend on each other in the code (a half fits a word, one digit more
does not, the greatest amount fits two words with a sign), and 4 bits with two digits of radix 3 satisfy it;
`PowerAssumption` names what follows for any powers and the prover cannot know (a word is even, the powers multiply). All
pairs of amounts are enumerated.

## 3. The runs

| Run | Instance | Shows |
|---|---|---|
| `ledger_core` | 3 accounts in 2 ledgers, 3 transactions, 2 holds, amounts at and around the largest one | all the integrity checks, `PendingReleasable` (a pending transaction can always be archived, holds voided or expired), and that resolved things are final |
| `batcher` | 3 callers of one key, one of them with another body, 2 workers, queue of 1, batches of 2, 2 attempts | every answer is true, and a key is posted once (`Implements`) |
| `batcher_live` | 2 callers of different keys that share an account, 2 workers | every call returns, shutdown ends, what is queued is served rather than told that the service stopped |
| `period_close_once` | a posting, one request | *violation*: section 6 |
| `snapshots` | seals: 3 transactions, 2 sealers, batches of 2, a restart. Periods: a posting, three requests | no gap, in order, linked, no false alarm, everything is sealed in the end; nothing lands after a repeated request confirms the close, and the wait ends |
| `event_dispatch` | 2 events, 2 endpoints, 2 instances, one change of an endpoint | no event is missed, deliveries have their event, and every event reaches each endpoint that stays subscribed, though the deletion of another endpoint makes `Dispatch` fail |
| `event_prune` | 1 event, 1 endpoint | *violation*: section 6 |
| `jobs` | a bulk request of 3 items in chunks of 2, a schedule and a client that use the key of one item for another body, 2 workers, 2 sweepers | counts, results and status agree with the journal, completion is announced once, what is resolved stays, every job ends |
| `kernel` | calls: 2 with one request, whose answer is a secret, 1 with another one, one key, 3 faults. Deliveries: 1 delivery, 2 instances, 3 attempts, 2 losses, a retry on request, 2 changes of the endpoint. Rates: 3 requests with a key and 1 without, 5 ticks of a third of a second, one token a second. Migrations: 3 releases, 2 stops | one handler at a time and one outcome unless a claim is taken over or pruned, every repeated call is answered; success is final, failure is earned, a pending delivery of an enabled endpoint is settled; burst and rate are kept and the wait is enough; no script runs twice |
| `services` | settlements: 2 posts, 4 calls of which 3 have one key and one of these other accounts, 2 attempts. Statements: 2 posts, 2 statements. Categories: 4 in 2 ledgers, 2 accounts, 2 callers, 3 changes, depth 2. Keys: 2 admins of which one expires, 2 instances, 2 requests, 1 revocation at a time on each. Batches: 4 of up to seven requests on four accounts, one of them atomic, a monitor. Details: 2 calls, 6 patches, 2 attempts. Money: all pairs of amounts | settlements net to zero and cover each entry once, statements stay true, the graph is sound and counts once, a revoked key is refused after the cache window, an admin remains; a batch does what its requests would one by one, a monitor hears of each crossing once; no update is lost; amounts are exact |
| `monitors_quiet` | the batches and the monitor of `services` | *violation*: section 6 |
| `money_overflow` | the amounts of `services` | *violation*: section 6 |

Why the bounds are enough. Two instances or workers are the fewest that race; three rows
are the fewest for which a row may commit late behind a head that has moved past
another, with one more to come; a batch of two is the fewest that is not a
single. Three transactions allow a posting, its reversal and the reversal of that. The
queue of one makes callers wait at its limit. One delivery is enough because every
statement works on the row of one delivery: others only keep an instance from
claiming for a while. The parts of `Services`, `Kernel` and `Snapshots` write nothing that another
part reads, so that a behaviour follows one of them; a cycle takes two categories, an account that would be
counted twice takes three changes, and a key that is cached late takes a clock of two cache
windows. Two patches that each change a part of what the other has changed are the fewest that lose one. The
requests of the batches have every verdict of `Judge` between them, and a limit that is crossed in the middle of a
batch. Type invariants are proved for the modules that have proofs. Faults are bounded (`MaxCrashes`,
`MaxFaults`, `MaxLosses`, `MaxStops`, `MaxTries`, `MaxUpdates`, `MaxRequests`, `MaxToggles`) because each
of them returns to a state like an earlier one; the proved modules do not depend on
their value. Symmetry is used in `ledger_core`, for keys, and in `services`, for calls, categories
of one kind and callers that are alike; both check safety and action properties only. Deadlock is not checked where the bounded system really ends: no
more requests, rows or keys.

Fairness. Goroutines that are able to run do run (weak fairness of the steps of a
worker, a sealer, a dispatcher); a database transaction ends (weak fairness of its
end: statements and idle transactions have timeouts). A step that waits for a lock, or may
fail and is tried again from a ticker, has strong fairness: the instance tries again for
ever, and PostgreSQL grants locks in order. Nothing is assumed of clients, not
that they cancel, retry or stop, with one exception: `CallsAreAnswered` is about
clients that repeat their call as the answers tell them to. The fairness of `Kernel` and
`Snapshots` is that of the part a behaviour follows.

## 4. The proofs

All theorems are checked by TLAPS down to the last leaf, for every value of the
constants that the named assumptions of the modules allow.

* **`LedgerCoreProofs`** assumes `CoreAssumption` (finite sets of accounts and keys, and
  the types of the constants). Its inductive invariant is `Integrity`: types, `PostedTotals`,
  `PendingTotals`, `TrialBalance`, `FundsFloor`, `ClosedEmpty` and `HeldFunds`. None of them is
  inductive alone: what a transaction or a hold gives back is covered by the totals
  only if the totals are the sums of what is pending. Every action is reduced to
  `Transition` and one lemma per conjunct; sums change at one key only
  (`SumsTheorems`). `TotalsAreSums` collects the three that `verify.go` compares, and
  `LedgerVerifies` adds the trial balance; `AccountsAreSound` is `FundsFloor` and `ClosedEmpty`. `Links` is the invariant for
  reversals and captures, `LinksAreTrue` what it shows.
  `ResolvedIsFinal` and `NotOpenOnlyDrains` are proved as action properties. `PendingReleasable` says that the checks of
  `Transition` and `Release` (`Allowed`, `Releasable`), which are all that stands between something pending and
  its release, accept it: the totals contain it, funds only rise, and the sum that the check of funds computes does not
  overflow because it did not before (`OutgoingFits`, an invariant of its own).
* **`BatcherProofs`** proves that `Batcher` implements `PostingService`, for any requests, keys, bodies, accounts and
  workers and any sizes of the queue, a batch and `RunTx`, from `BatcherAssumption`; and `QueuedIsServed`, for which a
  formula is found that holds of a request queued before shutdown and that every step keeps (`Served`). The inductive
  invariant: a request is once in the queue or once with one worker (`OnePlace`), also while a failed group is posted one by one;
  which round a worker is in says what it has (`Rounds`); a call that waits is in flight or has its result, and one in flight
  has not returned unless it was cancelled (`CallsKept`), so that what is posted late is never a call that was refused; what is
  still in the queue was not posted (`UntakenUnposted`), which is what ErrStopped says; and what a transaction has read, and every answer
  on its way, is true and stays so, since keys are written once (`AnswersTrue`). Every action of a worker is reduced to one
  description of what a worker may do (`Moves`). `Live`, the loop that leaves out requests whose context is done, is a
  recursive function over the positions of the batch, and what it computes is an argument about a least counterexample.
* **`SnapshotsProofs`** has the seal chain, period close, and their composition.
  * Period close: `NothingLandsOnceRepeated` for any number of postings and
    requests. The invariant says that the row lock is exclusive (`RowLock`), that the
    requests committed since the last change agree with `closed` (`KeptAgree`), that what was
    inserted before the close is older than each request that came after
    (`InsertedIsOlder`), and that none is left once such a request has responded
    (`NothingInserted`).
  * The seal chain: `SealedIsPrefix` (`NoneSkipped` and `SealedInOrder`), and `ChainIsTrusted`
    (`ChainVerifies` and `NeverRewound`) for any number of rows, sealers and crashes. The strengthening: ids in use are below
    `nextXid` (`XidBound`), what is sealed is visible and so nothing in progress is older
    (`SealedVisible`), one sealer holds the lock (`OneSeals`) and its head is the last
    row (`HeadSeen`), and what it has chosen is the next rows after the head (`ChosenNext`).
  * `StepOfEach` says that a step of the composition is a step of one and leaves the other alone; `ChainIsSound` and
    `PeriodIsSettled` state the results for the specification that TLC runs.
* **`EventDispatchProofs`** proves `NoneMissed` and `DeliveriesBacked` for any events, endpoints, instances and
  batch sizes. The strengthening: the event at the cursor is older than everything in progress
  (`CursorVisible`), so that nothing commits below it; one instance dispatches (`Lock`) and its batch is what comes next
  (`BatchNext`); what it is going to insert covers every endpoint that is owed an event of the batch
  (`TargetsCover`); and only what was dispatched is deleted (`PrunedDispatched`).
* **`KernelProofs`** is about the composition: `StepOfEach` says that one of its steps is a step of one service and
  leaves the others alone, so that each has an invariant of its own.
  * Calls: `RunsAlone` (`Exclusive` and `RunsOnce`) and `AnswersAgree` for any calls and keys, from
    `CallsAssumption`. The strengthening: a row carries the key and hash of its owner (`OwnerClaims`), after a
    run the row stays until it is excused, with its call or with nobody (`RanHoldsRow`), a
    call that ran does not come back (`RanIsFinal`), and outcomes come from a run (`OutcomesRan`). `CallsAreSound`
    states both for the composition.
  * Deliveries: `OutcomesEarned`, because the number a claim carries is of attempts that were made
    (`ClaimsEarned`), and the refinement of `DeliveryStatus` (`Implements`), step by step.
  * Migrations: `MigratedOnce`. A script that has run has its row, with its checksum (`ScriptsRecorded`,
    `ScriptsOnce`), a row comes from a script or from before there were checksums (`RowsBacked`), and what an instance has
    passed agrees with its release (`FilesBehind`). `MigrationsAssumption` has only the types of the releases.
  * Rates: `AdmitsWithinRate` and the action property `RetryAfterSuffices`, for any rate, burst and resolution of
    the clock. The strengthening is the account of tokens (`Spent`): what the requests since any one of
    them have taken, and what is left, is at most the burst and the refill since; the refill is a product of two variables, so
    each inequality is a step of its own.
* **`ServicesProofs`** does the same for the composition of the services.
  * API keys: `RevokedIsRefused` needs that a row read before a revocation was asked for before it too (`ReadHonest`) and
    that no entry hides a revocation for longer than the window (`CacheHonest`); the action property `LastAdminStays` needs
    that one revocation at a time has decided (`OneDecides`) and that the other admin it counted stays (`AdminLeft`).
  * Statements: `StatementsStayTrue`. Whatever is in progress, or begins, is not below the bound of a statement
    (`BoundsHold`), so that both sets of entries it has summed stay what they are (`TotalsHold`).
  * Settlements: `SettledNetsToZero` and `KeySettlesOnce`. While accounts are locked, what was summed is what is there
    (`SumIsFresh`); only entries in force are marked, and once (`MarksInForce`, `MarksDisjoint`); the unique
    index keeps one settlement per key (`KeyOnce`). Both this and the statements rest on `HistoryInv`, the
    row locks of accounts.
  * Categories: `GraphIsSound` and `RollUpCountsOnce`, from `CategoriesAssumption` (finitely many categories). The invariant
    has a function of levels that falls along every edge (`Levels`), which replaces acyclicity and depth by something that
    one new edge preserves; what a call has checked holds up to its write, since the ledger is locked (`Ready`,
    `LedgerHeld`). That the walks of the recursive query compute the least closed set is an induction on their length.
  * Details: `NoUpdateLost`. Its reference looks at the whole history for the last patch that speaks of a member, the
    code merges one patch at a time; the lemmas show how one more patch changes the reference, member by member and, for an
    object inside an object, part by part. The strengthening is that whoever has locked the row has read what is there
    (`LockedReads`).
  * Batches: the action property `BatchIsSerial`, from `BatchAssumption`, for batches of any length, atomic or not. First the
    loop of `applyRequests` is matched with the requests posted one at a time on the same books (`Matched`,
    `ResolvedIs`), then that with the same requests posted on what is there at the commit (`Agree`, `RunsAgree`): both runs
    give each request the same answer or an error each, and change the locked accounts alike. What one run leaves is
    `Traced`. The invariant, `BatchInv`: no account is locked twice (`LocksApart`); what a batch has read is still there but
    for keys and external ids used since, and the transaction of such a key has another body (`Current`,
    `ReadsCurrent`); an external id belongs to a key with a transaction (`OwnersHave`), which is why one that is taken by a request
    of the same key is refused either way.
  * Monitors: the action property `AlertsAreCrossings`. A batch that has its locks watches the live monitors of its
    accounts (`WatchesLive`), since an insert waits for the locks, and the balances it has read are those that are committed.
  * Amounts: `ArithmeticIsExact`, the first part of `AmountsAreExact`, and that amounts become integers and integers
    amounts without an error (`NumericsAreExact`), from `MoneyAssumption` and `PowerAssumption`. A number is a high part with a
    sign times the word, and a low part (`PartsOf`); the sum of two pairs of words is that of the numbers, off by a multiple of
    the square of the word (`RawSumIs`), and when it is off the signs tell (`AddIs`). The only exception is the least number
    of two words, of the finding of section 6.
* **`JobsProofs`** proves `ReportIsTrue` and the action property `StatusIsFinal` for any bulk requests, schedules,
  clients and workers, from `BulkAssumption` and `JobsAssumption` (items, schedules and calls are different
  requests; their keys and bodies may be the same). The strengthening: what a worker is about to record as succeeded is posted
  (`WorkIsPosted`), a worker that was not overtaken is alone and where the request is (`AloneAndCurrent`), so that what
  it is about to record as failed is not posted (`RefusedIsNotPosted`); a schedule locked by a sweep is scheduled, and
  no other sweep has it (`LocksHold`).
* **`SumsTheorems`** proves what a sum over a finite set does when one value or
  one element changes, from the theorems on finite sets of the library, and `LeastNatural`: a nonempty set of
  numbers has a least element. Inductions over numbers are arguments about a least counterexample, by this theorem, where
  the recursion is over numbers: `Repeats` of `ServicesProofs` shows in this way that a recursive function
  has the values its equation says. `Climb` is the induction itself, for a set of numbers.

The invariants were checked by TLC on the instances of the runs before they were proved.

The proof of `BatchIsSerial` found its reference wrong for a batch in which a request in conflict is followed by another of its key;
the batches of the run have such a case since.

Only model-checked: liveness (out of the prover's reach), and the second part of `AmountsAreExact`: text and scaled numerics are
written and read digit by digit, so that each digit is an induction over powers of the radix.

## 5. What is left out

* `LedgerCore`: the details and metadata of things (`Details`), external ids and account versions
  (`BatchPosting`), the order of entries (and with it an overflow of a running total that a later entry would
  undo). Lock versions and balance conditions appear by their outcome, `PostArchived`;
  the period of a posting is in `PeriodClose`.
* `Batcher`: the death of the process (the callers go with it), and the
  ledger's own reasons to refuse (`BatchPosting`).
* `BatchPosting`: pending requests, holds and reversals, and accounts that are missing: `LedgerCore` has what
  they do to an account. Failures of the database other than a lost race are in `Batcher`. A balance
  condition is a lower bound.
* `Monitors`: conditions on pending and available balances, which are one more comparison each; the lists.
* `RateLimit`: one key, since keys have a bucket each; errors of `float64`, of the order of 10^-16 of the bucket.
* `Details`: objects nested more than two deep; the limit on bytes is a limit on members; the events of an account
  that is updated. The PATCH of a transaction is the same merge; what it does to entries is in `LedgerCore`.
* `Migrations`: one module of the service, since the modules are migrated one after another; an instance whose lock is
  lost with its connection while its process goes on fails at its next statement, as it stops here.
* `Money`: currencies and their codes, binary encoding.
* `SealChain`: `CheckSealKey`, older encodings, a key that does not match.
* `Jobs`: one bulk request and one schedule in the run. The order of `execute_at` decides which
  schedules a full batch takes; the module leaves the choice open.
* `Idempotency`: requests without a key, or with a malformed one, never reach the table.
* `Settlements`: accounts that are missing, or of different ledgers or currencies, are refused before
  anything is done. `Statements`: `balancesAt`, and the other filters of `listEntries`.
  `Categories`: balances within a range of time. `ApiKeys`: tokens and hashes, what a role may do, `last_used_at`.
* `Deliveries`: signatures, the refusal of private addresses, response bodies.
* Creation of ledgers and currencies: one insert each.
* HTTP decoding and rendering, configuration, benchmarks, the web interface: no
  state that the properties are about.

## 6. Where the code and its documents differ

* `period_close_once`: `docs/api.md` says that nothing can land in a period once the
  request that closes it has responded. The request waits for ids older than its own, which it
  takes before its update is visible; a posting that takes its id in between passes both
  checks and may commit after the response. A second request closes the gap, which is what
  `NothingLandsOnceRepeated` says and what is proved.
* `event_prune`: events are said to be deleted once no delivery remains pending. A retry
  requested between the two statements of `Prune` is deleted unattempted.
* `monitors_quiet`: the answer to the creation of a monitor is said to tell whether the condition
  currently holds. The balance is read before the insert, which may wait for a posting that changes it: the
  monitor is created as not triggered with its condition true, and no event tells of it.
* `money_overflow`: a sum of two negative amounts that is exactly -2^127 has 39 digits and is not refused,
  because its absolute value is itself, negative, and so not above the greatest amount. `AmountsAreExact` holds for every
  other sum.

## 7. The plan

1. *Done*: the ledger core; the posting engine and its abstract specification, batches and monitors;
   period close, the seal chain; the event feed, webhook delivery, the background jobs; the
   idempotency middleware; settlements, statements, categories, API keys, details, amounts, the rate
   limiter and migrations; and the proofs of section 4.
2. *Not worth a module*: what section 5 lists.
