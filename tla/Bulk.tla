--------------------------------- MODULE Bulk ---------------------------------
(***************************************************************************)
(* Bulk requests (internal/modules/ledger/bulk.go): a worker of every      *)
(* instance claims a request under a lease and works through its items in  *)
(* chunks.  A chunk is posted in one database transaction and recorded in  *)
(* another one; a worker whose lease has lapsed goes on, and the           *)
(* compare-and-set of processed decides whose record counts.               *)
(***************************************************************************)
EXTENDS KeyedJournal, Integers, FiniteSets

CONSTANTS
    Bulks,      \* bulk requests
    NoBulk,     \* what an idle worker works on
    Total,      \* bulk request -> number of its items
    ItemOf,     \* bulk request -> index -> the request of the item
    Instances,  \* instances of the service, each with one worker in processBulks
    Chunk       \* items of one chunk

ASSUME BulkAssumption ==
    /\ NoBulk \notin Bulks
    /\ Total \in [Bulks -> Nat \ {0}]
    /\ \A b \in Bulks : ItemOf[b] \in [0 .. Total[b] - 1 -> Requests]
    /\ \A b \in Bulks : \A i, j \in 0 .. Total[b] - 1 : KeyOf[ItemOf[b][i]] = KeyOf[ItemOf[b][j]] => i = j
    /\ \A b, c \in Bulks : \A i \in 0 .. Total[b] - 1, j \in 0 .. Total[c] - 1 : ItemOf[b][i] = ItemOf[c][j] => b = c
    /\ Chunk \in Nat \ {0}

VARIABLES
    bulk,       \* ledger_bulk_requests: [status, processed, succeeded, failed, lapsed]
    result,     \* ledger_bulk_items: index -> "pending", "succeeded" or "failed"
    work,       \* instance -> [bulk, at, phase, ok]
    announced,  \* bulk request -> events bulk_request.completed that were written
    overtaken   \* history: bulk requests that two workers have worked on at once

bulkVars == <<bulk, result, work, announced, overtaken>>

Idle == [bulk |-> NoBulk, at |-> 0, phase |-> "idle", ok |-> {}]

Items(b) == 0 .. Total[b] - 1

\* The next chunk of a bulk request of which n items are processed.
ChunkFrom(b, n) == {i \in Items(b) : n <= i /\ i < n + Chunk}

\* What is processed after it: processed + len(results).
NextAfter(b, n) == n + Cardinality(ChunkFrom(b, n))

\* The requests of the chunk that instance w works on.
ChunkOf(w) == IF work[w] = Idle THEN {} ELSE {ItemOf[work[w].bulk][i] : i \in ChunkFrom(work[w].bulk, work[w].at)}

BulkInit ==
    /\ bulk = [b \in Bulks |-> [status |-> "absent", processed |-> 0, succeeded |-> 0, failed |-> 0, lapsed |-> FALSE]]
    /\ result = [b \in Bulks |-> [i \in Items(b) |-> "pending"]]
    /\ work = [w \in Instances |-> Idle]
    /\ announced = [b \in Bulks |-> 0]
    /\ overtaken = {}

\* createBulk; the key of a bulk request is UNIQUE and a repeated call is replayed.
CreateBulk(b) ==
    /\ bulk[b].status = "absent"
    /\ bulk' = [bulk EXCEPT ![b].status = "pending"]
    /\ UNCHANGED <<journal, result, work, announced, overtaken>>

\* Mutant: a request that was started is left to whoever started it.
ClaimablePending(b) == bulk[b].status = "pending"

Claimable(b) == bulk[b].status = "pending" \/ (bulk[b].status = "processing" /\ bulk[b].lapsed)

\* processBulk.
ClaimBulk(w, b) ==
    /\ work[w] = Idle
    /\ Claimable(b)
    /\ bulk' = [bulk EXCEPT ![b].status = "processing", ![b].lapsed = FALSE]
    /\ work' = [work EXCEPT ![w] = [bulk |-> b, at |-> bulk[b].processed, phase |-> "post", ok |-> {}]]
    /\ overtaken' = IF \E v \in Instances : work[v].bulk = b THEN overtaken \cup {b} ELSE overtaken
    /\ UNCHANGED <<journal, result, announced>>

\* lease_until passes.
LeaseLapses(b) ==
    /\ bulk[b].status = "processing" /\ ~bulk[b].lapsed
    /\ bulk' = [bulk EXCEPT ![b].lapsed = TRUE]
    /\ UNCHANGED <<journal, result, work, announced, overtaken>>

\* The first half of processChunk: postBatch.
PostChunk(w, bad) ==
    LET b     == work[w].bulk
        chunk == ChunkFrom(b, work[w].at)
    IN  /\ work[w].phase = "post"
        /\ journal' = After(ChunkOf(w), bad)
        /\ work' = [work EXCEPT ![w].phase = "record",
                                ![w].ok = {i \in chunk : Succeeds(ItemOf[b][i], bad)}]
        /\ UNCHANGED <<bulk, result, announced, overtaken>>

\* Mutant: the error is recorded for every item of the chunk.
PostChunkLostFailed(w, bad) ==
    /\ work[w].phase = "post"
    /\ journal' = After(ChunkOf(w), bad)
    /\ work' = [work EXCEPT ![w].phase = "record"]
    /\ UNCHANGED <<bulk, result, announced, overtaken>>

\* The answer to its commit is lost.
PostChunkLost(w, bad) ==
    /\ work[w].phase = "post"
    /\ journal' = After(ChunkOf(w), bad)
    /\ work' = [work EXCEPT ![w] = Idle]
    /\ UNCHANGED <<bulk, result, announced, overtaken>>

Completes(b, n) == n = Total[b]

\* The update of the second half, with the counts of this chunk.
Recorded(w) ==
    LET b     == work[w].bulk
        chunk == ChunkFrom(b, work[w].at)
        next  == NextAfter(b, work[w].at)
    IN  /\ bulk' = [bulk EXCEPT ![b] =
                       [status    |-> IF Completes(b, next) THEN "completed" ELSE @.status,
                        processed |-> next,
                        succeeded |-> @.succeeded + Cardinality(work[w].ok),
                        failed    |-> @.failed + Cardinality(chunk \ work[w].ok),
                        lapsed    |-> FALSE]]
        /\ result' = [result EXCEPT ![b] =
                         [i \in Items(b) |-> IF i \notin chunk THEN @[i]
                                             ELSE IF i \in work[w].ok THEN "succeeded" ELSE "failed"]]
        /\ announced' = IF Completes(b, next) THEN [announced EXCEPT ![b] = @ + 1] ELSE announced

\* Mutant: whatever is processed by now.
CurrentAlways(w) == TRUE

\* WHERE processed = $2
Current(w) == bulk[work[w].bulk].processed = work[w].at

\* Where the loop of processBulk goes on.
Onward(w) ==
    LET b    == work[w].bulk
        next == NextAfter(b, work[w].at)
    IN  IF Current(w) /\ next < Total[b]
        THEN [bulk |-> b, at |-> next, phase |-> "post", ok |-> {}]
        ELSE Idle

\* The second half of processChunk, and the loop of processBulk.
RecordChunk(w) ==
    /\ work[w].phase = "record"
    /\ IF Current(w) THEN Recorded(w) ELSE UNCHANGED <<bulk, result, announced>>
    /\ work' = [work EXCEPT ![w] = Onward(w)]
    /\ UNCHANGED <<journal, overtaken>>

\* The answer to its commit is lost.
RecordChunkLost(w) ==
    /\ work[w].phase = "record"
    /\ Current(w)
    /\ Recorded(w)
    /\ work' = [work EXCEPT ![w] = Idle]
    /\ UNCHANGED <<journal, overtaken>>

\* A transaction fails, or the instance stops.
DropBulk(w) ==
    /\ work[w] # Idle
    /\ work' = [work EXCEPT ![w] = Idle]
    /\ UNCHANGED <<journal, bulk, result, announced, overtaken>>

BulkStep ==
    \/ \E b \in Bulks : CreateBulk(b) \/ LeaseLapses(b)
    \/ \E w \in Instances : DropBulk(w) \/ RecordChunk(w) \/ RecordChunkLost(w) \/ \E b \in Bulks : ClaimBulk(w, b)
    \/ \E w \in Instances : \E bad \in SUBSET ChunkOf(w) : PostChunk(w, bad) \/ PostChunkLost(w, bad)

(***************************************************************************)
(* Time passes, the ticker of processBulks keeps every instance looking    *)
(* for work, and its transactions do not fail for ever.                    *)
(***************************************************************************)
BulkFairness ==
    /\ \A b \in Bulks : WF_<<journal, bulkVars>>(LeaseLapses(b))
    /\ \A w \in Instances : /\ SF_<<journal, bulkVars>>(\E b \in Bulks : ClaimBulk(w, b))
                            /\ SF_<<journal, bulkVars>>(\E bad \in SUBSET ChunkOf(w) : PostChunk(w, bad))
                            /\ SF_<<journal, bulkVars>>(RecordChunk(w))

-------------------------------------------------------------------------------
(***************************************************************************)
(* Properties.                                                             *)
(***************************************************************************)

\* The counts of a bulk request are those of its results, exactly the processed items
\* have one, and bulk_request.completed is written once, when all of them have.
Tallied(b) ==
    /\ bulk[b].succeeded = Cardinality({i \in Items(b) : result[b][i] = "succeeded"})
    /\ bulk[b].failed = Cardinality({i \in Items(b) : result[b][i] = "failed"})
    /\ \A i \in Items(b) : result[b][i] # "pending" <=> i < bulk[b].processed
    /\ announced[b] = IF bulk[b].processed = Total[b] THEN 1 ELSE 0

\* This is so however often a chunk is posted again or recorded late (processChunk: the
\* update of the request, that of the items, and the event).
CountsAgree == \A b \in Bulks : Tallied(b)

\* A succeeded item has its transaction.  A failed one was not posted for the bulk
\* request, unless two workers have worked on the request at once: then one may
\* record the refusal it was given, and the other post the item after all
\* (processChunk, and the lease of bulkLease).
ResultsAreTrue ==
    \A b \in Bulks : \A i \in Items(b) :
        /\ result[b][i] = "succeeded" => Posted(ItemOf[b][i])
        /\ result[b][i] = "failed" /\ b \notin overtaken => journal[KeyOf[ItemOf[b][i]]] # ItemOf[b][i]

\* What a bulk request reports agrees with its results, and these with the journal,
\* however often a chunk is posted again or recorded late (processChunk).
ReportIsTrue == CountsAgree /\ ResultsAreTrue

\* A bulk request that was accepted is completed, through failures, lost answers and
\* workers that stop (processBulk).
EveryCompleted == \A b \in Bulks : bulk[b].status = "pending" ~> bulk[b].status = "completed"
===============================================================================
