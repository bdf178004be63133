-------------------------------- MODULE Batcher --------------------------------
(***************************************************************************)
(* The group commit of internal/modules/ledger/batcher.go.  A call of post *)
(* puts its request on a bounded queue and waits; workers collect queued   *)
(* requests into batches and post each batch in one database transaction.  *)
(* When the transaction of a group fails, its requests are posted one by   *)
(* one.  Callers may be cancelled at any time, and shutdown drains the     *)
(* queue.                                                                  *)
(*                                                                         *)
(* The database transaction of a batch (applyRequests, runRequests, RunTx) *)
(* is the steps Read, which takes the account locks and looks for the      *)
(* keys, and one of Commit, Conflict, Transient, Fail and LostAck.  What   *)
(* the ledger makes of a new key (module LedgerCore) is a choice here.     *)
(***************************************************************************)
EXTENDS Integers, FiniteSets, Sequences, SequencesExt

CONSTANTS
    Requests,     \* calls of submit
    NoRequest,    \* a key that nothing was posted under
    KeyOf,        \* request -> its idempotency key
    BodyOf,       \* request -> what it asks for
    AccountsOf,   \* request -> the accounts it locks
    Workers,
    QueueSize,    \* capacity of the queue
    MaxBatch,     \* requests of one batch
    MaxAttempts   \* attempts of one RunTx

Keys == {KeyOf[r] : r \in Requests}

ASSUME BatcherAssumption ==
    /\ NoRequest \notin Requests
    /\ QueueSize \in Nat \ {0} /\ MaxBatch \in Nat \ {0} /\ MaxAttempts \in Nat \ {0}
    /\ Workers # {}

VARIABLES
    journal,   \* key -> the request whose transaction has the key (committed)
    ret,       \* request -> what submit returned
    waiting,   \* requests whose call is in the second select of submit
    canceled,  \* requests whose context is done
    queue,     \* the channel queue
    done,      \* request -> its result channel, of capacity 1
    mode,      \* worker -> in "work", in "drain" or "gone"
    pc,        \* worker -> where it is in one round
    batch,     \* worker -> the requests of the commit in progress
    rest,      \* worker -> the requests of a failed group still to post one by one
    seen,      \* worker -> the journal as its transaction read it
    attempt,   \* worker -> attempts of its RunTx that failed
    answers,   \* worker -> request of the batch -> its result
    stopping,  \* the context of run is done
    stopped    \* the channel stopped is closed

clientVars == <<ret, waiting, canceled>>
workerVars == <<mode, pc, batch, rest, seen, attempt, answers>>
vars == <<journal, queue, done, stopping, stopped, clientVars, workerVars>>

Answers == {"ok", "refused", "failed", "canceled", "stopped"}

NoKeys == [k \in Keys |-> NoRequest]
NoAnswers == [r \in Requests |-> "none"]

-------------------------------------------------------------------------------
(***************************************************************************)
(* submit: the caller.                                                     *)
(***************************************************************************)

Return(r, answer) ==
    /\ ret' = [ret EXCEPT ![r] = answer]
    /\ waiting' = waiting \ {r}

\* The first select: a call that has not returned and is not waiting yet.
Submitting(r) == ret[r] = "none" /\ r \notin waiting

\* Nothing prefers the closed channel stopped to a queue with room.
Enqueue(r) ==
    /\ Submitting(r)
    /\ Len(queue) < QueueSize
    /\ queue' = Append(queue, r)
    /\ waiting' = waiting \cup {r}
    /\ UNCHANGED <<journal, done, stopping, stopped, ret, canceled, workerVars>>

NotEnqueued(r) ==
    /\ Submitting(r)
    /\ \/ r \in canceled /\ Return(r, "canceled")
       \/ stopped /\ Return(r, "stopped")
    /\ UNCHANGED <<journal, queue, done, stopping, stopped, canceled, workerVars>>

\* The second select.
Receive(r) ==
    /\ r \in waiting
    /\ done[r] # "none"
    /\ Return(r, done[r])
    /\ done' = [done EXCEPT ![r] = "none"]
    /\ UNCHANGED <<journal, queue, stopping, stopped, canceled, workerVars>>

GiveUp(r) ==
    /\ r \in waiting
    /\ r \in canceled
    /\ Return(r, "canceled")
    /\ UNCHANGED <<journal, queue, done, stopping, stopped, canceled, workerVars>>

\* Mutant: a caller that is queued waits for its result only.
SeeStoppedNever(r) ==
    /\ r \in waiting
    /\ stopped
    /\ done[r] # "none"
    /\ Return(r, done[r])
    /\ UNCHANGED <<journal, queue, done, stopping, stopped, canceled, workerVars>>

\* A result that is there is returned (Receive), even when stopped is closed.
SeeStopped(r) ==
    /\ r \in waiting
    /\ stopped
    /\ done[r] = "none"
    /\ Return(r, "stopped")
    /\ UNCHANGED <<journal, queue, done, stopping, stopped, canceled, workerVars>>

\* The client disconnects or its deadline passes.
Cancel(r) ==
    /\ ret[r] = "none"
    /\ canceled' = canceled \cup {r}
    /\ UNCHANGED <<journal, queue, done, stopping, stopped, ret, waiting, workerVars>>

-------------------------------------------------------------------------------
(***************************************************************************)
(* work, drain and collect.                                                *)
(***************************************************************************)

Take(w) ==
    /\ mode[w] # "gone"
    /\ pc[w] = "select"
    /\ queue # <<>>
    /\ batch' = [batch EXCEPT ![w] = <<Head(queue)>>]
    /\ queue' = Tail(queue)
    /\ pc' = [pc EXCEPT ![w] = "collect"]
    /\ UNCHANGED <<journal, done, stopping, stopped, clientVars, mode, rest, seen, attempt, answers>>

\* Mutant: a worker leaves without draining the queue.
BeginDrainAtOnce(w) ==
    /\ mode[w] = "work"
    /\ pc[w] = "select"
    /\ stopping
    /\ mode' = [mode EXCEPT ![w] = "gone"]
    /\ UNCHANGED <<journal, queue, done, stopping, stopped, clientVars, pc, batch, rest, seen, attempt, answers>>

\* The select of work picks the context, though the queue may hold requests.
BeginDrain(w) ==
    /\ mode[w] = "work"
    /\ pc[w] = "select"
    /\ stopping
    /\ mode' = [mode EXCEPT ![w] = "drain"]
    /\ UNCHANGED <<journal, queue, done, stopping, stopped, clientVars, pc, batch, rest, seen, attempt, answers>>

EndDrain(w) ==
    /\ mode[w] = "drain"
    /\ pc[w] = "select"
    /\ queue = <<>>
    /\ mode' = [mode EXCEPT ![w] = "gone"]
    /\ UNCHANGED <<journal, queue, done, stopping, stopped, clientVars, pc, batch, rest, seen, attempt, answers>>

Collect(w) ==
    /\ pc[w] = "collect"
    /\ IF Len(batch[w]) < MaxBatch /\ queue # <<>>
       THEN /\ batch' = [batch EXCEPT ![w] = Append(@, Head(queue))]
            /\ queue' = Tail(queue)
            /\ UNCHANGED pc
       ELSE /\ pc' = [pc EXCEPT ![w] = "commit"]
            /\ UNCHANGED <<batch, queue>>
    /\ UNCHANGED <<journal, done, stopping, stopped, clientVars, mode, rest, seen, attempt, answers>>

-------------------------------------------------------------------------------
(***************************************************************************)
(* commit.                                                                 *)
(***************************************************************************)

\* commit returns: to the loop over a failed group, or to work or drain.
Finish(w) ==
    IF rest[w] = <<>>
    THEN /\ pc' = [pc EXCEPT ![w] = "select"]
         /\ batch' = [batch EXCEPT ![w] = <<>>]
         /\ UNCHANGED rest
    ELSE /\ pc' = [pc EXCEPT ![w] = "commit"]
         /\ batch' = [batch EXCEPT ![w] = <<Head(rest[w])>>]
         /\ rest' = [rest EXCEPT ![w] = Tail(@)]

\* The requests of a batch whose context is not among those that are done.
Live(b, over) ==
    LET live[i \in 0 .. Len(b)] ==
            IF i = 0 THEN <<>>
            ELSE IF b[i] \in over THEN live[i - 1] ELSE Append(live[i - 1], b[i])
    IN  live[Len(b)]

\* A request whose context is done is answered and left out.
Filter(w) ==
    /\ pc[w] = "commit"
    /\ \A r \in ToSet(batch[w]) \cap canceled : done[r] = "none"
    /\ done' = [r \in Requests |->
                   IF r \in ToSet(batch[w]) \cap canceled THEN "canceled" ELSE done[r]]
    /\ LET live == Live(batch[w], canceled)
       IN  IF live = <<>>
           THEN Finish(w)
           ELSE /\ batch' = [batch EXCEPT ![w] = live]
                /\ pc' = [pc EXCEPT ![w] = "read"]
                /\ UNCHANGED rest
    /\ UNCHANGED <<journal, queue, stopping, stopped, clientVars, mode, seen, attempt, answers>>

Locks(w) == UNION {AccountsOf[r] : r \in ToSet(batch[w])}

\* The transactions that exist under the keys of the batch.
Lookup(w) == [k \in Keys |-> IF \E r \in ToSet(batch[w]) : KeyOf[r] = k THEN journal[k] ELSE NoRequest]

\* queueLockAccounts waits for the other holders of the rows; the keys are
\* selected after it, in the same round trip.
Read(w) ==
    /\ pc[w] = "read"
    /\ \A v \in Workers \ {w} : pc[v] = "write" => Locks(v) \cap Locks(w) = {}
    /\ seen' = [seen EXCEPT ![w] = Lookup(w)]
    /\ pc' = [pc EXCEPT ![w] = "write"]
    /\ UNCHANGED <<journal, queue, done, stopping, stopped, clientVars, mode, batch, rest, attempt, answers>>

\* The first request of the batch with the key of r.
First(b, r) == b[CHOOSE i \in 1 .. Len(b) :
                    /\ KeyOf[b[i]] = KeyOf[r]
                    /\ \A j \in 1 .. i - 1 : KeyOf[b[j]] # KeyOf[r]]

\* The requests that resolveRequest accepts when the ledger refuses those of bad.
Accepted(w, bad) ==
    {r \in ToSet(batch[w]) : seen[w][KeyOf[r]] = NoRequest /\ First(batch[w], r) = r /\ r \notin bad}

\* resolveRequest: a key in the journal, or earlier in the batch, replays when the
\* body is the same and conflicts otherwise; what the ledger refused is refused.
Outcome(w, bad, r) ==
    LET new   == seen[w][KeyOf[r]] = NoRequest
        owner == IF new THEN First(batch[w], r) ELSE seen[w][KeyOf[r]]
    IN  IF BodyOf[owner] = BodyOf[r] /\ ~(new /\ owner \in bad) THEN "ok" ELSE "refused"

Journal(R) ==
    [k \in Keys |-> IF \E r \in R : KeyOf[r] = k THEN CHOOSE r \in R : KeyOf[r] = k ELSE journal[k]]

\* The keys of R are still free, which the UNIQUE index checks at the insert.
Free(R) == \A r \in R : journal[KeyOf[r]] = NoRequest

\* The database transaction ends, and with it its locks and what it has read.
End(w) == seen' = [seen EXCEPT ![w] = NoKeys]

Commit(w, bad) ==
    /\ pc[w] = "write"
    /\ Free(Accepted(w, bad))
    /\ journal' = Journal(Accepted(w, bad))
    /\ answers' = [answers EXCEPT ![w] =
                      [r \in Requests |->
                          IF r \in ToSet(batch[w]) THEN Outcome(w, bad, r) ELSE "none"]]
    /\ pc' = [pc EXCEPT ![w] = "deliver"]
    /\ End(w)
    /\ attempt' = [attempt EXCEPT ![w] = 0]
    /\ UNCHANGED <<queue, done, stopping, stopped, clientVars, mode, batch, rest>>

\* Mutant: the first request of a failed group is retried twice.
FailedTwice(w) ==
    /\ IF Len(batch[w]) > 1
       THEN /\ batch' = [batch EXCEPT ![w] = <<Head(@)>>]
            /\ rest' = [rest EXCEPT ![w] = batch[w]]
            /\ pc' = [pc EXCEPT ![w] = "commit"]
            /\ UNCHANGED answers
       ELSE /\ answers' = [answers EXCEPT ![w] = [NoAnswers EXCEPT ![Head(batch[w])] = "failed"]]
            /\ pc' = [pc EXCEPT ![w] = "deliver"]
            /\ UNCHANGED <<batch, rest>>
    /\ End(w)
    /\ attempt' = [attempt EXCEPT ![w] = 0]
    /\ UNCHANGED <<queue, done, stopping, stopped, clientVars, mode>>

\* runRequests returns an error: the requests of a group are retried one by one,
\* a single one is answered with the error.
Failed(w) ==
    /\ IF Len(batch[w]) > 1
       THEN /\ batch' = [batch EXCEPT ![w] = <<Head(@)>>]
            /\ rest' = [rest EXCEPT ![w] = Tail(batch[w])]
            /\ pc' = [pc EXCEPT ![w] = "commit"]
            /\ UNCHANGED answers
       ELSE /\ answers' = [answers EXCEPT ![w] = [NoAnswers EXCEPT ![Head(batch[w])] = "failed"]]
            /\ pc' = [pc EXCEPT ![w] = "deliver"]
            /\ UNCHANGED <<batch, rest>>
    /\ End(w)
    /\ attempt' = [attempt EXCEPT ![w] = 0]
    /\ UNCHANGED <<queue, done, stopping, stopped, clientVars, mode>>

\* RunTx tries again, up to its last attempt.
Retry(w) ==
    /\ attempt[w] + 1 < MaxAttempts
    /\ attempt' = [attempt EXCEPT ![w] = @ + 1]
    /\ pc' = [pc EXCEPT ![w] = "read"]
    /\ End(w)
    /\ UNCHANGED <<journal, queue, done, stopping, stopped, clientVars, mode, batch, rest, answers>>

GiveUpRetrying(w) ==
    /\ attempt[w] + 1 = MaxAttempts
    /\ Failed(w)
    /\ UNCHANGED journal

\* The insert meets a key that another transaction committed since Read.
Conflict(w, bad) ==
    /\ pc[w] = "write"
    /\ ~Free(Accepted(w, bad))
    /\ Retry(w) \/ GiveUpRetrying(w)

\* A deadlock or serialization failure with another service operation.
Transient(w) ==
    /\ pc[w] = "write"
    /\ Retry(w) \/ GiveUpRetrying(w)

\* The transaction fails for good: the connection is lost, or commit's timeout
\* passes, before the database has committed.
Fail(w) ==
    /\ pc[w] = "write"
    /\ Failed(w)
    /\ UNCHANGED journal

\* The same, after it has committed.
LostAck(w, bad) ==
    /\ pc[w] = "write"
    /\ Free(Accepted(w, bad))
    /\ journal' = Journal(Accepted(w, bad))
    /\ Failed(w)

\* The send blocks while the channel is full.
Deliver(w) ==
    /\ pc[w] = "deliver"
    /\ \A r \in ToSet(batch[w]) : done[r] = "none"
    /\ done' = [r \in Requests |-> IF r \in ToSet(batch[w]) THEN answers[w][r] ELSE done[r]]
    /\ answers' = [answers EXCEPT ![w] = NoAnswers]
    /\ Finish(w)
    /\ UNCHANGED <<journal, queue, stopping, stopped, clientVars, mode, seen, attempt>>

-------------------------------------------------------------------------------
(***************************************************************************)
(* run.                                                                    *)
(***************************************************************************)

Stop ==
    /\ ~stopping
    /\ stopping' = TRUE
    /\ UNCHANGED <<journal, queue, done, stopped, clientVars, workerVars>>

CloseStopped ==
    /\ \A w \in Workers : mode[w] = "gone"
    /\ ~stopped
    /\ stopped' = TRUE
    /\ UNCHANGED <<journal, queue, done, stopping, clientVars, workerVars>>

-------------------------------------------------------------------------------
Init ==
    /\ journal = NoKeys
    /\ ret = [r \in Requests |-> "none"]
    /\ waiting = {} /\ canceled = {}
    /\ queue = <<>>
    /\ done = [r \in Requests |-> "none"]
    /\ mode = [w \in Workers |-> "work"]
    /\ pc = [w \in Workers |-> "select"]
    /\ batch = [w \in Workers |-> <<>>]
    /\ rest = [w \in Workers |-> <<>>]
    /\ seen = [w \in Workers |-> NoKeys]
    /\ attempt = [w \in Workers |-> 0]
    /\ answers = [w \in Workers |-> NoAnswers]
    /\ stopping = FALSE /\ stopped = FALSE

Submit(r) == Enqueue(r) \/ NotEnqueued(r) \/ Receive(r) \/ GiveUp(r) \/ SeeStopped(r)

Database(w) ==
    \/ Transient(w) \/ Fail(w)
    \/ \E bad \in SUBSET ToSet(batch[w]) :
           Commit(w, bad) \/ Conflict(w, bad) \/ LostAck(w, bad)

Work(w) ==
    \/ Take(w) \/ BeginDrain(w) \/ EndDrain(w) \/ Collect(w)
    \/ Filter(w) \/ Read(w) \/ Database(w) \/ Deliver(w)

Next ==
    \/ \E r \in Requests : Submit(r) \/ Cancel(r)
    \/ \E w \in Workers : Work(w)
    \/ Stop
    \/ CloseStopped

(***************************************************************************)
(* Goroutines that can run do, and a database transaction ends, at the     *)
(* latest with commit's timeout.  Nothing makes a caller cancel or the     *)
(* service stop.                                                           *)
(***************************************************************************)
Fairness ==
    /\ \A r \in Requests : WF_vars(Submit(r))
    /\ \A w \in Workers : WF_vars(Work(w))
    /\ WF_vars(CloseStopped)

Spec == Init /\ [][Next]_vars /\ Fairness

-------------------------------------------------------------------------------
(***************************************************************************)
(* Properties.                                                             *)
(***************************************************************************)

\* Whatever group failures, retries, cancellations, lost acknowledgements and
\* shutdown do, callers see what PostingService promises (submit, commit).
Service == INSTANCE PostingService
Implements == Service!Spec

\* Every call of submit returns, through a full queue, failures and shutdown.
CallsReturn == \A r \in Requests : <>(ret[r] # "none")

\* Shutdown ends: the workers drain the queue and leave (run, drain).
ShutdownEnds == stopping ~> stopped

\* Nothing hangs: no caller of submit, and not the shutdown.
NothingHangs == CallsReturn /\ ShutdownEnds

\* A request that was queued before shutdown began is never told ErrStopped:
\* the last worker leaves only after the queue was empty (drain).
QueuedIsServed == \A r \in Requests : [](r \in waiting /\ ~stopping => [](ret[r] # "stopped"))
===============================================================================
