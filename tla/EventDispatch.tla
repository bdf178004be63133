----------------------------- MODULE EventDispatch -----------------------------
(***************************************************************************)
(* The event feed of internal/kernel/events: from the events that ledger   *)
(* transactions write, Dispatch makes one webhook delivery for every       *)
(* enabled endpoint that subscribes to them, keeping a cursor in the order *)
(* of (created_xid, id), and Prune deletes what is old, dispatched and     *)
(* settled.  Rows are the events of the table events.  What an attempt     *)
(* does to a delivery is in Deliveries; here it only changes its status.   *)
(***************************************************************************)
EXTENDS CommitOrder

CONSTANTS
    Endpoints,   \* ids of webhook endpoints
    Filters,     \* the sets of events that the event_types of an endpoint may match
    Instances,   \* instances of the service, each with one goroutine in Run
    BatchSize,   \* events of one call of Dispatch
    PruneBatch,  \* events of one transaction of Prune
    MaxUpdates   \* bound on the updates of endpoints

ASSUME DispatchAssumption ==
    /\ Rows \subseteq Nat \ {0} /\ IsFiniteSet(Rows)
    /\ Filters \subseteq SUBSET Rows
    /\ BatchSize \in Nat \ {0} /\ PruneBatch \in Nat \ {0} /\ MaxUpdates \in Nat

VARIABLES
    endpoint,  \* endpoint -> [there, enabled, wants]
    updates,   \* updates of endpoints so far
    cursor,    \* event_dispatch_cursor: the last event dispatched, 0 before the first
    delivery,  \* endpoint -> event -> "none" or the status of the delivery
    pruned,    \* events that are deleted
    pc,        \* instance -> its progress in Dispatch or Prune
    batch,     \* instance -> the events it works on
    targets,   \* instance -> the deliveries it is going to insert
    owed,      \* history: endpoint -> events that committed while it was subscribed to
               \* them and enabled, which it has been ever since
    got        \* history: endpoint -> events that a delivery was made of

vars == <<nextXid, xid, state, endpoint, updates, cursor, delivery, pruned, pc, batch, targets, owed, got>>
dispatching == <<cursor, pc, batch, targets, got>>
subscriptions == <<endpoint, updates, owed>>

Status == INSTANCE DeliveryStatus WITH
    Deliveries <- Endpoints \X Rows, status <- [d \in Endpoints \X Rows |-> delivery[d[1]][d[2]]]

-------------------------------------------------------------------------------
(***************************************************************************)
(* Events are written by the transactions whose effects they report.       *)
(***************************************************************************)

Publish(S) == Write(S) /\ UNCHANGED <<subscriptions, dispatching, delivery, pruned>>

Wants(w, r) == endpoint[w].there /\ endpoint[w].enabled /\ r \in endpoint[w].wants

EndPublishing(x) ==
    /\ \E outcome \in {"committed", "aborted"} : End(x, outcome)
    /\ owed' = [w \in Endpoints |->
                   owed[w] \cup {r \in Rows : state'[r] # state[r] /\ state'[r] = "committed" /\ Wants(w, r)}]
    /\ UNCHANGED <<endpoint, updates, dispatching, delivery, pruned>>

-------------------------------------------------------------------------------
(***************************************************************************)
(* Endpoints.                                                              *)
(***************************************************************************)

SetEndpoint(w, e) ==
    /\ updates < MaxUpdates
    /\ updates' = updates + 1
    /\ endpoint' = [endpoint EXCEPT ![w] = e]
    /\ owed' = [owed EXCEPT ![w] = IF e.enabled THEN @ \cap e.wants ELSE {}]

UpdateEndpoint(w, e) ==
    /\ endpoint[w].there /\ e.there
    /\ SetEndpoint(w, e)
    /\ UNCHANGED <<journal, dispatching, delivery, pruned>>

\* ON DELETE CASCADE.
DeleteEndpoint(w) ==
    /\ endpoint[w].there
    /\ SetEndpoint(w, [there |-> FALSE, enabled |-> FALSE, wants |-> {}])
    /\ delivery' = [delivery EXCEPT ![w] = [r \in Rows |-> "none"]]
    /\ UNCHANGED <<journal, dispatching, pruned>>

-------------------------------------------------------------------------------
(***************************************************************************)
(* Deliveries, as DeliveryStatus has it.                                   *)
(***************************************************************************)

Move(w, r, s) ==
    /\ <<delivery[w][r], s>> \in Status!Moves
    /\ delivery' = [delivery EXCEPT ![w][r] = s]
    /\ UNCHANGED <<journal, subscriptions, dispatching, pruned>>

-------------------------------------------------------------------------------
(***************************************************************************)
(* Dispatch.                                                               *)
(***************************************************************************)

\* (created_xid, id) <= (last_xid, last_id).
Dispatched(r) == cursor # 0 /\ ~Before(cursor, r)

Queued == {r \in Rows \ pruned : Visible(r) /\ ~Dispatched(r)}

\* Mutant: waits for a full batch.
ReadEventsFull(i) ==
    /\ pc[i] = "idle"
    /\ \A j \in Instances : pc[j] \notin {"read", "targets"}
    /\ \E B \in FirstOf(Queued, BatchSize) : /\ Cardinality(B) = BatchSize
                                           /\ batch' = [batch EXCEPT ![i] = B]
    /\ pc' = [pc EXCEPT ![i] = "read"]
    /\ UNCHANGED <<journal, subscriptions, delivery, pruned, cursor, targets, got>>

\* The advisory lock, the cursor and nextEvents; with nothing queued the
\* transaction ends.
ReadEvents(i) ==
    /\ pc[i] = "idle"
    /\ \A j \in Instances : pc[j] \notin {"read", "targets"}
    /\ \E B \in FirstOf(Queued, BatchSize) \ {{}} : batch' = [batch EXCEPT ![i] = B]
    /\ pc' = [pc EXCEPT ![i] = "read"]
    /\ UNCHANGED <<journal, subscriptions, delivery, pruned, cursor, targets, got>>

\* enabledEndpoints and subscribed.
ReadEndpoints(i) ==
    /\ pc[i] = "read"
    /\ targets' = [targets EXCEPT ![i] = {d \in Endpoints \X batch[i] : Wants(d[1], d[2])}]
    /\ pc' = [pc EXCEPT ![i] = "targets"]
    /\ UNCHANGED <<journal, subscriptions, delivery, pruned, cursor, batch, got>>

Last(B) == CHOOSE r \in B : \A u \in B : u = r \/ Before(u, r)

Idle(i) ==
    /\ pc' = [pc EXCEPT ![i] = "idle"]
    /\ batch' = [batch EXCEPT ![i] = {}]
    /\ targets' = [targets EXCEPT ![i] = {}]

\* The insert, the cursor and the commit.
InsertDeliveries(i) ==
    /\ pc[i] = "targets"
    /\ \A d \in targets[i] : endpoint[d[1]].there
    /\ delivery' = [w \in Endpoints |-> [r \in Rows |->
                       IF <<w, r>> \in targets[i] /\ delivery[w][r] = "none" THEN "pending" ELSE delivery[w][r]]]
    /\ got' = [w \in Endpoints |-> got[w] \cup {r \in Rows : <<w, r>> \in targets[i]}]
    /\ cursor' = Last(batch[i])
    /\ Idle(i)
    /\ UNCHANGED <<journal, subscriptions, pruned>>

\* An endpoint that was deleted since it was read fails the foreign key.
RefuseDeliveries(i) ==
    /\ pc[i] = "targets"
    /\ \E d \in targets[i] : ~endpoint[d[1]].there
    /\ Idle(i)
    /\ UNCHANGED <<journal, subscriptions, delivery, pruned, cursor, got>>

-------------------------------------------------------------------------------
(***************************************************************************)
(* Prune, one transaction of its loop.                                     *)
(***************************************************************************)

\* Mutant: whatever is old.
OldCommitted(r) == state[r] = "committed" /\ r \notin pruned

\* Old events that were dispatched and that no delivery is pending of.
Settled(r) ==
    /\ state[r] = "committed" /\ r \notin pruned
    /\ Dispatched(r)
    /\ \A w \in Endpoints : delivery[w][r] # "pending"

\* FOR UPDATE OF e SKIP LOCKED: not those that another instance is deleting.
SelectOld(i, cutoff) ==
    LET Locked == UNION {batch[j] : j \in {k \in Instances : pc[k] = "pruning"}}
        S == {r \in Rows : r < cutoff /\ Settled(r) /\ r \notin Locked}
    IN  /\ pc[i] = "idle"
        /\ S # {}
        /\ \E B \in SUBSET S :
               /\ \A r \in B, u \in S : u < r => u \in B
               /\ Cardinality(B) <= PruneBatch
               /\ B = S \/ Cardinality(B) = PruneBatch
               /\ batch' = [batch EXCEPT ![i] = B]
        /\ pc' = [pc EXCEPT ![i] = "pruning"]
        /\ UNCHANGED <<journal, subscriptions, delivery, pruned, cursor, targets, got>>

\* Both deletes, and the commit.
DeleteOld(i) ==
    /\ pc[i] = "pruning"
    /\ pruned' = pruned \cup batch[i]
    /\ delivery' = [w \in Endpoints |-> [r \in Rows |-> IF r \in batch[i] THEN "none" ELSE delivery[w][r]]]
    /\ Idle(i)
    /\ UNCHANGED <<journal, subscriptions, cursor, got>>

\* The database refuses or loses the transaction, or the instance stops.
Abort(i) ==
    /\ pc[i] # "idle"
    /\ Idle(i)
    /\ UNCHANGED <<journal, subscriptions, delivery, pruned, cursor, got>>

-------------------------------------------------------------------------------
Endpoint == [there : {TRUE}, enabled : BOOLEAN, wants : Filters]

Init ==
    /\ JournalInit
    /\ endpoint \in [Endpoints -> Endpoint]
    /\ updates = 0
    /\ cursor = 0
    /\ delivery = [w \in Endpoints |-> [r \in Rows |-> "none"]]
    /\ pruned = {}
    /\ pc = [i \in Instances |-> "idle"]
    /\ batch = [i \in Instances |-> {}]
    /\ targets = [i \in Instances |-> {}]
    /\ owed = [w \in Endpoints |-> {}]
    /\ got = [w \in Endpoints |-> {}]

Dispatch(i) == ReadEvents(i) \/ ReadEndpoints(i) \/ InsertDeliveries(i) \/ RefuseDeliveries(i)

Next ==
    \/ \E S \in SUBSET Rows : Publish(S)
    \/ \E x \in 1 .. nextXid : EndPublishing(x)
    \/ \E w \in Endpoints, e \in Endpoint : UpdateEndpoint(w, e)
    \/ \E w \in Endpoints : DeleteEndpoint(w)
    \/ \E w \in Endpoints, r \in Rows, s \in {"pending", "succeeded", "failed"} : Move(w, r, s)
    \/ \E i \in Instances : Dispatch(i) \/ DeleteOld(i) \/ Abort(i)
    \/ \E i \in Instances, r \in Rows : SelectOld(i, r + 1)

(***************************************************************************)
(* Database transactions end, and every instance keeps polling (the ticker *)
(* of Run); its calls of Dispatch do not fail for ever.                    *)
(***************************************************************************)
Fairness ==
    /\ \A x \in 1 .. Cardinality(Rows) : WF_vars(EndPublishing(x))
    /\ \A i \in Instances : /\ SF_vars(ReadEvents(i)) /\ SF_vars(ReadEndpoints(i))
                            /\ SF_vars(InsertDeliveries(i)) /\ WF_vars(RefuseDeliveries(i))
                            /\ WF_vars(DeleteOld(i))

Spec == Init /\ [][Next]_vars /\ Fairness

-------------------------------------------------------------------------------
(***************************************************************************)
(* Properties.                                                             *)
(***************************************************************************)

\* No event is lost: once the cursor has passed an event, there has been a delivery of
\* it for every endpoint that was subscribed when it committed and ever since, though
\* transactions commit out of order and Prune deletes rows (nextEvents).
NoneMissed ==
    \A w \in Endpoints : \A r \in owed[w] : state[r] = "committed" /\ Dispatched(r) => r \in got[w]

\* A delivery never outlives its event or its endpoint, and is made of committed and
\* dispatched events only: Dispatch works in the order of the cursor (insertDeliveries).
DeliveriesBacked ==
    \A w \in Endpoints, r \in Rows : delivery[w][r] # "none" =>
        endpoint[w].there /\ r \notin pruned /\ state[r] = "committed" /\ Dispatched(r)

\* Every event that an endpoint is owed is dispatched to it in the end.
EveryDispatched ==
    \A w \in Endpoints, r \in Rows : r \in owed[w] ~> r \in got[w] \/ r \notin owed[w]

\* "once dispatch has processed them and no delivery remains pending": what Prune
\* deletes is settled when it is deleted.
PendingIsKept ==
    [][\A w \in Endpoints, r \in Rows : r \in pruned' \ pruned => delivery[w][r] # "pending"]_vars
===============================================================================
