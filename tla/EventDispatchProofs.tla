-------------------------- MODULE EventDispatchProofs --------------------------
(***************************************************************************)
(* No event is missed and every delivery is backed, for any number of      *)
(* events, endpoints and instances, and any sizes of the batches.  The     *)
(* argument: what Dispatch reads is older than whatever is in progress, so *)
(* nothing can commit below the cursor; the advisory lock keeps the cursor *)
(* that a batch was read from the stored one; and the deliveries that a    *)
(* batch inserts cover every endpoint that was owed one of its events when *)
(* the endpoints were read.                                                *)
(***************************************************************************)
EXTENDS EventDispatch, SumsTheorems

\* Dispatch has taken its advisory lock.
Holding(i) == pc[i] \in {"read", "targets"}

TypeOK ==
    /\ JournalTypeOK
    /\ endpoint \in [Endpoints -> [there : BOOLEAN, enabled : BOOLEAN, wants : SUBSET Rows]]
    /\ updates \in Nat
    /\ cursor \in Rows \cup {0}
    /\ delivery \in [Endpoints -> [Rows -> {"none", "pending", "succeeded", "failed"}]]
    /\ pruned \in SUBSET Rows
    /\ pc \in [Instances -> {"idle", "read", "targets", "pruning"}]
    /\ batch \in [Instances -> SUBSET Rows]
    /\ targets \in [Instances -> SUBSET (Endpoints \X Rows)]
    /\ owed \in [Endpoints -> SUBSET Rows]
    /\ got \in [Endpoints -> SUBSET Rows]

\* Ids that were given out are below the next one.
XidBound == \A r \in Rows : xid[r] < nextXid

\* The event at the cursor is older than everything in progress.
CursorVisible == cursor # 0 => Visible(cursor)

\* One instance at a time dispatches.
Lock == \A i, j \in Instances : Holding(i) /\ Holding(j) => i = j

\* What an instance is dispatching goes next: it is after the cursor, older than
\* everything in progress, and nothing committed comes before it.
BatchNext ==
    \A i \in Instances : Holding(i) =>
        /\ batch[i] # {}
        /\ \A r \in batch[i] : Visible(r) /\ ~Dispatched(r)
        /\ \A r \in batch[i], u \in Rows :
               state[u] = "committed" /\ ~Dispatched(u) /\ Before(u, r) => u \in batch[i]

\* What is owed is wanted.
OwedWanted == \A w \in Endpoints : \A r \in owed[w] : Wants(w, r)

\* The deliveries that are going to be inserted are of the batch, and whatever of the
\* batch is owed is among them.
TargetsCover ==
    \A i \in Instances : pc[i] = "targets" =>
        /\ \A w \in Endpoints, r \in Rows : <<w, r>> \in targets[i] => r \in batch[i]
        /\ \A w \in Endpoints, r \in batch[i] : r \in owed[w] => <<w, r>> \in targets[i]

\* What is deleted, or is going to be, was dispatched.
PrunedDispatched ==
    /\ \A r \in pruned : state[r] = "committed" /\ Dispatched(r)
    /\ \A i \in Instances : pc[i] = "pruning" =>
           \A r \in batch[i] : state[r] = "committed" /\ Dispatched(r)

Inv == /\ TypeOK /\ XidBound /\ CursorVisible /\ Lock /\ BatchNext /\ OwedWanted
       /\ TargetsCover /\ PrunedDispatched /\ NoneMissed /\ DeliveriesBacked

-------------------------------------------------------------------------------

\* Before is a strict total order.
LEMMA BeforeOrder ==
    ASSUME xid \in [Rows -> Nat]
    PROVE  /\ \A t \in Rows : ~Before(t, t)
           /\ \A t, u \in Rows : t # u => Before(t, u) \/ Before(u, t)
           /\ \A t, u, v \in Rows : Before(t, u) /\ Before(u, v) => Before(t, v)
BY DispatchAssumption DEF Before

\* The last event of a batch is one of it, and no other comes after it.
LEMMA LastOf ==
    ASSUME xid \in [Rows -> Nat], NEW B \in SUBSET Rows, B # {}
    PROVE  Last(B) \in B /\ \A u \in B : u = Last(B) \/ Before(u, Last(B))
<1> DEFINE After(r) == {u \in B : Before(r, u)}
           rank == [r \in B |-> Cardinality(After(r))]
           T == {rank[r] : r \in B}
<1>1. IsFiniteSet(B)
  BY DispatchAssumption, FS_Subset
<1>2. ASSUME NEW r \in B
      PROVE  IsFiniteSet(After(r)) /\ rank[r] \in Nat
  <2>1. After(r) \in SUBSET B
    OBVIOUS
  <2>2. IsFiniteSet(After(r))
    BY <1>1, <2>1, FS_Subset
  <2> QED BY <2>2, FS_CardinalityType
<1>3. T \in SUBSET Nat /\ T # {}
  BY <1>2
<1>4. PICK n \in T : \A m \in T : n <= m
  <2> HIDE DEF T
  <2> QED BY <1>3, LeastNatural
<1>5. PICK r \in B : n = rank[r]
  OBVIOUS
<1>6. ASSUME NEW u \in B, u # r, ~Before(u, r)
      PROVE  FALSE
  <2>1. Before(r, u)
    BY <1>6, BeforeOrder
  <2>2. After(u) \in SUBSET After(r)
    BY <2>1, BeforeOrder
  <2>3. u \in After(r) /\ u \notin After(u)
    BY <2>1, BeforeOrder
  <2>4. Cardinality(After(u)) <= Cardinality(After(r)) /\ Cardinality(After(u)) # Cardinality(After(r))
    <3>1. After(u) # After(r)
      BY <2>3
    <3> HIDE DEF After
    <3> QED BY <1>2, <2>2, <3>1, FS_Subset
  <2>5. rank[r] <= rank[u]
    BY <1>4, <1>5
  <2>6. rank[u] = Cardinality(After(u)) /\ rank[r] = Cardinality(After(r))
    OBVIOUS
  <2>7. rank[u] \in Nat /\ rank[r] \in Nat
    BY <1>2
  <2> HIDE DEF rank, After
  <2> QED BY <2>4, <2>5, <2>6, <2>7
<1>7. \E x \in B : \A u \in B : u = x \/ Before(u, x)
  BY <1>6
<1> QED BY <1>7 DEF Last

\* The inductive invariant holds before anything is published.
LEMMA InitInv == Init => Inv
<1> SUFFICES ASSUME Init PROVE Inv
  OBVIOUS
<1> USE DispatchAssumption
<1>1. TypeOK
  <2>1. endpoint \in [Endpoints -> [there : BOOLEAN, enabled : BOOLEAN, wants : SUBSET Rows]]
    <3>1. Endpoint \subseteq [there : BOOLEAN, enabled : BOOLEAN, wants : SUBSET Rows]
      BY DEF Endpoint
    <3> QED BY <3>1 DEF Init
  <2>2. JournalTypeOK
    BY DEF Init, JournalInit, JournalTypeOK
  <2> QED BY <2>1, <2>2 DEF Init, TypeOK
<1>2. XidBound /\ CursorVisible /\ Lock /\ BatchNext
  BY DEF Init, JournalInit, XidBound, CursorVisible, Lock, BatchNext, Holding
<1>3. OwedWanted /\ TargetsCover /\ PrunedDispatched /\ NoneMissed /\ DeliveriesBacked
  BY DEF Init, OwedWanted, TargetsCover, PrunedDispatched, NoneMissed, DeliveriesBacked
<1> QED BY <1>1, <1>2, <1>3 DEF Inv

\* What is visible stays visible and keeps its place, and an event that is published or
\* commits is not yet dispatched, nor before anything that is visible.
LEMMA JournalStep ==
    ASSUME JournalTypeOK, XidBound, cursor \in Rows \cup {0}, CursorVisible, cursor' = cursor,
           \/ \E S \in SUBSET Rows : Write(S)
           \/ \E x \in 1 .. nextXid, outcome \in {"committed", "aborted"} : End(x, outcome)
    PROVE  /\ JournalTypeOK' /\ XidBound' /\ CursorVisible'
           /\ \A r \in Rows : Visible(r) => Visible(r)'
           /\ \A r \in Rows : state[r] = "committed" => state'[r] = "committed"
           /\ \A r \in Rows : state'[r] = "committed" => state[r] \in {"open", "committed"}
           /\ \A r \in Rows : state[r] # "new" => xid'[r] = xid[r] /\ (Dispatched(r)' <=> Dispatched(r))
           /\ \A r \in Rows : state[r] = "open" => ~Dispatched(r)
           /\ \A r, u \in Rows : Visible(r) /\ state[u] = "open" => ~Before(u, r)
<1> USE DispatchAssumption
<1>0. /\ nextXid \in Nat \ {0} /\ xid \in [Rows -> Nat]
      /\ state \in [Rows -> {"new", "open", "committed", "aborted"}]
      /\ \A t \in Rows : xid[t] < nextXid
  BY DEF JournalTypeOK, XidBound
<1>1. /\ nextXid' \in Nat \ {0} /\ nextXid <= nextXid' /\ xid' \in [Rows -> Nat]
      /\ state' \in [Rows -> {"new", "open", "committed", "aborted"}]
      /\ \A t \in Rows : xid'[t] < nextXid'
  <2>1. ASSUME NEW S \in SUBSET Rows, Write(S)
        PROVE  <1>1!1 /\ <1>1!2 /\ <1>1!3
    BY <1>0, <2>1 DEF Write
  <2>2. ASSUME NEW x \in 1 .. nextXid, NEW outcome \in {"committed", "aborted"}, End(x, outcome)
        PROVE  <1>1!1 /\ <1>1!2 /\ <1>1!3
    BY <1>0, <2>2 DEF End
  <2> QED BY <2>1, <2>2
<1>2. \A t \in Rows : state[t] # "new" => xid'[t] = xid[t]
  BY <1>0 DEF Write, End
<1>3. \A t \in Rows : /\ state[t] = "committed" => state'[t] = "committed"
                      /\ state'[t] = "committed" => state[t] \in {"open", "committed"}
  BY <1>0 DEF Write, End
<1>4. \A t \in Rows : state'[t] = "open" =>
          (state[t] = "open" /\ xid'[t] = xid[t]) \/ xid'[t] = nextXid
  BY <1>0 DEF Write, End
<1>5. \A t \in Rows : Visible(t) => Visible(t)' /\ xid'[t] = xid[t]
  BY <1>0, <1>2, <1>3, <1>4 DEF Visible
<1>6. CursorVisible'
  BY <1>5 DEF CursorVisible
<1>7. ASSUME NEW r \in Rows, state[r] # "new"
      PROVE  Dispatched(r)' <=> Dispatched(r)
  <2>1. CASE cursor = 0
    BY <2>1 DEF Dispatched
  <2>2. CASE cursor # 0
    <3>1. xid'[cursor] = xid[cursor] /\ xid'[r] = xid[r]
      BY <1>2, <1>5, <1>7, <2>2 DEF CursorVisible
    <3> QED BY <3>1 DEF Dispatched, Before
  <2> QED BY <2>1, <2>2
<1>8. ASSUME NEW r \in Rows, NEW u \in Rows, Visible(r), state[u] = "open"
      PROVE  Before(r, u) /\ ~Before(u, r)
  BY <1>0, <1>8 DEF Visible, Before
<1>9. ASSUME NEW r \in Rows, state[r] = "open"
      PROVE  ~Dispatched(r)
  BY <1>8, <1>9 DEF Dispatched, CursorVisible
<1> QED BY <1>1, <1>2, <1>3, <1>5, <1>6, <1>7, <1>8, <1>9 DEF JournalTypeOK, XidBound

\* What the invariant says of batches, of what is pruned and of deliveries stays true
\* while transactions write and end.
LEMMA PublishFrame ==
    ASSUME Inv, UNCHANGED <<dispatching, delivery, pruned, endpoint>>,
           \/ \E S \in SUBSET Rows : Write(S)
           \/ \E x \in 1 .. nextXid, outcome \in {"committed", "aborted"} : End(x, outcome)
    PROVE  /\ JournalTypeOK' /\ XidBound' /\ CursorVisible' /\ Lock' /\ BatchNext'
           /\ PrunedDispatched' /\ DeliveriesBacked'
<1> USE DispatchAssumption
<1>0. /\ TypeOK /\ JournalTypeOK /\ XidBound /\ cursor \in Rows \cup {0} /\ CursorVisible
      /\ UNCHANGED <<cursor, pc, batch, targets, got, delivery, pruned, endpoint>>
  BY DEF Inv, TypeOK, dispatching
<1>1. JournalTypeOK' /\ XidBound' /\ CursorVisible'
  BY <1>0, JournalStep
<1>2. /\ \A r \in Rows : Visible(r) => Visible(r)'
      /\ \A r \in Rows : state[r] = "committed" => state'[r] = "committed"
      /\ \A r \in Rows : state'[r] = "committed" => state[r] \in {"open", "committed"}
      /\ \A r \in Rows : state[r] # "new" => xid'[r] = xid[r] /\ (Dispatched(r)' <=> Dispatched(r))
      /\ \A r, u \in Rows : Visible(r) /\ state[u] = "open" => ~Before(u, r)
  BY <1>0, JournalStep
<1>3. Lock'
  BY <1>0 DEF Inv, Lock, Holding
<1>4. BatchNext'
  <2> SUFFICES ASSUME NEW i \in Instances, Holding(i)
               PROVE  /\ batch[i] # {}
                      /\ \A r \in batch[i] : Visible(r)' /\ ~Dispatched(r)'
                      /\ \A r \in batch[i], u \in Rows :
                             state'[u] = "committed" /\ ~Dispatched(u)' /\ Before(u, r)' => u \in batch[i]
    BY <1>0 DEF BatchNext, Holding
  <2>1. batch[i] # {} /\ batch[i] \subseteq Rows /\ \A r \in batch[i] : Visible(r) /\ ~Dispatched(r)
    BY <1>0 DEF Inv, BatchNext, TypeOK
  <2>2. \A r \in batch[i] : state[r] # "new" /\ xid'[r] = xid[r] /\ Visible(r)' /\ ~Dispatched(r)'
    BY <1>2, <2>1 DEF Visible
  <2>3. ASSUME NEW r \in batch[i], NEW u \in Rows,
               state'[u] = "committed", ~Dispatched(u)', Before(u, r)'
        PROVE  u \in batch[i]
    <3>1. state[u] \in {"open", "committed"} /\ xid'[u] = xid[u]
      BY <1>2, <2>3
    <3>2. Before(u, r) /\ ~Dispatched(u)
      BY <1>2, <2>2, <2>3, <3>1 DEF Before
    <3>3. state[u] = "committed"
      BY <1>2, <2>1, <3>1, <3>2
    <3> QED BY <3>2, <3>3 DEF Inv, BatchNext
  <2> QED BY <2>1, <2>2, <2>3
<1>5. PrunedDispatched'
  BY <1>0, <1>2 DEF Inv, PrunedDispatched, TypeOK
<1>6. DeliveriesBacked'
  BY <1>0, <1>2 DEF Inv, DeliveriesBacked
<1> QED BY <1>1, <1>3, <1>4, <1>5, <1>6

\* Events are written.
LEMMA PublishInv ==
    ASSUME Inv, NEW S \in SUBSET Rows, Publish(S)
    PROVE  Inv'
<1>0. /\ TypeOK /\ UNCHANGED <<endpoint, updates, owed, cursor, pc, batch, targets, got, delivery, pruned>>
      /\ Write(S)
  BY DEF Inv, Publish, subscriptions, dispatching
<1>1. JournalTypeOK' /\ XidBound' /\ CursorVisible' /\ Lock' /\ BatchNext' /\ PrunedDispatched' /\ DeliveriesBacked'
  BY <1>0, PublishFrame DEF dispatching
<1>2. TypeOK'
  BY <1>0, <1>1 DEF TypeOK
<1>3. OwedWanted' /\ TargetsCover'
  BY <1>0 DEF Inv, OwedWanted, TargetsCover, Wants
<1>4. NoneMissed'
  <2>1. /\ \A r \in Rows : state'[r] = "committed" => state[r] = "committed"
        /\ \A r \in Rows : state[r] # "new" => (Dispatched(r)' <=> Dispatched(r))
    <3>1. \A r \in Rows : state'[r] = "committed" => state[r] = "committed"
      BY <1>0 DEF Write, TypeOK, JournalTypeOK
    <3> QED BY <1>0, <3>1, JournalStep DEF Inv, TypeOK
  <2> QED BY <1>0, <2>1 DEF Inv, NoneMissed, TypeOK
<1> QED BY <1>1, <1>2, <1>3, <1>4 DEF Inv

\* Their transaction ends: what is now owed is not dispatched yet, and in no batch.
LEMMA EndPublishingInv ==
    ASSUME Inv, NEW x \in 1 .. nextXid, EndPublishing(x)
    PROVE  Inv'
<1>0. /\ TypeOK /\ UNCHANGED <<endpoint, updates, cursor, pc, batch, targets, got, delivery, pruned>>
      /\ \E outcome \in {"committed", "aborted"} : End(x, outcome)
      /\ owed' = [w \in Endpoints |->
             owed[w] \cup {r \in Rows : state'[r] # state[r] /\ state'[r] = "committed" /\ Wants(w, r)}]
  BY DEF Inv, EndPublishing, dispatching
<1>1. JournalTypeOK' /\ XidBound' /\ CursorVisible' /\ Lock' /\ BatchNext' /\ PrunedDispatched' /\ DeliveriesBacked'
  BY <1>0, PublishFrame DEF dispatching
<1>2. TypeOK'
  <2>1. owed' \in [Endpoints -> SUBSET Rows]
    BY <1>0 DEF TypeOK
  <2> QED BY <1>0, <1>1, <2>1 DEF TypeOK
<1>3. OwedWanted'
  <2>1. \A w \in Endpoints, r \in Rows : Wants(w, r)' <=> Wants(w, r)
    BY <1>0 DEF Wants
  <2>2. \A w \in Endpoints : \A r \in owed'[w] : Wants(w, r)
    BY <1>0 DEF Inv, OwedWanted
  <2> QED BY <1>2, <2>1, <2>2 DEF OwedWanted, TypeOK
<1>4. /\ \A r \in Rows : state'[r] = "committed" /\ state'[r] # state[r] => state[r] = "open" /\ ~Dispatched(r)'
      /\ \A r \in Rows : state[r] = "committed" => (Dispatched(r)' <=> Dispatched(r))
  <2>1. TypeOK /\ JournalTypeOK /\ XidBound /\ cursor \in Rows \cup {0} /\ CursorVisible
    BY DEF Inv, TypeOK
  <2>2. /\ \A r \in Rows : state'[r] = "committed" => state[r] \in {"open", "committed"}
        /\ \A r \in Rows : state[r] # "new" => (Dispatched(r)' <=> Dispatched(r))
        /\ \A r \in Rows : state[r] = "open" => ~Dispatched(r)
    BY <1>0, <2>1, JournalStep
  <2> QED BY <2>2
<1>5. TargetsCover'
  <2> SUFFICES ASSUME NEW i \in Instances, pc[i] = "targets"
               PROVE  \A w \in Endpoints, r \in batch[i] : r \in owed'[w] => <<w, r>> \in targets[i]
    BY <1>0 DEF Inv, TargetsCover
  <2>1. \A r \in batch[i] : r \in Rows /\ state[r] = "committed"
    BY DEF Inv, TypeOK, BatchNext, Holding, Visible
  <2>2. \A w \in Endpoints, r \in batch[i] : r \in owed'[w] => r \in owed[w]
    BY <1>0, <1>4, <2>1
  <2> QED BY <2>2 DEF Inv, TargetsCover
<1>6. NoneMissed'
  <2> SUFFICES ASSUME NEW w \in Endpoints, NEW r \in owed'[w], state'[r] = "committed", Dispatched(r)'
               PROVE  r \in got[w]
    BY <1>0 DEF NoneMissed
  <2>1. r \in Rows
    BY <1>2 DEF TypeOK
  <2>2. state[r] = "committed" /\ Dispatched(r)
    BY <1>4, <2>1
  <2>3. r \in owed[w]
    BY <1>0, <2>2
  <2> QED BY <2>2, <2>3 DEF Inv, NoneMissed
<1> QED BY <1>1, <1>2, <1>3, <1>5, <1>6 DEF Inv

\* An endpoint is updated or deleted: what it is owed is what it wants still.
LEMMA EndpointInv ==
    ASSUME Inv, NEW w \in Endpoints,
           (\E e \in Endpoint : UpdateEndpoint(w, e)) \/ DeleteEndpoint(w)
    PROVE  Inv'
<1> USE DispatchAssumption
<1>0. TypeOK /\ UNCHANGED <<nextXid, xid, state, cursor, pc, batch, targets, got, pruned>>
  BY DEF Inv, UpdateEndpoint, DeleteEndpoint, journal, dispatching
<1> DEFINE Changed(e) == /\ SetEndpoint(w, e)
                         /\ e.enabled => e.there
                         /\ \/ e.there /\ delivery' = delivery
                            \/ delivery' = [delivery EXCEPT ![w] = [r \in Rows |-> "none"]]
<1>1. PICK e \in [there : BOOLEAN, enabled : BOOLEAN, wants : SUBSET Rows] : Changed(e)
  <2>1. ASSUME NEW e \in Endpoint, UpdateEndpoint(w, e)
        PROVE  Changed(e)
    BY <2>1 DEF UpdateEndpoint
  <2>2. CASE DeleteEndpoint(w)
    <3>1. Changed([there |-> FALSE, enabled |-> FALSE, wants |-> {}])
      BY <2>2 DEF DeleteEndpoint
    <3>2. [there |-> FALSE, enabled |-> FALSE, wants |-> {}] \in
              [there : BOOLEAN, enabled : BOOLEAN, wants : SUBSET Rows]
      OBVIOUS
    <3> HIDE DEF Changed
    <3> QED BY <3>1, <3>2
  <2>3. Endpoint \subseteq [there : BOOLEAN, enabled : BOOLEAN, wants : SUBSET Rows]
    BY DEF Endpoint
  <2> QED BY <2>1, <2>2, <2>3
<1>2. /\ endpoint' = [endpoint EXCEPT ![w] = e] /\ updates' = updates + 1
      /\ owed' = [owed EXCEPT ![w] = IF e.enabled THEN owed[w] \cap e.wants ELSE {}]
  BY <1>0, <1>1 DEF SetEndpoint, TypeOK
<1>3. TypeOK'
  <2>1. owed' \in [Endpoints -> SUBSET Rows] /\ updates' \in Nat
    BY <1>0, <1>2 DEF TypeOK
  <2>2. delivery' \in [Endpoints -> [Rows -> {"none", "pending", "succeeded", "failed"}]]
    <3>1. delivery \in [Endpoints -> [Rows -> {"none", "pending", "succeeded", "failed"}]]
      BY <1>0 DEF TypeOK
    <3>2. delivery' = delivery \/ delivery' = [delivery EXCEPT ![w] = [r \in Rows |-> "none"]]
      BY <1>1
    <3> QED BY <3>1, <3>2
  <2>3. endpoint' \in [Endpoints -> [there : BOOLEAN, enabled : BOOLEAN, wants : SUBSET Rows]]
    BY <1>0, <1>2 DEF TypeOK
  <2> QED BY <1>0, <2>1, <2>2, <2>3 DEF TypeOK, JournalTypeOK
<1>4. XidBound' /\ CursorVisible' /\ Lock' /\ BatchNext' /\ PrunedDispatched'
  BY <1>0 DEF Inv, XidBound, CursorVisible, Visible, Lock, Holding, BatchNext, Dispatched, Before, PrunedDispatched
<1>5. \A v \in Endpoints : owed'[v] \subseteq owed[v]
  BY <1>0, <1>2 DEF TypeOK
<1>6. OwedWanted'
  <2> SUFFICES ASSUME NEW v \in Endpoints, NEW r \in owed'[v]
               PROVE  endpoint'[v].there /\ endpoint'[v].enabled /\ r \in endpoint'[v].wants
    BY DEF OwedWanted, Wants
  <2>1. CASE v = w
    <3>1. endpoint'[w] = e /\ e.enabled /\ r \in e.wants
      BY <1>0, <1>2, <2>1 DEF TypeOK
    <3> QED BY <1>1, <2>1, <3>1
  <2>2. CASE v # w
    BY <1>0, <1>2, <2>2 DEF TypeOK, Inv, OwedWanted, Wants
  <2> QED BY <2>1, <2>2
<1>7. TargetsCover'
  BY <1>0, <1>5 DEF Inv, TargetsCover
<1>8. NoneMissed'
  BY <1>0, <1>5 DEF Inv, NoneMissed, Dispatched, Before
<1>9. DeliveriesBacked'
  <2> SUFFICES ASSUME NEW v \in Endpoints, NEW r \in Rows, delivery'[v][r] # "none"
               PROVE  endpoint'[v].there /\ r \notin pruned /\ state[r] = "committed" /\ Dispatched(r)
    BY <1>0 DEF DeliveriesBacked, Dispatched, Before
  <2>1. delivery[v][r] # "none" /\ (v = w => e.there)
    BY <1>0, <1>1 DEF TypeOK
  <2>2. endpoint[v].there /\ r \notin pruned /\ state[r] = "committed" /\ Dispatched(r)
    BY <2>1 DEF Inv, DeliveriesBacked
  <2> QED BY <1>0, <1>2, <2>1, <2>2 DEF TypeOK
<1> QED BY <1>3, <1>4, <1>6, <1>7, <1>8, <1>9 DEF Inv

\* A delivery is settled or retried: only its status changes.
LEMMA MoveInv ==
    ASSUME Inv, NEW w \in Endpoints, NEW r \in Rows, NEW s \in {"pending", "succeeded", "failed"}, Move(w, r, s)
    PROVE  Inv'
<1>0. /\ TypeOK
      /\ UNCHANGED <<nextXid, xid, state, endpoint, updates, owed, cursor, pc, batch, targets, got, pruned>>
      /\ delivery' = [delivery EXCEPT ![w][r] = s]
      /\ delivery[w][r] # "none"
  BY DEF Inv, Move, journal, subscriptions, dispatching, Status!Moves
<1>1. TypeOK'
  <2>1. delivery' \in [Endpoints -> [Rows -> {"none", "pending", "succeeded", "failed"}]]
    BY <1>0 DEF TypeOK
  <2> QED BY <1>0, <2>1 DEF TypeOK, JournalTypeOK
<1>2. XidBound' /\ CursorVisible' /\ Lock' /\ BatchNext' /\ PrunedDispatched'
  BY <1>0 DEF Inv, XidBound, CursorVisible, Visible, Lock, Holding, BatchNext, Dispatched, Before, PrunedDispatched
<1>3. OwedWanted' /\ TargetsCover' /\ NoneMissed'
  BY <1>0 DEF Inv, OwedWanted, Wants, TargetsCover, NoneMissed, Dispatched, Before
<1>4. \A v \in Endpoints, u \in Rows : delivery'[v][u] # "none" => delivery[v][u] # "none"
  BY <1>0 DEF TypeOK
<1>5. DeliveriesBacked'
  BY <1>0, <1>4 DEF Inv, DeliveriesBacked, Dispatched, Before
<1> QED BY <1>1, <1>2, <1>3, <1>5 DEF Inv

\* The steps of an instance that only read, or that end without an effect.
LEMMA ReadingInv ==
    ASSUME Inv, NEW i \in Instances,
           \/ ReadEvents(i) \/ ReadEndpoints(i) \/ RefuseDeliveries(i) \/ Abort(i)
           \/ \E r \in Rows : SelectOld(i, r + 1)
    PROVE  Inv'
<1> USE DispatchAssumption
<1>0. /\ TypeOK
      /\ UNCHANGED <<nextXid, xid, state, endpoint, updates, owed, cursor, got, delivery, pruned>>
  BY DEF Inv, ReadEvents, ReadEndpoints, RefuseDeliveries, Abort, SelectOld, Idle, journal, subscriptions
<1>1. /\ pc' \in [Instances -> {"idle", "read", "targets", "pruning"}]
      /\ batch' \in [Instances -> SUBSET Rows]
      /\ targets' \in [Instances -> SUBSET (Endpoints \X Rows)]
      /\ \A j \in Instances : j # i => pc'[j] = pc[j] /\ batch'[j] = batch[j] /\ targets'[j] = targets[j]
  <2>0. /\ pc \in [Instances -> {"idle", "read", "targets", "pruning"}]
        /\ batch \in [Instances -> SUBSET Rows] /\ targets \in [Instances -> SUBSET (Endpoints \X Rows)]
    BY <1>0 DEF TypeOK
  <2>1. CASE ReadEvents(i)
    <3>1. PICK B \in SUBSET Rows : batch' = [batch EXCEPT ![i] = B]
      BY <2>1 DEF ReadEvents, FirstOf, Queued
    <3> QED BY <2>0, <2>1, <3>1 DEF ReadEvents
  <2>2. CASE ReadEndpoints(i)
    <3>1. {d \in Endpoints \X batch[i] : Wants(d[1], d[2])} \in SUBSET (Endpoints \X Rows)
      BY <2>0
    <3> QED BY <2>0, <2>2, <3>1 DEF ReadEndpoints
  <2>3. CASE RefuseDeliveries(i) \/ Abort(i)
    BY <2>0, <2>3 DEF RefuseDeliveries, Abort, Idle
  <2>4. ASSUME NEW r \in Rows, SelectOld(i, r + 1)
        PROVE  <1>1!1 /\ <1>1!2 /\ <1>1!3 /\ <1>1!4
    <3>1. PICK B \in SUBSET Rows : batch' = [batch EXCEPT ![i] = B]
      BY <2>4 DEF SelectOld
    <3> QED BY <2>0, <2>4, <3>1 DEF SelectOld
  <2> QED BY <2>1, <2>2, <2>3, <2>4
<1>2. TypeOK'
  BY <1>0, <1>1 DEF TypeOK, JournalTypeOK
<1>3. XidBound' /\ CursorVisible' /\ OwedWanted' /\ NoneMissed' /\ DeliveriesBacked'
  BY <1>0 DEF Inv, XidBound, CursorVisible, Visible, OwedWanted, Wants, NoneMissed, DeliveriesBacked, Dispatched, Before
<1>4. /\ \A r, u \in Rows : Before(r, u)' <=> Before(r, u)
      /\ \A r \in Rows : (Visible(r)' <=> Visible(r)) /\ (Dispatched(r)' <=> Dispatched(r))
  BY <1>0 DEF Before, Visible, Dispatched
<1>5. Holding(i)' => Holding(i) \/ \A j \in Instances : ~Holding(j)
  BY <1>0 DEF TypeOK, ReadEvents, ReadEndpoints, RefuseDeliveries, Abort, SelectOld, Idle, Holding
<1>6. Lock'
  BY <1>1, <1>5 DEF Inv, Lock, Holding
<1>7. Holding(i)' =>
          /\ batch'[i] # {}
          /\ \A r \in batch'[i] : Visible(r) /\ ~Dispatched(r)
          /\ \A r \in batch'[i], u \in Rows :
                 state[u] = "committed" /\ ~Dispatched(u) /\ Before(u, r) => u \in batch'[i]
  <2>1. CASE ReadEvents(i)
    <3>1. PICK B \in FirstOf(Queued, BatchSize) \ {{}} : batch' = [batch EXCEPT ![i] = B]
      BY <2>1 DEF ReadEvents
    <3>2. batch'[i] = B /\ B # {} /\ B \subseteq Queued /\ \A r \in B, u \in Queued : Before(u, r) => u \in B
      BY <1>0, <3>1 DEF TypeOK, FirstOf
    <3>3. \A r \in B : r \in Rows /\ Visible(r) /\ ~Dispatched(r)
      BY <3>2 DEF Queued
    <3>4. ASSUME NEW r \in B, NEW u \in Rows, state[u] = "committed", ~Dispatched(u), Before(u, r)
          PROVE  u \in B
      <4>1. u \notin pruned
        BY <3>4 DEF Inv, PrunedDispatched
      <4>2. xid \in [Rows -> Nat] /\ r \in Rows
        BY <1>0, <3>3 DEF TypeOK, JournalTypeOK
      <4>3. xid[u] \in Nat /\ xid[r] \in Nat /\ xid[u] <= xid[r]
        BY <3>4, <4>2 DEF Before
      <4>4. Visible(r)
        BY <3>3
      <4>5. Visible(u)
        BY <3>4, <4>2, <4>3, <4>4 DEF Visible
      <4> QED BY <3>2, <3>4, <4>1, <4>5 DEF Queued
    <3> QED BY <3>2, <3>3, <3>4
  <2>2. CASE ReadEndpoints(i)
    <3>1. Holding(i) /\ batch'[i] = batch[i]
      BY <2>2 DEF ReadEndpoints, Holding
    <3> QED BY <3>1 DEF Inv, BatchNext
  <2>3. CASE RefuseDeliveries(i) \/ Abort(i) \/ \E r \in Rows : SelectOld(i, r + 1)
    BY <1>0, <2>3 DEF TypeOK, RefuseDeliveries, Abort, Idle, SelectOld, Holding
  <2> QED BY <2>1, <2>2, <2>3
<1>8. BatchNext'
  <2>1. ASSUME NEW j \in Instances, j # i, Holding(j)'
        PROVE  Holding(j) /\ batch'[j] = batch[j]
    BY <1>1, <2>1 DEF Holding
  <2> QED BY <1>0, <1>1, <1>4, <1>7, <2>1 DEF Inv, BatchNext
<1>9. TargetsCover'
  <2>1. ASSUME pc'[i] = "targets"
        PROVE  /\ \A w \in Endpoints, r \in Rows : <<w, r>> \in targets'[i] => r \in batch'[i]
               /\ \A w \in Endpoints, r \in batch'[i] : r \in owed[w] => <<w, r>> \in targets'[i]
    <3>1. ReadEndpoints(i)
      BY <1>0, <2>1 DEF TypeOK, ReadEvents, RefuseDeliveries, Abort, Idle, SelectOld
    <3>2. targets'[i] = {d \in Endpoints \X batch[i] : Wants(d[1], d[2])} /\ batch'[i] = batch[i]
      BY <1>0, <3>1 DEF ReadEndpoints, TypeOK
    <3> QED BY <3>2 DEF Inv, OwedWanted
  <2> QED BY <1>0, <1>1, <2>1 DEF Inv, TargetsCover
<1>10. PrunedDispatched'
  <2>1. ASSUME pc'[i] = "pruning", NEW r \in batch'[i]
        PROVE  state[r] = "committed" /\ Dispatched(r)
    <3>1. PICK u \in Rows : SelectOld(i, u + 1)
      BY <1>0, <2>1 DEF TypeOK, ReadEvents, ReadEndpoints, RefuseDeliveries, Abort, Idle
    <3>2. \E B \in SUBSET {t \in Rows : Settled(t)} : batch' = [batch EXCEPT ![i] = B]
      BY <3>1 DEF SelectOld
    <3>3. batch'[i] \subseteq {t \in Rows : Settled(t)}
      BY <1>0, <3>2 DEF TypeOK
    <3> QED BY <2>1, <3>3 DEF Settled
  <2>2. \A r \in pruned : r \in Rows
    BY <1>0 DEF TypeOK
  <2> QED BY <1>0, <1>1, <1>4, <2>1, <2>2 DEF Inv, PrunedDispatched, TypeOK
<1> QED BY <1>2, <1>3, <1>6, <1>8, <1>9, <1>10 DEF Inv

\* Prune deletes: what it deletes is dispatched, so none of it is in a batch of Dispatch.
LEMMA DeleteOldInv ==
    ASSUME Inv, NEW i \in Instances, DeleteOld(i)
    PROVE  Inv'
<1> USE DispatchAssumption
<1>0. /\ TypeOK
      /\ UNCHANGED <<nextXid, xid, state, endpoint, updates, owed, cursor, got>>
      /\ pc[i] = "pruning" /\ pruned' = pruned \cup batch[i]
      /\ delivery' = [w \in Endpoints |-> [r \in Rows |-> IF r \in batch[i] THEN "none" ELSE delivery[w][r]]]
      /\ pc' = [pc EXCEPT ![i] = "idle"]
      /\ batch' = [batch EXCEPT ![i] = {}]
      /\ targets' = [targets EXCEPT ![i] = {}]
  BY DEF Inv, DeleteOld, Idle, journal, subscriptions
<1>1. TypeOK'
  <2>1. delivery' \in [Endpoints -> [Rows -> {"none", "pending", "succeeded", "failed"}]]
    <3>1. delivery \in [Endpoints -> [Rows -> {"none", "pending", "succeeded", "failed"}]]
      BY <1>0 DEF TypeOK
    <3> QED BY <1>0, <3>1
  <2>2. /\ pc' \in [Instances -> {"idle", "read", "targets", "pruning"}] /\ batch' \in [Instances -> SUBSET Rows]
        /\ targets' \in [Instances -> SUBSET (Endpoints \X Rows)] /\ pruned' \in SUBSET Rows
    BY <1>0 DEF TypeOK
  <2> QED BY <1>0, <2>1, <2>2 DEF TypeOK, JournalTypeOK
<1>2. /\ \A j \in Instances : j # i => pc'[j] = pc[j] /\ batch'[j] = batch[j] /\ targets'[j] = targets[j]
      /\ pc'[i] = "idle"
  BY <1>0 DEF TypeOK
<1>3. /\ \A r, u \in Rows : Before(r, u)' <=> Before(r, u)
      /\ \A r \in Rows : (Visible(r)' <=> Visible(r)) /\ (Dispatched(r)' <=> Dispatched(r))
  BY <1>0 DEF Before, Visible, Dispatched
<1>4. XidBound' /\ CursorVisible' /\ OwedWanted' /\ NoneMissed'
  BY <1>0 DEF Inv, XidBound, CursorVisible, Visible, OwedWanted, Wants, NoneMissed, Dispatched, Before
<1>5. Lock' /\ TargetsCover'
  BY <1>0, <1>2 DEF Inv, Lock, Holding, TargetsCover
<1>6. BatchNext'
  BY <1>0, <1>1, <1>2, <1>3 DEF Inv, BatchNext, Holding, TypeOK
<1>7. \A r \in batch[i] : r \in Rows /\ state[r] = "committed" /\ Dispatched(r)
  BY <1>0 DEF Inv, PrunedDispatched, TypeOK
<1>8. PrunedDispatched'
  BY <1>0, <1>1, <1>2, <1>3, <1>7 DEF Inv, PrunedDispatched, TypeOK
<1>9. DeliveriesBacked'
  <2>1. \A w \in Endpoints, r \in Rows : delivery'[w][r] # "none" => delivery[w][r] # "none" /\ r \notin batch[i]
    BY <1>0
  <2> QED BY <1>0, <1>3, <2>1 DEF Inv, DeliveriesBacked
<1> QED BY <1>1, <1>4, <1>5, <1>6, <1>8, <1>9 DEF Inv

\* The deliveries of a batch are inserted and the cursor moves to its last event: what it
\* passes is what it was, and the batch, each of which goes to whoever it is owed to.
LEMMA InsertDeliveriesInv ==
    ASSUME Inv, NEW i \in Instances, InsertDeliveries(i)
    PROVE  Inv'
<1> USE DispatchAssumption
<1>0. /\ TypeOK
      /\ UNCHANGED <<nextXid, xid, state, endpoint, updates, owed, pruned>>
      /\ pc[i] = "targets" /\ \A d \in targets[i] : endpoint[d[1]].there
      /\ delivery' = [w \in Endpoints |-> [r \in Rows |->
             IF <<w, r>> \in targets[i] /\ delivery[w][r] = "none" THEN "pending" ELSE delivery[w][r]]]
      /\ got' = [w \in Endpoints |-> got[w] \cup {r \in Rows : <<w, r>> \in targets[i]}]
      /\ cursor' = Last(batch[i])
      /\ pc' = [pc EXCEPT ![i] = "idle"]
      /\ batch' = [batch EXCEPT ![i] = {}]
      /\ targets' = [targets EXCEPT ![i] = {}]
  BY DEF Inv, InsertDeliveries, Idle, journal, subscriptions
<1> DEFINE B == batch[i]
           c == Last(batch[i])
<1>1. /\ xid \in [Rows -> Nat] /\ Rows \subseteq Nat \ {0}
      /\ B \in SUBSET Rows /\ B # {} /\ \A r \in B : Visible(r) /\ ~Dispatched(r)
      /\ \A r \in B, u \in Rows : state[u] = "committed" /\ ~Dispatched(u) /\ Before(u, r) => u \in B
  BY <1>0 DEF Inv, TypeOK, JournalTypeOK, BatchNext, Holding
<1>2. c \in B /\ \A u \in B : u = c \/ Before(u, c)
  BY <1>1, LastOf
<1>3. /\ c \in Rows /\ c # 0 /\ cursor' = c
      /\ \A r \in Rows : Dispatched(r)' <=> ~Before(c, r)
      /\ \A r \in Rows : Visible(r)' <=> Visible(r)
  BY <1>0, <1>1, <1>2 DEF Dispatched, Before, Visible
<1>4. \A r \in Rows : Dispatched(r) => Dispatched(r)'
  <2>1. Visible(c) /\ ~Dispatched(c)
    BY <1>1, <1>2
  <2> SUFFICES ASSUME NEW r \in Rows, cursor # 0, ~Before(cursor, r)
               PROVE  ~Before(c, r)
    BY <1>3 DEF Dispatched
  <2>2. cursor \in Rows /\ Before(cursor, c)
    BY <1>0, <2>1 DEF TypeOK, Dispatched
  <2> QED BY <1>1, <1>3, <2>2, BeforeOrder
<1>5. \A r \in B : Dispatched(r)'
  BY <1>1, <1>2, <1>3, BeforeOrder
<1>6. ASSUME NEW r \in Rows, state[r] = "committed", Dispatched(r)', ~Dispatched(r)
      PROVE  r \in B
  <2>1. r = c \/ Before(r, c)
    BY <1>1, <1>3, <1>6, BeforeOrder
  <2> QED BY <1>1, <1>2, <1>6, <2>1
<1>7. TypeOK'
  <2>1. delivery' \in [Endpoints -> [Rows -> {"none", "pending", "succeeded", "failed"}]]
    <3>1. delivery \in [Endpoints -> [Rows -> {"none", "pending", "succeeded", "failed"}]]
      BY <1>0 DEF TypeOK
    <3> QED BY <1>0, <3>1
  <2>2. /\ pc' \in [Instances -> {"idle", "read", "targets", "pruning"}] /\ batch' \in [Instances -> SUBSET Rows]
        /\ targets' \in [Instances -> SUBSET (Endpoints \X Rows)] /\ got' \in [Endpoints -> SUBSET Rows]
    BY <1>0 DEF TypeOK
  <2>3. cursor' \in Rows \cup {0}
    BY <1>3
  <2> QED BY <1>0, <2>1, <2>2, <2>3 DEF TypeOK, JournalTypeOK
<1>8. /\ \A j \in Instances : j # i => pc'[j] = pc[j] /\ batch'[j] = batch[j] /\ targets'[j] = targets[j]
      /\ pc'[i] = "idle"
  BY <1>0 DEF TypeOK
<1>9. \A j \in Instances : ~Holding(j)'
  BY <1>0, <1>8 DEF Inv, Lock, Holding
<1>10. XidBound' /\ OwedWanted' /\ Lock' /\ BatchNext' /\ TargetsCover'
  BY <1>0, <1>9 DEF Inv, XidBound, OwedWanted, Wants, Lock, BatchNext, TargetsCover, Holding
<1>11. CursorVisible'
  <2>1. state[c] = "committed" /\ \A u \in Rows : state[u] = "open" => xid[c] < xid[u]
    BY <1>1, <1>2 DEF Visible
  <2> QED BY <1>0, <2>1 DEF CursorVisible, Visible
<1>12. PrunedDispatched'
  <2>1. \A j \in Instances : pc'[j] = "pruning" => pc[j] = "pruning" /\ batch'[j] = batch[j]
    BY <1>8
  <2> QED BY <1>0, <1>4, <2>1 DEF Inv, PrunedDispatched, TypeOK
<1>13. NoneMissed'
  <2> SUFFICES ASSUME NEW w \in Endpoints, NEW r \in owed[w], state[r] = "committed", Dispatched(r)'
               PROVE  r \in got'[w]
    BY <1>0 DEF NoneMissed
  <2>1. r \in Rows
    BY <1>0 DEF TypeOK
  <2>2. CASE Dispatched(r)
    BY <1>0, <2>2 DEF Inv, NoneMissed
  <2>3. CASE ~Dispatched(r)
    <3>1. r \in B
      BY <1>6, <2>1, <2>3
    <3>2. <<w, r>> \in targets[i]
      BY <1>0, <3>1 DEF Inv, TargetsCover
    <3> QED BY <1>0, <2>1, <3>2
  <2> QED BY <2>2, <2>3
<1>14. DeliveriesBacked'
  <2> SUFFICES ASSUME NEW w \in Endpoints, NEW r \in Rows, delivery'[w][r] # "none"
               PROVE  endpoint[w].there /\ r \notin pruned /\ state[r] = "committed" /\ Dispatched(r)'
    BY <1>0 DEF DeliveriesBacked
  <2>1. CASE delivery[w][r] # "none"
    BY <1>4, <2>1 DEF Inv, DeliveriesBacked
  <2>2. CASE delivery[w][r] = "none"
    <3>1. <<w, r>> \in targets[i]
      BY <1>0, <2>2
    <3>2. r \in B
      BY <1>0, <3>1 DEF Inv, TargetsCover
    <3>3. endpoint[w].there
      BY <1>0, <3>1
    <3>4. state[r] = "committed" /\ ~Dispatched(r)
      BY <1>1, <3>2 DEF Visible
    <3>5. r \notin pruned
      BY <3>4 DEF Inv, PrunedDispatched
    <3> QED BY <1>5, <3>2, <3>3, <3>4, <3>5
  <2> QED BY <2>1, <2>2
<1> QED BY <1>7, <1>10, <1>11, <1>12, <1>13, <1>14 DEF Inv

\* Every step keeps the inductive invariant.
LEMMA NextInv == Inv /\ [Next]_vars => Inv'
<1> SUFFICES ASSUME Inv, [Next]_vars PROVE Inv'
  OBVIOUS
<1>1. CASE \E S \in SUBSET Rows : Publish(S)
  BY <1>1, PublishInv
<1>2. CASE \E x \in 1 .. nextXid : EndPublishing(x)
  BY <1>2, EndPublishingInv
<1>3. CASE \E w \in Endpoints : (\E e \in Endpoint : UpdateEndpoint(w, e)) \/ DeleteEndpoint(w)
  BY <1>3, EndpointInv
<1>4. CASE \E w \in Endpoints, r \in Rows, s \in {"pending", "succeeded", "failed"} : Move(w, r, s)
  BY <1>4, MoveInv
<1>5. CASE \E i \in Instances : Dispatch(i) \/ DeleteOld(i) \/ Abort(i)
  BY <1>5, ReadingInv, InsertDeliveriesInv, DeleteOldInv DEF Dispatch
<1>6. CASE \E i \in Instances, r \in Rows : SelectOld(i, r + 1)
  BY <1>6, ReadingInv
<1>7. CASE UNCHANGED vars
  BY <1>7 DEF vars, Inv, TypeOK, JournalTypeOK, XidBound, CursorVisible, Visible, Lock, Holding, BatchNext,
              Dispatched, Before, OwedWanted, Wants, TargetsCover, PrunedDispatched, NoneMissed, DeliveriesBacked
<1> QED BY <1>1, <1>2, <1>3, <1>4, <1>5, <1>6, <1>7 DEF Next

\* The inductive invariant holds of every behaviour of the event feed.
THEOREM InvHolds == Spec => []Inv
BY InitInv, NextInv, PTL DEF Spec

\* No event is lost: an event that the cursor has passed was delivered to every endpoint
\* that has wanted it since it committed, though transactions commit out of the order of
\* their ids, endpoints change while Dispatch works, and Prune deletes rows (nextEvents).
THEOREM NoneMissedHolds == Spec => []NoneMissed
<1>1. Inv => NoneMissed
  BY DEF Inv
<1> QED BY <1>1, InvHolds, PTL

\* A delivery is of an endpoint that is there and of an event that is committed,
\* dispatched and not deleted (insertDeliveries, Prune).
THEOREM DeliveriesBackedHolds == Spec => []DeliveriesBacked
<1>1. Inv => DeliveriesBacked
  BY DEF Inv
<1> QED BY <1>1, InvHolds, PTL

===============================================================================
