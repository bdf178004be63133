-------------------------------- MODULE ApiKeys --------------------------------
(***************************************************************************)
(* internal/kernel/auth: API keys, the cache that every instance of the    *)
(* program keeps of them, and their revocation.  Authenticate takes the    *)
(* time once, when it starts, though its read of the database may end much *)
(* later.  Tokens are presented with their right secret.                   *)
(***************************************************************************)
EXTENDS Integers, FiniteSets

CONSTANTS
    ApiKeys,
    RoleOf,       \* key -> "admin", "write" or "read"
    ExpiryOf,     \* key -> expires_at; Never if it is NULL
    Instances,
    Handlers,     \* requests
    InstanceOf,   \* request -> the instance it comes to
    NoKey,
    CacheTTL,
    MaxTime       \* bound on the clock

Never == MaxTime + 1

ASSUME ApiKeysAssumption ==
    /\ NoKey \notin ApiKeys
    /\ InstanceOf \in [Handlers -> Instances]
    /\ CacheTTL \in Nat \ {0} /\ MaxTime \in Nat
    /\ \A k \in ApiKeys : ExpiryOf[k] \in 1 .. Never

VARIABLES
    clock,
    created,     \* keys that are in api_keys
    revokedAt,   \* key -> when its revocation was committed, or Never
    cache,       \* instance -> key -> [expires, revoked]
    request,     \* request -> [step, key, now, revoked]
    revoking     \* instance -> [step, key, start]: a revocation it makes

keyVars == <<clock, created, revokedAt, cache, request, revoking>>

\* No entry.  What touch leaves behind for a key that was just deleted from the cache
\* has a zero expiry too, and is never a hit.
NoEntry == [expires |-> -1, revoked |-> FALSE]

NoRequest == [step |-> "new", key |-> NoKey, now |-> 0, revoked |-> FALSE]
NoRevocation == [step |-> "idle", key |-> NoKey, start |-> 0]

Revoked(k) == revokedAt[k] # Never

Tick ==
    /\ clock < MaxTime
    /\ clock' = clock + 1
    /\ UNCHANGED <<created, revokedAt, cache, request, revoking>>

CreateKey(k) ==
    /\ k \notin created
    /\ clock < ExpiryOf[k]
    /\ created' = created \cup {k}
    /\ UNCHANGED <<clock, revokedAt, cache, request, revoking>>

-------------------------------------------------------------------------------
(***************************************************************************)
(* Authenticate, called by Middleware before it looks at the role.         *)
(***************************************************************************)

\* The end of Authenticate for a key that was or was not revoked when it was read.  Of
\* a request that is refused nothing else is kept.
Answer(r, revoked) ==
    IF revoked \/ r.now >= ExpiryOf[r.key] THEN [NoRequest EXCEPT !.step = "unauthorized"]
    ELSE [NoRequest EXCEPT !.step = "served", !.key = r.key, !.now = r.now]

\* The cache is looked up under the lock, and the request answered from it.
Lookup(h, k) ==
    LET i == InstanceOf[h]
        r == [step |-> "new", key |-> k, now |-> clock, revoked |-> FALSE]
    IN  /\ request[h].step = "new"
        /\ \/ /\ clock <= cache[i][k].expires
              /\ request' = [request EXCEPT ![h] = Answer(r, cache[i][k].revoked)]
           \/ /\ clock > cache[i][k].expires
              /\ request' = [request EXCEPT ![h] = [r EXCEPT !.step = "reading"]]
        /\ UNCHANGED <<clock, created, revokedAt, cache, revoking>>

\* The row is read, without the lock.
ReadKey(h) ==
    /\ request[h].step = "reading"
    /\ request[h].key \in created
    /\ request' = [request EXCEPT ![h].step = "read", ![h].revoked = Revoked(request[h].key)]
    /\ UNCHANGED <<clock, created, revokedAt, cache, revoking>>

\* There is no such row, or the database does not answer: nothing is cached.
ReadFails(h) ==
    /\ request[h].step = "reading"
    /\ request' = [request EXCEPT ![h] = [NoRequest EXCEPT !.step = "failed"]]
    /\ UNCHANGED <<clock, created, revokedAt, cache, revoking>>

\* Mutant: the entry is kept for CacheTTL from when it is stored.
CachedUntilFromNow(r) == clock + CacheTTL

CachedUntil(r) == r.now + CacheTTL

StoreKey(h) ==
    LET r == request[h]
    IN  /\ r.step = "read"
        /\ cache' = [cache EXCEPT ![InstanceOf[h]][r.key] = [expires |-> CachedUntil(r), revoked |-> r.revoked]]
        /\ request' = [request EXCEPT ![h] = Answer(r, r.revoked)]
        /\ UNCHANGED <<clock, created, revokedAt, revoking>>

-------------------------------------------------------------------------------
(***************************************************************************)
(* Revoke.                                                                 *)
(***************************************************************************)

\* The transaction begins, and now() is its start; it waits for the advisory lock.
BeginRevoke(i, k) ==
    /\ revoking[i] = NoRevocation
    /\ k \in created
    /\ revoking' = [revoking EXCEPT ![i] = [step |-> "waiting", key |-> k, start |-> clock]]
    /\ UNCHANGED <<clock, created, revokedAt, cache, request>>

\* Mutant: pg_advisory_xact_lock is not called.
RevokeLockFreeAlways(i) == TRUE

RevokeLockFree(i) == \A j \in Instances \ {i} : revoking[j].step # "decided"

OtherAdmins(i) ==
    {k \in created \ {revoking[i].key} :
        RoleOf[k] = "admin" /\ ~Revoked(k) /\ ExpiryOf[k] > revoking[i].start}

\* The lock is taken and the key looked at: it may be revoked already (only the cache is
\* cleared then), or the last admin.
DecideRevoke(i) ==
    LET k == revoking[i].key
        last == RoleOf[k] = "admin" /\ OtherAdmins(i) = {}
    IN  /\ revoking[i].step = "waiting"
        /\ RevokeLockFree(i)
        /\ revoking' = [revoking EXCEPT ![i] =
               IF Revoked(k) THEN [@ EXCEPT !.step = "committed"]
               ELSE IF last THEN NoRevocation ELSE [@ EXCEPT !.step = "decided"]]
        /\ UNCHANGED <<clock, created, revokedAt, cache, request>>

CommitRevoke(i) ==
    /\ revoking[i].step = "decided"
    /\ revokedAt' = [revokedAt EXCEPT ![revoking[i].key] = clock]
    /\ revoking' = [revoking EXCEPT ![i].step = "committed"]
    /\ UNCHANGED <<clock, created, cache, request>>

DropCached(i) ==
    /\ revoking[i].step = "committed"
    /\ cache' = [cache EXCEPT ![i][revoking[i].key] = NoEntry]
    /\ revoking' = [revoking EXCEPT ![i] = NoRevocation]
    /\ UNCHANGED <<clock, created, revokedAt, request>>

ApiKeysInit ==
    /\ clock = 0
    /\ created = {}
    /\ revokedAt = [k \in ApiKeys |-> Never]
    /\ cache = [i \in Instances |-> [k \in ApiKeys |-> NoEntry]]
    /\ request = [h \in Handlers |-> NoRequest]
    /\ revoking = [i \in Instances |-> NoRevocation]

ApiKeysStep ==
    \/ Tick
    \/ \E k \in ApiKeys : CreateKey(k)
    \/ \E h \in Handlers, k \in ApiKeys : Lookup(h, k)
    \/ \E h \in Handlers : ReadKey(h) \/ ReadFails(h) \/ StoreKey(h)
    \/ \E i \in Instances, k \in ApiKeys : BeginRevoke(i, k)
    \/ \E i \in Instances : DecideRevoke(i) \/ CommitRevoke(i) \/ DropCached(i)

-------------------------------------------------------------------------------

\* A revocation reaches every instance within the cache window: no request that starts
\* later is served, though a read from before the revocation may be cached after the
\* instance has dropped the key from its cache (Authenticate, Revoke).
RevokedIsRefused ==
    \A h \in Handlers :
        request[h].step = "served" /\ Revoked(request[h].key) =>
            request[h].now <= revokedAt[request[h].key] + CacheTTL

\* Revocations that run at the same time never take the last admin: when the key of an
\* admin is revoked, there is another whose key is not, and had not expired when the
\* revocation began (Revoke).
LastAdminStays ==
    [][\A i \in Instances :
        revoking[i].step = "decided" /\ RoleOf[revoking[i].key] = "admin" /\ revokedAt' # revokedAt
            => OtherAdmins(i) # {}]_keyVars
===============================================================================
