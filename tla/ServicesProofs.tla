---------------------------- MODULE ServicesProofs ----------------------------
(***************************************************************************)
(* What the services of Services promise, for any number of keys,          *)
(* requests, instances, transactions, settlements, statements, categories, *)
(* callers and patches.  A step of Services is a step of one service and   *)
(* leaves the variables of the others alone, so each has an invariant of   *)
(* its own.                                                                *)
(***************************************************************************)
EXTENDS Services, SumsTheorems

\* A step of the composition is a step of each service, or none of it.
LEMMA StepOfEach ==
    ASSUME [Next]_vars
    PROVE  /\ [ApiKeysStep]_keyVars
           /\ [CategoriesStep]_categoryVars
           /\ [DetailsStep]_detailVars
           /\ [MonitorsStep]_monitorVars
           /\ [MoneyStep]_operands
           /\ UNCHANGED part
BY DEF Next, vars, SettlementsNext, StatementsNext, CategoriesNext, ApiKeysNext, MonitorsNext, DetailsNext, MoneyNext

-------------------------------------------------------------------------------
(***************************************************************************)
(* API keys.                                                               *)
(***************************************************************************)

Entry == [expires : Int, revoked : BOOLEAN]
Request == [step : {"new", "reading", "read", "served", "unauthorized", "failed"},
            key : ApiKeys \cup {NoKey}, now : Nat, revoked : BOOLEAN]
Revocation == [step : {"idle", "waiting", "decided", "committed"}, key : ApiKeys \cup {NoKey}, start : Nat]

KeysTypeOK ==
    /\ clock \in Nat /\ clock <= MaxTime
    /\ created \in SUBSET ApiKeys
    /\ revokedAt \in [ApiKeys -> Nat]
    /\ cache \in [Instances -> [ApiKeys -> Entry]]
    /\ request \in [Handlers -> Request]
    /\ revoking \in [Instances -> Revocation]

\* Keys are named where there is one to name.
KeysNamed ==
    /\ \A h \in Handlers : request[h].step \in {"reading", "read", "served"} => request[h].key \in ApiKeys
    /\ \A i \in Instances : revoking[i].step # "idle" => revoking[i].key \in ApiKeys

TimesPast ==
    /\ \A k \in ApiKeys : Revoked(k) => revokedAt[k] <= clock
    /\ \A h \in Handlers : request[h].now <= clock

\* A row that was read before its key was revoked was asked for before that too.
ReadHonest ==
    \A h \in Handlers :
        request[h].step = "read" /\ ~request[h].revoked /\ Revoked(request[h].key)
            => request[h].now <= revokedAt[request[h].key]

\* No entry outlives the window, nor hides a revocation for longer.
CacheHonest ==
    \A i \in Instances, k \in ApiKeys :
        /\ cache[i][k].expires <= clock + CacheTTL
        /\ cache[i][k].expires >= 0 /\ ~cache[i][k].revoked /\ Revoked(k)
               => cache[i][k].expires <= revokedAt[k] + CacheTTL

\* The advisory lock.
OneDecides == \A i, j \in Instances : revoking[i].step = "decided" /\ revoking[j].step = "decided" => i = j

\* Between the check and the commit, the other admin stays one.
AdminLeft ==
    \A i \in Instances :
        revoking[i].step = "decided" /\ RoleOf[revoking[i].key] = "admin" => OtherAdmins(i) # {}

KeysInv ==
    /\ KeysTypeOK /\ KeysNamed /\ TimesPast
    /\ ReadHonest /\ CacheHonest /\ RevokedIsRefused
    /\ OneDecides /\ AdminLeft

\* What the records without content are.
LEMMA Nothings ==
    /\ NoEntry \in Entry /\ NoEntry.expires = -1
    /\ NoRequest \in Request /\ NoRequest.step = "new" /\ NoRequest.now = 0
    /\ NoRevocation \in Revocation /\ NoRevocation.step = "idle"
    /\ Never \in Nat /\ Never = MaxTime + 1 /\ MaxTime \in Nat /\ CacheTTL \in Nat
BY ApiKeysAssumption DEF NoEntry, Entry, NoRequest, Request, NoRevocation, Revocation, Never

\* The invariant holds before there is a key.
LEMMA KeysInitInv == ApiKeysInit => KeysInv
<1> SUFFICES ASSUME ApiKeysInit PROVE KeysInv
  OBVIOUS
<1>1. \A k \in ApiKeys : ~Revoked(k)
  BY DEF ApiKeysInit, Revoked
<1>2. KeysTypeOK
  BY Nothings DEF ApiKeysInit, KeysTypeOK
<1>3. \A h \in Handlers : request[h] = NoRequest
  BY DEF ApiKeysInit
<1>4. \A i \in Instances : revoking[i] = NoRevocation
  BY DEF ApiKeysInit
<1>5. KeysNamed /\ TimesPast /\ ReadHonest /\ RevokedIsRefused
  BY <1>1, <1>2, <1>3, <1>4, Nothings DEF KeysNamed, TimesPast, ReadHonest, RevokedIsRefused, KeysTypeOK
<1>6. \A i \in Instances, k \in ApiKeys : cache[i][k] = NoEntry
  BY DEF ApiKeysInit
<1>7. CacheHonest /\ OneDecides /\ AdminLeft
  BY <1>1, <1>2, <1>4, <1>6, Nothings DEF CacheHonest, OneDecides, AdminLeft, KeysTypeOK
<1> QED BY <1>2, <1>5, <1>7 DEF KeysInv

\* Steps that touch neither requests nor caches nor revocations.
LEMMA QuietKeysInv ==
    ASSUME KeysInv, Tick \/ \E k \in ApiKeys : CreateKey(k)
    PROVE  KeysInv'
<1>0. KeysTypeOK /\ KeysNamed /\ TimesPast
  BY DEF KeysInv
<1>1. UNCHANGED <<revokedAt, cache, request, revoking>>
  BY DEF Tick, CreateKey
<1>2. clock' \in Nat /\ clock <= clock' /\ clock' <= MaxTime /\ created \subseteq created' /\ created' \in SUBSET ApiKeys
  BY <1>0, ApiKeysAssumption DEF Tick, CreateKey, KeysTypeOK
<1>3. KeysTypeOK'
  BY <1>0, <1>1, <1>2 DEF KeysTypeOK
<1>4. TimesPast'
  <2>1. (\A k \in ApiKeys : revokedAt[k] \in Nat) /\ (\A h \in Handlers : request[h].now \in Nat) /\ clock \in Nat
    BY <1>0 DEF KeysTypeOK, Request
  <2> QED BY <1>0, <1>1, <1>2, <2>1 DEF TimesPast, Revoked
<1>5. KeysNamed' /\ ReadHonest' /\ RevokedIsRefused' /\ OneDecides'
  BY <1>0, <1>1 DEF KeysInv, KeysNamed, ReadHonest, RevokedIsRefused, OneDecides, Revoked
<1>6. AdminLeft'
  BY <1>1, <1>2 DEF KeysInv, AdminLeft, OtherAdmins, Revoked
<1>7. CacheHonest'
  <2>1. clock \in Nat /\ \A i \in Instances, k \in ApiKeys : cache[i][k].expires \in Int
    BY <1>0 DEF KeysTypeOK, Entry
  <2> QED BY <1>1, <1>2, <2>1, Nothings DEF KeysInv, CacheHonest, Revoked
<1> QED BY <1>3, <1>4, <1>5, <1>6, <1>7 DEF KeysInv

\* A request as it may be in the present state.
MayBe(r) ==
    /\ r \in Request
    /\ r.now <= clock
    /\ r.step \in {"reading", "read", "served"} => r.key \in ApiKeys
    /\ r.step = "read" /\ ~r.revoked /\ Revoked(r.key) => r.now <= revokedAt[r.key]
    /\ r.step = "served" /\ Revoked(r.key) => r.now <= revokedAt[r.key] + CacheTTL

\* One request changes, and nothing else but, maybe, an entry of the cache.
LEMMA RequestInv ==
    ASSUME KeysInv, NEW h \in Handlers, NEW r, MayBe(r),
           request' = [request EXCEPT ![h] = r],
           UNCHANGED <<clock, created, revokedAt, revoking>>,
           cache' \in [Instances -> [ApiKeys -> Entry]], CacheHonest'
    PROVE  KeysInv'
<1>0. /\ KeysTypeOK /\ KeysNamed /\ TimesPast /\ ReadHonest /\ RevokedIsRefused /\ OneDecides /\ AdminLeft
      /\ request \in [Handlers -> Request]
  BY DEF KeysInv, KeysTypeOK
<1>1. \A g \in Handlers : request'[g] = IF g = h THEN r ELSE request[g]
  BY <1>0
<1>2. KeysTypeOK'
  BY <1>0 DEF KeysTypeOK, MayBe
<1>3. \A k : Revoked(k)' = Revoked(k)
  BY DEF Revoked
<1>4. KeysNamed' /\ TimesPast'
  BY <1>0, <1>1, <1>3 DEF MayBe, KeysNamed, TimesPast
<1>5. ReadHonest' /\ RevokedIsRefused'
  BY <1>0, <1>1, <1>3 DEF MayBe, ReadHonest, RevokedIsRefused
<1>6. OneDecides' /\ AdminLeft'
  BY <1>0 DEF OneDecides, AdminLeft, OtherAdmins, Revoked
<1> QED BY <1>2, <1>4, <1>5, <1>6 DEF KeysInv

\* The end of Authenticate.
LEMMA AnswerIs ==
    ASSUME NEW r \in Request, NEW revoked \in BOOLEAN
    PROVE  /\ Answer(r, revoked) \in Request
           /\ Answer(r, revoked).step \in {"unauthorized", "served"}
           /\ Answer(r, revoked).step = "unauthorized" => Answer(r, revoked).now = 0
           /\ Answer(r, revoked).step = "served" =>
                  ~revoked /\ Answer(r, revoked).key = r.key /\ Answer(r, revoked).now = r.now
<1>1. CASE revoked \/ r.now >= ExpiryOf[r.key]
  <2>1. Answer(r, revoked) = [NoRequest EXCEPT !.step = "unauthorized"]
    BY <1>1 DEF Answer
  <2> QED BY <2>1, Nothings DEF Request
<1>2. CASE ~(revoked \/ r.now >= ExpiryOf[r.key])
  <2>1. Answer(r, revoked) = [NoRequest EXCEPT !.step = "served", !.key = r.key, !.now = r.now]
    BY <1>2 DEF Answer
  <2> QED BY <1>2, <2>1, Nothings DEF Request
<1> QED BY <1>1, <1>2

\* The cache is looked up.
LEMMA LookupInv ==
    ASSUME KeysInv, NEW h \in Handlers, NEW k \in ApiKeys, Lookup(h, k)
    PROVE  KeysInv'
<1> DEFINE i == InstanceOf[h]
           r == [step |-> "new", key |-> k, now |-> clock, revoked |-> FALSE]
<1>0. /\ UNCHANGED <<clock, created, revokedAt, cache, revoking>>
      /\ \/ clock <= cache[i][k].expires /\ request' = [request EXCEPT ![h] = Answer(r, cache[i][k].revoked)]
         \/ request' = [request EXCEPT ![h] = [r EXCEPT !.step = "reading"]]
  BY DEF Lookup
<1>1. /\ clock \in Nat /\ cache \in [Instances -> [ApiKeys -> Entry]] /\ CacheHonest
      /\ revokedAt \in [ApiKeys -> Nat]
  BY DEF KeysInv, KeysTypeOK
<1>2. i \in Instances
  BY ApiKeysAssumption
<1>3. r \in Request /\ r.key = k /\ r.now = clock
  BY <1>1 DEF Request
<1>4. CacheHonest' /\ cache' \in [Instances -> [ApiKeys -> Entry]]
  BY <1>0, <1>1 DEF CacheHonest, Revoked
<1> HIDE DEF i, r
<1>5. CASE clock <= cache[i][k].expires /\ request' = [request EXCEPT ![h] = Answer(r, cache[i][k].revoked)]
  <2> DEFINE a == Answer(r, cache[i][k].revoked)
  <2>1. cache[i][k].revoked \in BOOLEAN /\ cache[i][k].expires \in Int
    BY <1>1, <1>2 DEF Entry
  <2>2. /\ a \in Request /\ a.step \in {"unauthorized", "served"} /\ (a.step = "unauthorized" => a.now = 0)
        /\ a.step = "served" => ~cache[i][k].revoked /\ a.key = k /\ a.now = clock
    BY <1>3, <2>1, AnswerIs
  <2>3. a.now <= clock
    BY <1>1, <2>2
  <2> HIDE DEF a
  <2>4. a.step = "served" /\ Revoked(a.key) => a.now <= revokedAt[a.key] + CacheTTL
    <3>1. HAVE a.step = "served" /\ Revoked(a.key)
    <3>2. cache[i][k].expires <= revokedAt[k] + CacheTTL
      BY <1>1, <1>2, <1>5, <2>1, <2>2, <3>1 DEF CacheHonest
    <3> QED BY <1>1, <1>5, <2>1, <2>2, <3>1, <3>2, Nothings
  <2>5. request' = [request EXCEPT ![h] = a]
    BY <1>5 DEF a
  <2>6. a.step \notin {"reading", "read"} /\ (a.step = "served" => a.key \in ApiKeys)
    BY <2>2
  <2>7. MayBe(a)
    BY <2>2, <2>3, <2>4, <2>6 DEF MayBe
  <2> QED BY <1>0, <1>4, <2>5, <2>7, RequestInv
<1>6. CASE request' = [request EXCEPT ![h] = [r EXCEPT !.step = "reading"]]
  <2>1. /\ [r EXCEPT !.step = "reading"] \in Request /\ [r EXCEPT !.step = "reading"].step = "reading"
        /\ [r EXCEPT !.step = "reading"].key = k /\ [r EXCEPT !.step = "reading"].now = clock
    BY <1>3 DEF Request
  <2>2. MayBe([r EXCEPT !.step = "reading"])
    BY <1>1, <2>1 DEF MayBe
  <2> QED BY <1>0, <1>4, <1>6, <2>2, RequestInv
<1> QED BY <1>0, <1>5, <1>6

\* The row is read, or it is not.
LEMMA ReadInv ==
    ASSUME KeysInv, NEW h \in Handlers, ReadKey(h) \/ ReadFails(h)
    PROVE  KeysInv'
<1>0. /\ UNCHANGED <<clock, created, revokedAt, cache, revoking>>
      /\ request[h].step = "reading"
      /\ request \in [Handlers -> Request] /\ cache \in [Instances -> [ApiKeys -> Entry]] /\ CacheHonest
      /\ clock \in Nat
  BY DEF KeysInv, KeysTypeOK, ReadKey, ReadFails
<1>1. CacheHonest' /\ cache' \in [Instances -> [ApiKeys -> Entry]]
  BY <1>0 DEF CacheHonest, Revoked
<1>2. request[h].now <= clock /\ request[h].key \in ApiKeys /\ request[h] \in Request
  BY <1>0 DEF KeysInv, TimesPast, KeysNamed
<1>3. CASE ReadKey(h)
  <2> DEFINE rev == Revoked(request[h].key)
             r == [request[h] EXCEPT !.step = "read", !.revoked = rev]
  <2>1. request' = [request EXCEPT ![h] = r]
    BY <1>3 DEF ReadKey
  <2>2. rev \in BOOLEAN
    BY DEF Revoked
  <2>3. r \in Request /\ r.step = "read" /\ r.key = request[h].key /\ r.now = request[h].now /\ r.revoked = rev
    <3> HIDE DEF rev
    <3> QED BY <1>2, <2>2 DEF Request
  <2>4. ~(~r.revoked /\ Revoked(r.key))
    BY <2>3
  <2>5. r.step = "read" /\ r.key \in ApiKeys /\ r.now <= clock
    BY <1>2, <2>3
  <2> HIDE DEF r, rev
  <2>6. MayBe(r)
    BY <2>3, <2>4, <2>5 DEF MayBe
  <2> QED BY <1>0, <1>1, <2>1, <2>6, RequestInv
<1>4. CASE ReadFails(h)
  <2>1. request' = [request EXCEPT ![h] = [NoRequest EXCEPT !.step = "failed"]]
    BY <1>4 DEF ReadFails
  <2>2. /\ [NoRequest EXCEPT !.step = "failed"] \in Request
        /\ [NoRequest EXCEPT !.step = "failed"].step = "failed" /\ [NoRequest EXCEPT !.step = "failed"].now = 0
    BY Nothings DEF Request
  <2>3. MayBe([NoRequest EXCEPT !.step = "failed"])
    BY <1>0, <2>2 DEF MayBe
  <2> QED BY <1>0, <1>1, <2>1, <2>3, RequestInv
<1> QED BY <1>3, <1>4

\* The row is cached, and the request answered.
LEMMA StoreKeyInv ==
    ASSUME KeysInv, NEW h \in Handlers, StoreKey(h)
    PROVE  KeysInv'
<1> DEFINE r == request[h]
           i == InstanceOf[h]
           n == [expires |-> CachedUntil(r), revoked |-> r.revoked]
           a == Answer(r, r.revoked)
<1>0. /\ UNCHANGED <<clock, created, revokedAt, revoking>>
      /\ r.step = "read" /\ r \in Request /\ r.key \in ApiKeys /\ r.now <= clock
      /\ cache \in [Instances -> [ApiKeys -> Entry]] /\ CacheHonest /\ ReadHonest
      /\ clock \in Nat /\ revokedAt \in [ApiKeys -> Nat]
  BY DEF KeysInv, KeysTypeOK, KeysNamed, TimesPast, StoreKey
<1>1. cache' = [cache EXCEPT ![i] = [cache[i] EXCEPT ![r.key] = n]] /\ request' = [request EXCEPT ![h] = a]
  BY DEF StoreKey
<1>2. i \in Instances /\ r.now \in Nat /\ r.revoked \in BOOLEAN
  BY <1>0, ApiKeysAssumption DEF Request
<1>3. n \in Entry /\ n.expires = r.now + CacheTTL /\ n.revoked = r.revoked
  BY <1>2, Nothings DEF Entry, CachedUntil
<1>4. ~r.revoked /\ Revoked(r.key) => r.now <= revokedAt[r.key]
  BY <1>0 DEF ReadHonest
<1>5. cache' \in [Instances -> [ApiKeys -> Entry]]
  <2> HIDE DEF n, r, i
  <2>1. [cache[i] EXCEPT ![r.key] = n] \in [ApiKeys -> Entry]
    BY <1>0, <1>2, <1>3
  <2> QED BY <1>0, <1>1, <1>2, <2>1
<1>6. CacheHonest'
  <2> SUFFICES ASSUME NEW j \in Instances, NEW k \in ApiKeys
               PROVE  /\ cache'[j][k].expires <= clock + CacheTTL
                      /\ cache'[j][k].expires >= 0 /\ ~cache'[j][k].revoked /\ Revoked(k)
                             => cache'[j][k].expires <= revokedAt[k] + CacheTTL
    BY <1>0 DEF CacheHonest, Revoked
  <2> HIDE DEF n, r, i
  <2>1. CASE j = i /\ k = r.key
    <3>1. cache'[j][k] = n
      BY <1>0, <1>1, <1>2, <2>1
    <3> QED BY <1>0, <1>2, <1>3, <1>4, <2>1, <3>1, Nothings
  <2>2. CASE ~(j = i /\ k = r.key)
    <3>1. cache'[j][k] = cache[j][k]
      BY <1>0, <1>1, <1>2, <2>2
    <3> QED BY <1>0, <3>1 DEF CacheHonest
  <2> QED BY <2>1, <2>2
<1>7. /\ a \in Request /\ a.step \in {"unauthorized", "served"} /\ (a.step = "unauthorized" => a.now = 0)
      /\ a.step = "served" => ~r.revoked /\ a.key = r.key /\ a.now = r.now
  BY <1>0, <1>2, AnswerIs
<1>8. a.now <= clock
  BY <1>0, <1>7
<1> HIDE DEF a, r
<1>9. a.step = "served" /\ Revoked(a.key) => a.now <= revokedAt[a.key] + CacheTTL
  BY <1>0, <1>2, <1>4, <1>7, Nothings
<1>10. MayBe(a)
  BY <1>0, <1>7, <1>8, <1>9 DEF MayBe
<1> QED BY <1>0, <1>1, <1>5, <1>6, <1>10, RequestInv

\* A revocation begins, is refused or waits for its commit.
LEMMA DecideRevokeInv ==
    ASSUME KeysInv, NEW i \in Instances, (\E k \in ApiKeys : BeginRevoke(i, k)) \/ DecideRevoke(i)
    PROVE  KeysInv'
<1>0. /\ UNCHANGED <<clock, created, revokedAt, cache, request>>
      /\ KeysTypeOK /\ KeysNamed /\ TimesPast /\ ReadHonest /\ CacheHonest /\ RevokedIsRefused
      /\ OneDecides /\ AdminLeft
      /\ revoking \in [Instances -> Revocation] /\ clock \in Nat
  BY DEF KeysInv, KeysTypeOK, BeginRevoke, DecideRevoke
<1>1. PICK r \in Revocation :
          /\ revoking' = [revoking EXCEPT ![i] = r]
          /\ r.step # "idle" => r.key \in ApiKeys
          /\ r.step = "decided" =>
                /\ r.key = revoking[i].key /\ r.start = revoking[i].start
                /\ RevokeLockFree(i) /\ (RoleOf[r.key] = "admin" => OtherAdmins(i) # {})
  <2>1. ASSUME NEW k \in ApiKeys, BeginRevoke(i, k)
        PROVE  \E r \in Revocation :
          /\ revoking' = [revoking EXCEPT ![i] = r]
          /\ r.step # "idle" => r.key \in ApiKeys
          /\ r.step = "decided" =>
                /\ r.key = revoking[i].key /\ r.start = revoking[i].start
                /\ RevokeLockFree(i) /\ (RoleOf[r.key] = "admin" => OtherAdmins(i) # {})
    <3> DEFINE r == [step |-> "waiting", key |-> k, start |-> clock]
    <3>1. r \in Revocation /\ r.step = "waiting" /\ r.key = k
      BY <1>0 DEF Revocation
    <3>2. revoking' = [revoking EXCEPT ![i] = r]
      BY <2>1 DEF BeginRevoke
    <3> HIDE DEF r
    <3> QED BY <3>1, <3>2
  <2>2. ASSUME DecideRevoke(i)
        PROVE  \E r \in Revocation :
          /\ revoking' = [revoking EXCEPT ![i] = r]
          /\ r.step # "idle" => r.key \in ApiKeys
          /\ r.step = "decided" =>
                /\ r.key = revoking[i].key /\ r.start = revoking[i].start
                /\ RevokeLockFree(i) /\ (RoleOf[r.key] = "admin" => OtherAdmins(i) # {})
    <3> DEFINE old == revoking[i]
               last == RoleOf[old.key] = "admin" /\ OtherAdmins(i) = {}
    <3>1. /\ old.step = "waiting" /\ RevokeLockFree(i)
          /\ revoking' = [revoking EXCEPT ![i] =
                 IF Revoked(old.key) THEN [old EXCEPT !.step = "committed"]
                 ELSE IF last THEN NoRevocation ELSE [old EXCEPT !.step = "decided"]]
      BY <2>2 DEF DecideRevoke
    <3>2. old \in Revocation /\ old.key \in ApiKeys
      BY <1>0, <3>1 DEF KeysNamed
    <3> HIDE DEF old
    <3>3. /\ [old EXCEPT !.step = "committed"] \in Revocation /\ [old EXCEPT !.step = "committed"].key = old.key
          /\ [old EXCEPT !.step = "committed"].step = "committed"
      BY <3>2 DEF Revocation
    <3>4. /\ [old EXCEPT !.step = "decided"] \in Revocation /\ [old EXCEPT !.step = "decided"].key = old.key
          /\ [old EXCEPT !.step = "decided"].start = old.start
      BY <3>2 DEF Revocation
    <3>5. CASE Revoked(old.key)
      BY <3>1, <3>2, <3>3, <3>5
    <3>6. CASE ~Revoked(old.key) /\ last
      BY <3>1, <3>6, Nothings
    <3>7. CASE ~Revoked(old.key) /\ ~last
      BY <3>1, <3>2, <3>4, <3>7 DEF old
    <3> QED BY <3>5, <3>6, <3>7
  <2> QED BY <2>1, <2>2
<1>2. \A j \in Instances : revoking'[j] = IF j = i THEN r ELSE revoking[j]
  BY <1>0, <1>1
<1>3. KeysTypeOK'
  BY <1>0, <1>1 DEF KeysTypeOK
<1>4. KeysNamed'
  BY <1>0, <1>1, <1>2 DEF KeysNamed
<1>5. TimesPast' /\ ReadHonest' /\ CacheHonest' /\ RevokedIsRefused'
  BY <1>0 DEF TimesPast, ReadHonest, CacheHonest, RevokedIsRefused, Revoked
<1>6. OneDecides'
  BY <1>0, <1>1, <1>2 DEF OneDecides, RevokeLockFree
<1>7. AdminLeft'
  <2> SUFFICES ASSUME NEW j \in Instances, revoking'[j].step = "decided", RoleOf[revoking'[j].key] = "admin"
               PROVE  OtherAdmins(j)' # {}
    BY DEF AdminLeft
  <2>1. revoking'[j].key = revoking[j].key /\ revoking'[j].start = revoking[j].start /\ OtherAdmins(j) # {}
    BY <1>0, <1>1, <1>2 DEF AdminLeft
  <2>2. OtherAdmins(j)' = OtherAdmins(j)
    BY <1>0, <2>1 DEF OtherAdmins, Revoked
  <2> QED BY <2>1, <2>2
<1> QED BY <1>3, <1>4, <1>5, <1>6, <1>7 DEF KeysInv

\* A revocation commits: it is later than whatever was asked for before.
LEMMA CommitRevokeInv ==
    ASSUME KeysInv, NEW i \in Instances, CommitRevoke(i)
    PROVE  KeysInv'
<1> DEFINE k == revoking[i].key
<1>0. /\ UNCHANGED <<clock, created, cache, request>>
      /\ KeysTypeOK /\ KeysNamed /\ TimesPast /\ ReadHonest /\ CacheHonest /\ RevokedIsRefused
      /\ OneDecides /\ AdminLeft
      /\ revoking[i].step = "decided" /\ k \in ApiKeys
      /\ revokedAt' = [revokedAt EXCEPT ![k] = clock]
      /\ revoking' = [revoking EXCEPT ![i] = [revoking[i] EXCEPT !.step = "committed"]]
  BY DEF KeysInv, CommitRevoke, KeysNamed
<1> HIDE DEF k
<1>1. /\ clock \in Nat /\ clock <= MaxTime /\ revokedAt \in [ApiKeys -> Nat]
      /\ revoking \in [Instances -> Revocation]
      /\ request \in [Handlers -> Request] /\ cache \in [Instances -> [ApiKeys -> Entry]]
  BY <1>0 DEF KeysTypeOK
<1>2. \A q \in ApiKeys : revokedAt'[q] = IF q = k THEN clock ELSE revokedAt[q]
  BY <1>0, <1>1
<1>3. \A q \in ApiKeys : Revoked(q)' <=> q = k \/ Revoked(q)
  <2>1. revokedAt'[k] # Never
    BY <1>0, <1>1, <1>2, Nothings
  <2> QED BY <1>2, <2>1 DEF Revoked
<1>4. KeysTypeOK'
  <2>1. [revoking[i] EXCEPT !.step = "committed"] \in Revocation
    BY <1>1 DEF Revocation
  <2>2. revoking' \in [Instances -> Revocation]
    BY <1>0, <1>1, <2>1
  <2>3. revokedAt' \in [ApiKeys -> Nat]
    BY <1>0, <1>1
  <2> QED BY <1>0, <2>2, <2>3 DEF KeysTypeOK
<1>5. /\ \A j \in Instances \ {i} : revoking'[j] = revoking[j]
      /\ revoking'[i].step = "committed" /\ revoking'[i].key = k
  BY <1>0, <1>1 DEF Revocation, k
<1>6. KeysNamed'
  BY <1>0, <1>5 DEF KeysNamed
<1>7. TimesPast'
  BY <1>0, <1>1, <1>2, <1>3 DEF TimesPast
<1>8. ReadHonest' /\ RevokedIsRefused'
  <2> SUFFICES ASSUME NEW h \in Handlers, request[h].step \in {"read", "served"}, Revoked(request[h].key)'
               PROVE  /\ request[h].step = "read" /\ ~request[h].revoked => request[h].now <= revokedAt'[request[h].key]
                      /\ request[h].step = "served" => request[h].now <= revokedAt'[request[h].key] + CacheTTL
    BY <1>0 DEF ReadHonest, RevokedIsRefused
  <2>1. request[h].key \in ApiKeys /\ request[h].now \in Nat /\ request[h].now <= clock
    BY <1>0, <1>1 DEF KeysNamed, TimesPast, Request
  <2>2. CASE request[h].key = k
    BY <1>1, <1>2, <2>1, <2>2, Nothings
  <2>3. CASE request[h].key # k
    BY <1>0, <1>2, <1>3, <2>1, <2>3 DEF ReadHonest, RevokedIsRefused
  <2> QED BY <2>2, <2>3
<1>9. CacheHonest'
  <2> SUFFICES ASSUME NEW j \in Instances, NEW q \in ApiKeys
               PROVE  /\ cache[j][q].expires <= clock + CacheTTL
                      /\ cache[j][q].expires >= 0 /\ ~cache[j][q].revoked /\ Revoked(q)'
                             => cache[j][q].expires <= revokedAt'[q] + CacheTTL
    BY <1>0 DEF CacheHonest
  <2>1. CASE q # k
    BY <1>0, <1>2, <1>3, <2>1 DEF CacheHonest
  <2>2. CASE q = k
    BY <1>0, <1>2, <2>2 DEF CacheHonest
  <2> QED BY <2>1, <2>2
<1>10. OneDecides' /\ AdminLeft'
  BY <1>0, <1>5 DEF OneDecides, AdminLeft
<1> QED BY <1>4, <1>6, <1>7, <1>8, <1>9, <1>10 DEF KeysInv

\* The instance drops the key from its own cache.
LEMMA DropCachedInv ==
    ASSUME KeysInv, NEW i \in Instances, DropCached(i)
    PROVE  KeysInv'
<1> DEFINE k == revoking[i].key
<1>0. /\ UNCHANGED <<clock, created, revokedAt, request>>
      /\ KeysTypeOK /\ KeysNamed /\ TimesPast /\ ReadHonest /\ CacheHonest /\ RevokedIsRefused
      /\ OneDecides /\ AdminLeft /\ k \in ApiKeys
      /\ cache' = [cache EXCEPT ![i] = [cache[i] EXCEPT ![k] = NoEntry]]
      /\ revoking' = [revoking EXCEPT ![i] = NoRevocation]
  BY DEF KeysInv, DropCached, KeysNamed
<1> HIDE DEF k
<1>1. /\ clock \in Nat /\ cache \in [Instances -> [ApiKeys -> Entry]] /\ revoking \in [Instances -> Revocation]
  BY <1>0 DEF KeysTypeOK
<1>2. /\ \A j \in Instances \ {i} : revoking'[j] = revoking[j]
      /\ revoking'[i] = NoRevocation
  BY <1>0, <1>1
<1>3. KeysTypeOK'
  <2>1. [cache[i] EXCEPT ![k] = NoEntry] \in [ApiKeys -> Entry]
    BY <1>1, Nothings
  <2>2. cache' \in [Instances -> [ApiKeys -> Entry]]
    BY <1>0, <1>1, <2>1
  <2>3. revoking' \in [Instances -> Revocation]
    BY <1>0, <1>1, Nothings
  <2> QED BY <1>0, <2>2, <2>3 DEF KeysTypeOK
<1>4. CacheHonest'
  <2> SUFFICES ASSUME NEW j \in Instances, NEW q \in ApiKeys
               PROVE  /\ cache'[j][q].expires <= clock + CacheTTL
                      /\ cache'[j][q].expires >= 0 /\ ~cache'[j][q].revoked /\ Revoked(q)
                             => cache'[j][q].expires <= revokedAt[q] + CacheTTL
    BY <1>0 DEF CacheHonest, Revoked
  <2>1. cache'[j][q] = cache[j][q] \/ cache'[j][q] = NoEntry
    BY <1>0, <1>1
  <2> QED BY <1>0, <1>1, <2>1, Nothings DEF CacheHonest
<1>5. KeysNamed' /\ OneDecides'
  BY <1>0, <1>2, Nothings DEF KeysNamed, OneDecides
<1>6. TimesPast' /\ ReadHonest' /\ RevokedIsRefused'
  BY <1>0 DEF TimesPast, ReadHonest, RevokedIsRefused, Revoked
<1>7. AdminLeft'
  <2> SUFFICES ASSUME NEW j \in Instances, revoking'[j].step = "decided", RoleOf[revoking'[j].key] = "admin"
               PROVE  OtherAdmins(j)' # {}
    BY DEF AdminLeft
  <2>1. revoking'[j] = revoking[j]
    BY <1>2, Nothings
  <2>2. OtherAdmins(j)' = OtherAdmins(j)
    BY <1>0, <2>1 DEF OtherAdmins, Revoked
  <2> QED BY <1>0, <2>1, <2>2 DEF AdminLeft
<1> QED BY <1>3, <1>4, <1>5, <1>6, <1>7 DEF KeysInv

\* Every step of the API keys keeps their invariant.
LEMMA KeysNextInv == KeysInv /\ [ApiKeysStep]_keyVars => KeysInv'
<1> SUFFICES ASSUME KeysInv, [ApiKeysStep]_keyVars PROVE KeysInv'
  OBVIOUS
<1>1. CASE UNCHANGED keyVars
  BY <1>1 DEF keyVars, KeysInv, KeysTypeOK, KeysNamed, TimesPast, ReadHonest, CacheHonest, RevokedIsRefused,
              OneDecides, AdminLeft, OtherAdmins, Revoked
<1>2. CASE Tick \/ \E k \in ApiKeys : CreateKey(k)
  BY <1>2, QuietKeysInv
<1>3. CASE \E h \in Handlers, k \in ApiKeys : Lookup(h, k)
  BY <1>3, LookupInv
<1>4. CASE \E h \in Handlers : ReadKey(h) \/ ReadFails(h) \/ StoreKey(h)
  BY <1>4, ReadInv, StoreKeyInv
<1>5. CASE \E i \in Instances, k \in ApiKeys : BeginRevoke(i, k)
  BY <1>5, DecideRevokeInv
<1>6. CASE \E i \in Instances : DecideRevoke(i) \/ CommitRevoke(i) \/ DropCached(i)
  BY <1>6, DecideRevokeInv, CommitRevokeInv, DropCachedInv
<1> QED BY <1>1, <1>2, <1>3, <1>4, <1>5, <1>6 DEF ApiKeysStep

\* The invariant of the API keys holds in the composition.
THEOREM KeysInvHolds == Spec => []KeysInv
<1>1. Init => KeysInv
  BY KeysInitInv DEF Init
<1>2. KeysInv /\ [Next]_vars => KeysInv'
  BY KeysNextInv, StepOfEach
<1> QED BY <1>1, <1>2, PTL DEF Spec

\* A revocation reaches every instance within the cache window, for any number of keys,
\* requests and instances, though a row read before it may be cached after the instance
\* has dropped the key (Authenticate, Revoke).
THEOREM RevokedIsRefusedHolds == Spec => []RevokedIsRefused
<1>1. KeysInv => RevokedIsRefused
  BY DEF KeysInv
<1> QED BY <1>1, KeysInvHolds, PTL

\* Revocations that run at the same time never take the last admin, for any number of
\* admins and instances: the one that has decided is alone until it commits (Revoke).
THEOREM LastAdminStaysHolds == Spec => LastAdminStays
<1> DEFINE Stays ==
      \A i \in Instances :
        revoking[i].step = "decided" /\ RoleOf[revoking[i].key] = "admin" /\ revokedAt' # revokedAt
            => OtherAdmins(i) # {}
<1>1. KeysInv => Stays
  BY DEF KeysInv, AdminLeft
<1>2. KeysInv /\ [Next]_vars => [Stays]_keyVars
  BY <1>1
<1> HIDE DEF Stays
<1>3. Spec => [][Stays]_keyVars
  BY <1>2, KeysInvHolds, PTL DEF Spec
<1> QED BY <1>3 DEF LastAdminStays, Stays

-------------------------------------------------------------------------------
(***************************************************************************)
(* Transactions and their entries, for settlements and statements.         *)
(***************************************************************************)

Stages == {"idle", "begun", "summed", "written", "committed", "over"}

\* Entries are those of transactions that have written, on the accounts they lock.
EntriesKnown ==
    \A e \in entries :
        e.txn \in Txns /\ e.acct \in Touches[e.txn] /\ e.amt \in Int /\ stage[e.txn] \in {"written", "committed"}

\* The row locks of accounts.
LocksHeld ==
    \A t, u \in Txns :
        t # u /\ stage[t] \in {"summed", "written"} /\ stage[u] \in {"summed", "written"}
            => Touches[t] \cap Touches[u] = {}

HistoryInv ==
    /\ stage \in [Txns -> Stages]
    /\ IsFiniteSet(entries) /\ EntriesKnown
    /\ LocksHeld

\* A step of one transaction t, which has not committed: it goes to a stage, and its own
\* entries change, unless it commits them.
TxnStep(t, to) ==
    /\ t \in Txns /\ to \in Stages
    /\ stage[t] # "committed"
    /\ stage' = [stage EXCEPT ![t] = to]
    /\ to \in {"summed", "written"} => stage[t] \in {"summed", "written"} \/ CanLock(t)
    /\ IsFiniteSet(entries')
    /\ \A e : e.txn # t => (e \in entries' <=> e \in entries)
    /\ \A e \in entries' :
           e.txn = t => e.acct \in Touches[t] /\ e.amt \in Int /\ to \in {"written", "committed"}
    /\ to = "committed" => stage[t] = "written" /\ entries' = entries

\* The invariant holds before anything is posted.
LEMMA HistoryInitInv == HistoryInit => HistoryInv
BY FS_EmptySet DEF HistoryInit, HistoryInv, EntriesKnown, LocksHeld, Stages

\* A step of one transaction keeps it.
LEMMA TxnStepInv ==
    ASSUME HistoryInv, NEW t, NEW to, TxnStep(t, to)
    PROVE  HistoryInv'
<1>0. /\ stage \in [Txns -> Stages] /\ t \in Txns /\ to \in Stages
      /\ stage' = [stage EXCEPT ![t] = to]
  BY DEF HistoryInv, TxnStep
<1>1. stage' \in [Txns -> Stages] /\ \A u \in Txns : stage'[u] = IF u = t THEN to ELSE stage[u]
  BY <1>0
<1>2. EntriesKnown'
  <2> SUFFICES ASSUME NEW e \in entries'
               PROVE  e.txn \in Txns /\ e.acct \in Touches[e.txn] /\ e.amt \in Int /\ stage'[e.txn] \in {"written", "committed"}
    BY DEF EntriesKnown
  <2>1. CASE e.txn = t
    BY <1>0, <1>1, <2>1 DEF TxnStep
  <2>2. CASE e.txn # t
    <3>1. e \in entries
      BY <2>2 DEF TxnStep
    <3> QED BY <1>1, <2>2, <3>1 DEF HistoryInv, EntriesKnown
  <2> QED BY <2>1, <2>2
<1>3. LocksHeld'
  <2> SUFFICES ASSUME NEW u \in Txns, NEW w \in Txns, u # w,
                      stage'[u] \in {"summed", "written"}, stage'[w] \in {"summed", "written"}
               PROVE  Touches[u] \cap Touches[w] = {}
    BY DEF LocksHeld
  <2>1. CASE u # t /\ w # t
    BY <1>1, <2>1 DEF HistoryInv, LocksHeld
  <2>2. ASSUME NEW x \in Txns, x # t, stage'[x] \in {"summed", "written"}, to \in {"summed", "written"}
        PROVE  Touches[x] \cap Touches[t] = {}
    <3>1. stage[x] \in {"summed", "written"}
      BY <1>1, <2>2
    <3>2. CASE stage[t] \in {"summed", "written"}
      BY <1>0, <2>2, <3>1, <3>2 DEF HistoryInv, LocksHeld
    <3>3. CASE CanLock(t)
      BY <1>0, <2>2, <3>1, <3>3 DEF CanLock
    <3> QED BY <2>2, <3>2, <3>3 DEF TxnStep
  <2>3. CASE u = t
    BY <1>0, <1>1, <2>2, <2>3
  <2>4. CASE w = t
    BY <1>0, <1>1, <2>2, <2>4
  <2> QED BY <2>1, <2>3, <2>4
<1> QED BY <1>1, <1>2, <1>3 DEF HistoryInv, TxnStep

\* The entries of a post.
LEMMA PostSteps ==
    ASSUME HistoryInv, NEW p \in Posts
    PROVE  /\ BeginPost(p) => TxnStep(p, "begun")
           /\ \A from \in {"idle", "begun"} : WritePost(p, from) => TxnStep(p, "written")
           /\ EndPost(p) => TxnStep(p, "committed") \/ TxnStep(p, "over")
<1>0. /\ p \in Txns /\ IsFiniteSet(entries) /\ IsFiniteSet(Touches[p])
      /\ \A a \in Touches[p] : AmountOf[p][a] \in Int
  BY PostsAssumption DEF HistoryInv
<1>1. \A e \in entries : e.txn = p => stage[p] \in {"written", "committed"} /\ e.acct \in Touches[p] /\ e.amt \in Int
  BY DEF HistoryInv, EntriesKnown
<1>2. ASSUME BeginPost(p) PROVE TxnStep(p, "begun")
  BY <1>0, <1>1, <1>2 DEF BeginPost, Goto, TxnStep, Stages
<1>3. ASSUME NEW from \in {"idle", "begun"}, WritePost(p, from)
      PROVE  TxnStep(p, "written")
  <2> DEFINE Entry_(a) == [txn |-> p, acct |-> a, amt |-> AmountOf[p][a], eff |-> EffectiveOf[p]]
             own == {Entry_(a) : a \in Touches[p]}
             f == [a \in Touches[p] |-> Entry_(a)]
  <2>1. stage[p] = from /\ CanLock(p) /\ entries' = entries \cup own /\ stage' = [stage EXCEPT ![p] = "written"]
    BY <1>3 DEF WritePost, Goto
  <2>2. \A e \in own : e.txn = p /\ e.acct \in Touches[p] /\ e.amt \in Int
    BY <1>0
  <2>3. IsFiniteSet(own)
    <3>1. f \in Surjection(Touches[p], own)
      BY DEF Surjection
    <3> HIDE DEF f, own
    <3> QED BY <1>0, <3>1, FS_Surjection
  <2> HIDE DEF own
  <2>4. IsFiniteSet(entries')
    BY <1>0, <2>1, <2>3, FS_Union
  <2> QED BY <1>0, <1>1, <2>1, <2>2, <2>4 DEF TxnStep, Stages
<1>4. ASSUME EndPost(p) PROVE TxnStep(p, "committed") \/ TxnStep(p, "over")
  <2>1. CASE stage[p] = "written" /\ Goto(p, "committed") /\ UNCHANGED entries
    BY <1>0, <1>1, <2>1 DEF TxnStep, Goto, Stages
  <2>2. CASE stage[p] = "written" /\ Goto(p, "over") /\ Undo(p)
    <3>1. IsFiniteSet(entries')
      BY <1>0, <2>2, FS_Subset DEF Undo
    <3> QED BY <1>0, <2>2, <3>1 DEF TxnStep, Goto, Undo, Stages
  <2> QED BY <1>4, <2>1, <2>2 DEF EndPost
<1> QED BY <1>2, <1>3, <1>4

\* What is committed, after a step of one transaction.
LEMMA CommittedAfter ==
    ASSUME HistoryInv, NEW t, NEW to, TxnStep(t, to)
    PROVE  /\ to # "committed" => Committed' = Committed
           /\ to = "committed" => Committed' = Committed \cup {e \in entries : e.txn = t}
<1>0. /\ stage \in [Txns -> Stages] /\ t \in Txns /\ stage[t] # "committed"
      /\ \A u \in Txns : stage'[u] = IF u = t THEN to ELSE stage[u]
  BY DEF HistoryInv, TxnStep
<1>1. (\A e \in entries : e.txn \in Txns) /\ (\A e \in entries' : e.txn \in Txns)
  BY TxnStepInv DEF HistoryInv, EntriesKnown
<1>2. \A e : e.txn # t => (e \in entries' <=> e \in entries)
  BY DEF TxnStep
<1>3. ASSUME to # "committed" PROVE Committed' = Committed
  BY <1>0, <1>1, <1>2, <1>3 DEF Committed
<1>4. ASSUME to = "committed" PROVE Committed' = Committed \cup {e \in entries : e.txn = t}
  <2>1. entries' = entries
    BY <1>4 DEF TxnStep
  <2> QED BY <1>0, <1>1, <1>4, <2>1 DEF Committed
<1> QED BY <1>3, <1>4

\* A net is an integer, and one more entry adds its amount to it.
LEMMA NetType ==
    ASSUME NEW S, IsFiniteSet(S), \A e \in S : e.amt \in Int
    PROVE  NetOf(S) \in Int
<1> DEFINE debit == [e \in S |-> IF e.amt > 0 THEN e.amt ELSE 0]
           credit == [e \in S |-> IF e.amt < 0 THEN -e.amt ELSE 0]
<1>1. \A e \in S : debit[e] \in Nat /\ credit[e] \in Nat
  OBVIOUS
<1>2. SumOf(debit, S) \in Nat /\ SumOf(credit, S) \in Nat
  <2> HIDE DEF debit, credit
  <2> QED BY <1>1, SumType
<1> QED BY <1>2 DEF NetOf

LEMMA NetAdd ==
    ASSUME NEW S, IsFiniteSet(S), NEW x, x \notin S, \A e \in S \cup {x} : e.amt \in Int
    PROVE  NetOf(S \cup {x}) = NetOf(S) + x.amt
<1> DEFINE Debit(e) == IF e.amt > 0 THEN e.amt ELSE 0
           Credit(e) == IF e.amt < 0 THEN -e.amt ELSE 0
           T == S \cup {x}
<1>0. IsFiniteSet(T) /\ x \in T /\ S \subseteq T
  BY FS_AddElement
<1>1. ASSUME NEW f, NEW g, \A e \in S : f[e] = g[e] /\ f[e] \in Nat, g[x] \in Nat
      PROVE  SumOf(g, T) = SumOf(f, S) + g[x] /\ SumOf(f, S) \in Nat
  <2> DEFINE z == [e \in T |-> IF e = x THEN 0 ELSE f[e]]
  <2>1. (\A e \in T : z[e] \in Nat /\ g[e] \in Nat) /\ (\A e \in T \ {x} : z[e] = g[e]) /\ z[x] = 0
    BY <1>1
  <2>2. (\A e \in S : z[e] = f[e]) /\ \A e \in T \ S : z[e] = 0
    OBVIOUS
  <2> HIDE DEF z, T
  <2>3. SumOf(g, T) = SumOf(z, T) - z[x] + g[x]
    BY <1>0, <2>1, SumUpdate
  <2>4. SumOf(z, T) = SumOf(z, S)
    BY <1>0, <2>2, SumSupport
  <2>5. SumOf(z, S) = SumOf(f, S)
    BY <2>2, SumEqual
  <2>6. SumOf(f, S) \in Nat
    BY <1>1, SumType
  <2> QED BY <1>1, <2>1, <2>3, <2>4, <2>5, <2>6
<1>2. /\ SumOf([e \in T |-> Debit(e)], T) = SumOf([e \in S |-> Debit(e)], S) + Debit(x)
      /\ SumOf([e \in S |-> Debit(e)], S) \in Nat
  <2> DEFINE f == [e \in S |-> Debit(e)]
             g == [e \in T |-> Debit(e)]
  <2>1. (\A e \in S : f[e] = g[e] /\ f[e] \in Nat) /\ g[x] \in Nat /\ g[x] = Debit(x)
    OBVIOUS
  <2> HIDE DEF f, g, T, Debit
  <2>2. SumOf(g, T) = SumOf(f, S) + g[x] /\ SumOf(f, S) \in Nat
    BY <1>1, <2>1
  <2> QED BY <2>1, <2>2 DEF f, g
<1>3. /\ SumOf([e \in T |-> Credit(e)], T) = SumOf([e \in S |-> Credit(e)], S) + Credit(x)
      /\ SumOf([e \in S |-> Credit(e)], S) \in Nat
  <2> DEFINE f == [e \in S |-> Credit(e)]
             g == [e \in T |-> Credit(e)]
  <2>1. (\A e \in S : f[e] = g[e] /\ f[e] \in Nat) /\ g[x] \in Nat /\ g[x] = Credit(x)
    OBVIOUS
  <2> HIDE DEF f, g, T, Credit
  <2>2. SumOf(g, T) = SumOf(f, S) + g[x] /\ SumOf(f, S) \in Nat
    BY <1>1, <2>1
  <2> QED BY <2>1, <2>2 DEF f, g
<1>4. x.amt \in Int /\ x.amt = Debit(x) - Credit(x) /\ Debit(x) \in Nat /\ Credit(x) \in Nat
  OBVIOUS
<1>5. NetOf(T) = SumOf([e \in T |-> Debit(e)], T) - SumOf([e \in T |-> Credit(e)], T)
  BY DEF NetOf
<1>6. NetOf(S) = SumOf([e \in S |-> Debit(e)], S) - SumOf([e \in S |-> Credit(e)], S)
  BY DEF NetOf
<1> HIDE DEF T, Debit, Credit
<1>7. NetOf(T) = NetOf(S) + x.amt
  BY <1>2, <1>3, <1>4, <1>5, <1>6
<1> QED BY <1>7 DEF T

\* What sumUnsettled has found.
SummedTypeOK == summed \in [Settles -> [net : Int, count : Nat]]

HistoryAndSumsInv == HistoryInv /\ SummedTypeOK

\* The entries of a settlement.
LEMMA OwnEntriesAre ==
    ASSUME NEW c \in Settles, SummedTypeOK, NEW now
    PROVE  /\ IsFiniteSet(OwnEntries(c, now))
           /\ \A e \in OwnEntries(c, now) :
                  /\ e.txn = c /\ e.acct \in Touches[c] /\ e.amt \in Int
                  /\ e.acct = SettleOf[c].settled => e.amt = -summed[c].net
           /\ summed[c].net = 0 => OwnEntries(c, now) = {}
           /\ summed[c].net # 0 => \E x \in OwnEntries(c, now) :
                  {e \in OwnEntries(c, now) : e.acct = SettleOf[c].settled} = {x}
<1> DEFINE net == summed[c].net
           x == [txn |-> c, acct |-> SettleOf[c].settled, amt |-> -net, eff |-> now]
           y == [txn |-> c, acct |-> SettleOf[c].contra, amt |-> net, eff |-> now]
<1>1. OwnEntries(c, now) = IF net = 0 THEN {} ELSE {x, y}
  BY DEF OwnEntries
<1>2. net \in Int /\ SettleOf[c].settled # SettleOf[c].contra /\ Touches[c] = {SettleOf[c].settled, SettleOf[c].contra}
  BY SettlesAssumption DEF SummedTypeOK
<1>3. IsFiniteSet({}) /\ IsFiniteSet({x, y})
  <2> HIDE DEF x, y
  <2>1. IsFiniteSet({x})
    BY FS_Singleton
  <2>2. IsFiniteSet({x} \cup {y})
    BY <2>1, FS_AddElement
  <2>3. {x, y} = {x} \cup {y}
    OBVIOUS
  <2> QED BY <2>2, <2>3, FS_EmptySet
<1>4. /\ x.txn = c /\ x.acct = SettleOf[c].settled /\ x.amt = -net /\ x.amt \in Int
      /\ y.txn = c /\ y.acct = SettleOf[c].contra /\ y.amt \in Int
  BY <1>2
<1> HIDE DEF x, y
<1>5. IsFiniteSet(OwnEntries(c, now))
  BY <1>1, <1>3
<1>6. {e \in {x, y} : e.acct = SettleOf[c].settled} = {x}
  BY <1>2, <1>4
<1> QED BY <1>1, <1>2, <1>4, <1>5, <1>6

\* The sum of what is unsettled is an integer.
LEMMA UnsettledIs ==
    ASSUME HistoryInv, NEW c \in Settles
    PROVE  /\ IsFiniteSet(Unsettled(c)) /\ Cardinality(Unsettled(c)) \in Nat
           /\ NetOf(Unsettled(c)) \in Int
           /\ \A e \in Unsettled(c) : e.amt \in Int
<1>1. Unsettled(c) \subseteq entries /\ IsFiniteSet(entries) /\ \A e \in entries : e.amt \in Int
  BY DEF Unsettled, Committed, HistoryInv, EntriesKnown
<1>2. IsFiniteSet(Unsettled(c)) /\ \A e \in Unsettled(c) : e.amt \in Int
  BY <1>1, FS_Subset
<1> QED BY <1>2, NetType, FS_CardinalityType

\* Every step of a settlement is a step of its transaction.
LEMMA SettleSteps ==
    ASSUME HistoryAndSumsInv, NEW c \in Settles, SettleStep(c)
    PROVE  SummedTypeOK' /\ \E to \in Stages : TxnStep(c, to)
<1>0. /\ c \in Txns /\ HistoryInv /\ SummedTypeOK /\ IsFiniteSet(entries)
      /\ summed \in [Settles -> [net : Int, count : Nat]]
  BY SettlesAssumption DEF HistoryAndSumsInv, HistoryInv, SummedTypeOK
<1>1. \A e \in entries : e.txn = c => stage[c] \in {"written", "committed"} /\ e.acct \in Touches[c] /\ e.amt \in Int
  BY <1>0 DEF HistoryInv, EntriesKnown
<1>2. NoSum \in [net : Int, count : Nat]
  BY DEF NoSum
<1>3. CASE BeginSettlement(c)
  <2>1. TxnStep(c, "begun")
    BY <1>0, <1>1, <1>3 DEF BeginSettlement, Goto, TxnStep, Stages
  <2> QED BY <1>0, <1>3, <2>1 DEF BeginSettlement, SummedTypeOK, Stages
<1>4. CASE ReplaySettlement(c)
  <2>1. TxnStep(c, "over")
    BY <1>0, <1>1, <1>4 DEF ReplaySettlement, Goto, TxnStep, Stages
  <2> QED BY <1>0, <1>4, <2>1 DEF ReplaySettlement, SummedTypeOK, Stages
<1>5. CASE SumUnsettled(c)
  <2>1. TxnStep(c, "summed")
    BY <1>0, <1>1, <1>5 DEF SumUnsettled, Goto, TxnStep, Stages
  <2>2. [net |-> NetOf(Unsettled(c)), count |-> Cardinality(Unsettled(c))] \in [net : Int, count : Nat]
    BY <1>0, UnsettledIs
  <2>3. SummedTypeOK'
    BY <1>0, <1>5, <2>2 DEF SumUnsettled, SummedTypeOK
  <2> QED BY <2>1, <2>3 DEF Stages
<1>6. ASSUME GiveUp(c), stage[c] \in {"summed", "written"}
      PROVE  SummedTypeOK' /\ \E to \in Stages : TxnStep(c, to)
  <2>1. entries' = {e \in entries : e.txn # c}
    BY <1>6 DEF GiveUp, Undo
  <2>2. IsFiniteSet(entries')
    BY <1>0, <2>1, FS_Subset
  <2>3. PICK to \in {"idle", "over"} : stage' = [stage EXCEPT ![c] = to]
    BY <1>6 DEF GiveUp, Goto
  <2>4. TxnStep(c, to)
    BY <1>0, <1>6, <2>1, <2>2, <2>3 DEF TxnStep, Stages
  <2>5. SummedTypeOK'
    BY <1>0, <1>2, <1>6 DEF GiveUp, SummedTypeOK
  <2> QED BY <2>4, <2>5 DEF Stages
<1>7. CASE \E now \in Times : WriteSettlement(c, now)
  <2>1. PICK now \in Times : WriteSettlement(c, now)
    BY <1>7
  <2>2. CASE KeyTaken(c)
    BY <1>6, <2>1, <2>2 DEF WriteSettlement
  <2>3. CASE ~KeyTaken(c)
    <3>1. /\ stage[c] = "summed" /\ entries' = entries \cup OwnEntries(c, now)
          /\ stage' = [stage EXCEPT ![c] = "written"] /\ UNCHANGED summed
      BY <2>1, <2>3 DEF WriteSettlement, Goto
    <3>2. IsFiniteSet(entries')
      BY <1>0, <3>1, OwnEntriesAre, FS_Union
    <3>3. \A e \in OwnEntries(c, now) : e.txn = c /\ e.acct \in Touches[c] /\ e.amt \in Int
      BY <1>0, OwnEntriesAre
    <3>4. TxnStep(c, "written")
      BY <1>0, <1>1, <3>1, <3>2, <3>3 DEF TxnStep, Stages
    <3> QED BY <1>0, <3>1, <3>4 DEF SummedTypeOK, Stages
  <2> QED BY <2>2, <2>3
<1>8. CASE Refuse(c)
  <2>1. TxnStep(c, "over")
    BY <1>0, <1>1, <1>8 DEF Refuse, Goto, TxnStep, Stages
  <2>2. SummedTypeOK'
    BY <1>0, <1>2, <1>8 DEF Refuse, SummedTypeOK
  <2> QED BY <2>1, <2>2 DEF Stages
<1>9. CASE CommitSettlement(c)
  <2>1. TxnStep(c, "committed")
    BY <1>0, <1>1, <1>9 DEF CommitSettlement, Goto, TxnStep, Stages
  <2> QED BY <1>0, <1>9, <2>1 DEF CommitSettlement, SummedTypeOK, Stages
<1>10. CASE stage[c] = "written" /\ GiveUp(c)
  BY <1>6, <1>10
<1> QED BY <1>3, <1>4, <1>5, <1>7, <1>8, <1>9, <1>10 DEF SettleStep

\* Every step of the composition keeps the invariant of the transactions.
LEMMA HistoryNextInv == HistoryAndSumsInv /\ [Next]_vars => HistoryAndSumsInv'
<1> SUFFICES ASSUME HistoryAndSumsInv, [Next]_vars PROVE HistoryAndSumsInv'
  OBVIOUS
<1>0. HistoryInv /\ SummedTypeOK
  BY DEF HistoryAndSumsInv
<1>1. CASE SettlementsNext
  <2>1. ASSUME NEW c \in Settles, SettleStep(c) PROVE HistoryAndSumsInv'
    BY <1>0, <2>1, SettleSteps, TxnStepInv DEF HistoryAndSumsInv
  <2>2. ASSUME NEW p \in Posts, PostMeanwhile(p) PROVE HistoryAndSumsInv'
    <3>1. HistoryInv'
      BY <1>0, <2>2, PostSteps, TxnStepInv DEF PostMeanwhile
    <3> QED BY <1>0, <2>2, <3>1 DEF HistoryAndSumsInv, SummedTypeOK, PostMeanwhile, settleVars
  <2> QED BY <1>1, <2>1, <2>2 DEF SettlementsNext
<1>2. CASE StatementsNext
  <2>1. ASSUME NEW s \in Statements, StatementStep(s) PROVE HistoryInv'
    BY <1>0, <2>1 DEF StatementStep, historyVars, HistoryInv, EntriesKnown, LocksHeld
  <2>2. ASSUME NEW p \in Posts, PostNumbered(p) PROVE HistoryInv'
    BY <1>0, <2>2, PostSteps, TxnStepInv DEF PostNumbered
  <2> QED BY <1>0, <1>2, <2>1, <2>2 DEF StatementsNext, HistoryAndSumsInv, SummedTypeOK, settleVars
<1>3. CASE UNCHANGED <<historyVars, settleVars>>
  BY <1>0, <1>3 DEF HistoryAndSumsInv, SummedTypeOK, historyVars, settleVars, HistoryInv, EntriesKnown, LocksHeld
<1>4. SettlementsNext \/ StatementsNext \/ UNCHANGED <<historyVars, settleVars>>
  BY DEF Next, vars, CategoriesNext, ApiKeysNext, MonitorsNext, DetailsNext, MoneyNext
<1> QED BY <1>1, <1>2, <1>3, <1>4

\* The invariant of the transactions holds in the composition.
THEOREM HistoryInvHolds == Spec => []HistoryAndSumsInv
<1>1. Init => HistoryAndSumsInv
  BY HistoryInitInv DEF Init, SettlementsInit, NoSum, HistoryAndSumsInv, SummedTypeOK
<1>2. HistoryAndSumsInv /\ [Next]_vars => HistoryAndSumsInv'
  BY HistoryNextInv
<1> QED BY <1>1, <1>2, PTL DEF Spec

-------------------------------------------------------------------------------
(***************************************************************************)
(* Statements.                                                             *)
(***************************************************************************)

Sheet == [debits : Int, credits : Int, count : Nat]
StatementRow == [step : {"new", "bounded", "opened", "saved"}, before : Nat, opening : Sheet, period : Sheet]

StatementsTypeOK ==
    /\ nextXid \in Nat
    /\ xid \in [Txns -> Nat]
    /\ statement \in [Statements -> StatementRow]

\* Whatever is in progress when the bound is taken, or begins later, is not below it.
BoundsHold ==
    \A s \in Statements :
        statement[s].step # "new" =>
            /\ part = "statements"
            /\ statement[s].before <= nextXid
            /\ \A t \in Txns : InProgress(t) => statement[s].before <= xid[t]

\* What has been read is what is read again.
TotalsHold ==
    \A s \in Statements :
        /\ statement[s].step \in {"opened", "saved"} => statement[s].opening = Totals(Opening(s, statement[s].before))
        /\ statement[s].step = "saved" => statement[s].period = Totals(Period(s, statement[s].before))

StatementsInv ==
    /\ HistoryInv
    /\ StatementsTypeOK
    /\ BoundsHold
    /\ TotalsHold

\* The statements are all new in the other services.
LEMMA StatementsInitInv == Init => BoundsHold /\ TotalsHold /\ StatementsTypeOK
BY DEF Init, StatementsInit, BoundsHold, TotalsHold, StatementsTypeOK, StatementRow, Sheet, NoTotals

\* What a statement reads is finite, so its totals are numbers.
LEMMA TotalsAre ==
    ASSUME HistoryInv, NEW acct, NEW from, NEW until, NEW before
    PROVE  Totals(Select(acct, from, until, before)) \in Sheet
<1> DEFINE S == Select(acct, from, until, before)
           D == {e \in S : e.amt > 0}
           C == {e \in S : e.amt < 0}
<1>1. S \subseteq entries /\ IsFiniteSet(entries) /\ \A e \in entries : e.amt \in Int
  BY DEF Select, Committed, HistoryInv, EntriesKnown
<1>2. D \subseteq entries /\ C \subseteq entries
  BY <1>1
<1>3. Totals(S) = [debits |-> NetOf(D), credits |-> -NetOf(C), count |-> Cardinality(S)]
  BY DEF Totals
<1> HIDE DEF S, D, C
<1>4. IsFiniteSet(S) /\ IsFiniteSet(D) /\ IsFiniteSet(C)
  BY <1>1, <1>2, FS_Subset
<1>5. NetOf(D) \in Int /\ NetOf(C) \in Int /\ Cardinality(S) \in Nat
  BY <1>1, <1>2, <1>4, NetType, FS_CardinalityType
<1>6. Totals(S) \in Sheet
  BY <1>3, <1>5 DEF Sheet
<1> QED BY <1>6 DEF S

\* The oldest transaction in progress is not older than the bound.
LEMMA XminIs ==
    ASSUME StatementsTypeOK
    PROVE  /\ SnapshotXmin \in Nat /\ SnapshotXmin <= nextXid
           /\ \A t \in Txns : InProgress(t) => SnapshotXmin <= xid[t]
<1> DEFINE T == {xid[t] : t \in {u \in Txns : InProgress(u)}} \cup {nextXid}
<1>1. T \in SUBSET Nat /\ nextXid \in T /\ \A t \in Txns : InProgress(t) => xid[t] \in T
  BY DEF StatementsTypeOK
<1>2. SnapshotXmin = CHOOSE x \in T : \A y \in T : x <= y
  BY DEF SnapshotXmin, Min
<1> HIDE DEF T
<1>3. \E x \in T : \A y \in T : x <= y
  BY <1>1, LeastNatural
<1>4. SnapshotXmin \in T /\ \A y \in T : SnapshotXmin <= y
  BY <1>2, <1>3
<1> QED BY <1>1, <1>4

\* A step of a transaction changes nothing that a statement reads: it cannot end below
\* the bound.
LEMMA SelectStays ==
    ASSUME HistoryInv, StatementsTypeOK, NEW t, NEW to, TxnStep(t, to),
           \A u \in Txns \ {t} : xid'[u] = xid[u], xid'[t] # xid[t] => stage[t] = "idle" /\ to = "begun",
           NEW before \in Nat, \A u \in Txns : InProgress(u) => before <= xid[u],
           NEW acct, NEW from, NEW until
    PROVE  Select(acct, from, until, before)' = Select(acct, from, until, before)
<1>0. /\ t \in Txns /\ xid \in [Txns -> Nat] /\ stage[t] # "committed"
      /\ \A u \in Txns : stage'[u] = IF u = t THEN to ELSE stage[u]
      /\ to = "committed" => stage[t] = "written"
  BY DEF HistoryInv, TxnStep, StatementsTypeOK
<1>1. (\A e \in Committed : e.txn \in Txns /\ e.txn # t)
  BY <1>0 DEF HistoryInv, EntriesKnown, Committed
<1>2. CASE to # "committed"
  <2>1. Committed' = Committed
    BY <1>2, CommittedAfter
  <2> QED BY <1>1, <2>1 DEF Select
<1>3. CASE to = "committed"
  <2>1. Committed' = Committed \cup {e \in entries : e.txn = t}
    BY <1>3, CommittedAfter
  <2>2. before <= xid[t] /\ xid'[t] = xid[t]
    BY <1>0, <1>3 DEF InProgress
  <2>3. ~(xid'[t] < before)
    BY <1>0, <2>2
  <2> QED BY <1>1, <2>1, <2>3 DEF Select
<1> QED BY <1>2, <1>3

\* So what has been read stays what is read again.
LEMMA TotalsStay ==
    ASSUME HistoryInv, StatementsTypeOK, BoundsHold, TotalsHold, UNCHANGED statement,
           NEW t, NEW to, TxnStep(t, to),
           \A u \in Txns \ {t} : xid'[u] = xid[u], xid'[t] # xid[t] => stage[t] = "idle" /\ to = "begun"
    PROVE  TotalsHold'
<1> SUFFICES ASSUME NEW s \in Statements, statement[s].step # "new"
             PROVE  /\ Totals(Opening(s, statement[s].before))' = Totals(Opening(s, statement[s].before))
                    /\ Totals(Period(s, statement[s].before))' = Totals(Period(s, statement[s].before))
  BY DEF TotalsHold
<1>1. statement[s].before \in Nat /\ \A u \in Txns : InProgress(u) => statement[s].before <= xid[u]
  BY DEF StatementsTypeOK, StatementRow, BoundsHold
<1>2. PICK before \in Nat : before = statement[s].before
  BY <1>1
<1>3. statement'[s].before = before
  BY <1>2
<1>4. ASSUME NEW acct, NEW from, NEW until
      PROVE  Select(acct, from, until, before)' = Select(acct, from, until, before)
  BY <1>1, <1>2, SelectStays
<1>5. Opening(s, before)' = Opening(s, before) /\ Period(s, before)' = Period(s, before)
  BY <1>4 DEF Opening, Period
<1>6. Totals(Opening(s, before))' = Totals(Opening(s, before)) /\ Totals(Period(s, before))' = Totals(Period(s, before))
  BY <1>5 DEF Totals, NetOf
<1>7. /\ Totals(Opening(s, statement[s].before))' = Totals(Opening(s, before))'
      /\ Totals(Period(s, statement[s].before))' = Totals(Period(s, before))'
  BY <1>3
<1> QED BY <1>2, <1>6, <1>7

\* A posting keeps the invariant of the statements.
LEMMA PostNumberedInv ==
    ASSUME StatementsInv, NEW p \in Posts, PostNumbered(p), UNCHANGED part
    PROVE  BoundsHold' /\ TotalsHold' /\ StatementsTypeOK'
<1>0. HistoryInv /\ StatementsTypeOK /\ BoundsHold /\ TotalsHold /\ p \in Txns
  BY PostsAssumption DEF StatementsInv
<1>1. nextXid \in Nat /\ xid \in [Txns -> Nat] /\ statement \in [Statements -> StatementRow] /\ UNCHANGED statement
  BY <1>0 DEF StatementsTypeOK, PostNumbered, statementVars
<1>2. CASE BeginPost(p) /\ xid' = [xid EXCEPT ![p] = nextXid] /\ nextXid' = nextXid + 1
  <2>1. TxnStep(p, "begun") /\ stage[p] = "idle"
    BY <1>0, <1>2, PostSteps DEF BeginPost
  <2>2. StatementsTypeOK'
    <3>1. nextXid' \in Nat
      BY <1>1, <1>2
    <3>2. xid' \in [Txns -> Nat]
      BY <1>1, <1>2
    <3> QED BY <1>1, <3>1, <3>2 DEF StatementsTypeOK
  <2>3. \A u \in Txns : xid'[u] = IF u = p THEN nextXid ELSE xid[u]
    BY <1>0, <1>1, <1>2
  <2>4. \A u \in Txns \ {p} : InProgress(u)' <=> InProgress(u)
    BY <1>0, <2>1 DEF TxnStep, InProgress, HistoryInv
  <2>5. BoundsHold'
    <3> SUFFICES ASSUME NEW s \in Statements, statement[s].step # "new"
                 PROVE  /\ part = "statements" /\ statement[s].before <= nextXid'
                        /\ \A t \in Txns : InProgress(t)' => statement[s].before <= xid'[t]
      BY <1>1 DEF BoundsHold
    <3>1. statement[s].before \in Nat /\ statement[s].before <= nextXid /\ part = "statements"
      BY <1>0, <1>1 DEF StatementRow, BoundsHold
    <3> QED BY <1>0, <1>1, <1>2, <2>3, <2>4, <3>1 DEF BoundsHold
  <2>6. TotalsHold'
    BY <1>0, <1>1, <2>1, <2>3, TotalsStay
  <2> QED BY <2>2, <2>5, <2>6
<1>3. CASE (WritePost(p, "begun") \/ EndPost(p)) /\ UNCHANGED statementVars
  <2>1. PICK to : TxnStep(p, to)
    BY <1>0, <1>3, PostSteps
  <2>2. StatementsTypeOK' /\ xid' = xid /\ nextXid' = nextXid /\ \A u \in Txns : xid'[u] = xid[u]
    BY <1>0, <1>3 DEF StatementsTypeOK, statementVars
  <2>3. \A u \in Txns : InProgress(u)' => InProgress(u)
    BY <1>0, <1>3 DEF WritePost, EndPost, Goto, InProgress, HistoryInv
  <2>4. BoundsHold'
    BY <1>0, <1>1, <2>2, <2>3 DEF BoundsHold
  <2>5. TotalsHold'
    BY <1>0, <1>1, <2>1, <2>2, TotalsStay
  <2> QED BY <2>2, <2>4, <2>5
<1> QED BY <1>2, <1>3 DEF PostNumbered

\* A step of a statement keeps its invariant.
LEMMA StatementStepInv ==
    ASSUME StatementsInv, part = "statements", NEW s \in Statements, StatementStep(s), UNCHANGED part
    PROVE  BoundsHold' /\ TotalsHold' /\ StatementsTypeOK'
<1>0. /\ HistoryInv /\ StatementsTypeOK /\ BoundsHold /\ TotalsHold
      /\ nextXid \in Nat /\ xid \in [Txns -> Nat] /\ statement \in [Statements -> StatementRow]
      /\ UNCHANGED <<stage, entries, nextXid, xid>>
  BY DEF StatementsInv, StatementsTypeOK, StatementStep, historyVars
<1>1. \A t : InProgress(t)' <=> InProgress(t)
  BY <1>0 DEF InProgress
<1>2. \A acct, from, until, before : Select(acct, from, until, before)' = Select(acct, from, until, before)
  BY <1>0 DEF Select, Committed
<1>3. ASSUME NEW r \in StatementRow, statement' = [statement EXCEPT ![s] = r],
             r.before <= nextXid, \A t \in Txns : InProgress(t) => r.before <= xid[t],
             r.step \in {"opened", "saved"} => r.opening = Totals(Opening(s, r.before)),
             r.step = "saved" => r.period = Totals(Period(s, r.before))
      PROVE  BoundsHold' /\ TotalsHold' /\ StatementsTypeOK'
  <2>1. \A q \in Statements : statement'[q] = IF q = s THEN r ELSE statement[q]
    BY <1>0, <1>3
  <2>2. StatementsTypeOK'
    BY <1>0, <1>3 DEF StatementsTypeOK
  <2>3. BoundsHold'
    BY <1>0, <1>1, <1>3, <2>1 DEF BoundsHold
  <2>4. TotalsHold'
    <3> SUFFICES ASSUME NEW q \in Statements, NEW before, before = statement'[q].before
                 PROVE  /\ statement'[q].step \in {"opened", "saved"} =>
                               statement'[q].opening = Totals(Opening(q, before))'
                        /\ statement'[q].step = "saved" => statement'[q].period = Totals(Period(q, before))'
      BY DEF TotalsHold
    <3>1. Opening(q, before)' = Opening(q, before) /\ Period(q, before)' = Period(q, before)
      BY <1>2 DEF Opening, Period
    <3>2. Totals(Opening(q, before))' = Totals(Opening(q, before)) /\ Totals(Period(q, before))' = Totals(Period(q, before))
      BY <3>1 DEF Totals, NetOf
    <3>3. CASE q = s
      BY <1>3, <2>1, <3>2, <3>3
    <3>4. CASE q # s
      BY <1>0, <2>1, <3>2, <3>4 DEF TotalsHold
    <3> QED BY <3>3, <3>4
  <2> QED BY <2>2, <2>3, <2>4
<1>4. statement[s] \in StatementRow
  BY <1>0
<1>5. CASE TakeBound(s)
  <2> DEFINE r == [statement[s] EXCEPT !.step = "bounded", !.before = SnapshotXmin]
  <2>1. statement' = [statement EXCEPT ![s] = r]
    BY <1>5 DEF TakeBound
  <2>2. /\ SnapshotXmin \in Nat /\ SnapshotXmin <= nextXid
        /\ \A t \in Txns : InProgress(t) => SnapshotXmin <= xid[t]
    BY <1>0, XminIs
  <2>3. r \in StatementRow /\ r.before = SnapshotXmin /\ r.step = "bounded"
    BY <1>4, <2>2 DEF StatementRow
  <2> HIDE DEF r
  <2> QED BY <1>3, <2>1, <2>2, <2>3
<1>6. CASE ReadOpening(s)
  <2> DEFINE b == statement[s].before
             r == [statement[s] EXCEPT !.step = "opened", !.opening = Totals(Opening(s, b))]
  <2>1. statement' = [statement EXCEPT ![s] = r] /\ statement[s].step = "bounded"
    BY <1>6 DEF ReadOpening
  <2>2. Totals(Opening(s, b)) \in Sheet
    BY <1>0, TotalsAre DEF Opening
  <2>3. r \in StatementRow /\ r.before = b /\ r.step = "opened" /\ r.opening = Totals(Opening(s, b))
    BY <1>4, <2>2 DEF StatementRow
  <2>4. b <= nextXid /\ \A t \in Txns : InProgress(t) => b <= xid[t]
    BY <1>0, <2>1 DEF BoundsHold
  <2> HIDE DEF r, b
  <2> QED BY <1>3, <2>1, <2>3, <2>4
<1>7. CASE ReadPeriod(s)
  <2> DEFINE b == statement[s].before
             r == [statement[s] EXCEPT !.step = "saved", !.period = Totals(Period(s, b))]
  <2>1. statement' = [statement EXCEPT ![s] = r] /\ statement[s].step = "opened"
    BY <1>7 DEF ReadPeriod
  <2>2. Totals(Period(s, b)) \in Sheet
    BY <1>0, TotalsAre DEF Period
  <2>3. /\ r \in StatementRow /\ r.before = b /\ r.step = "saved" /\ r.period = Totals(Period(s, b))
        /\ r.opening = statement[s].opening
    BY <1>4, <2>2 DEF StatementRow
  <2>4. b <= nextXid /\ \A t \in Txns : InProgress(t) => b <= xid[t]
    BY <1>0, <2>1 DEF BoundsHold
  <2>5. statement[s].opening = Totals(Opening(s, b))
    BY <1>0, <2>1 DEF TotalsHold
  <2> HIDE DEF r, b
  <2> QED BY <1>3, <2>1, <2>3, <2>4, <2>5
<1> QED BY <1>5, <1>6, <1>7 DEF StatementStep

\* Every step of the composition keeps the invariant of the statements.
LEMMA StatementsNextInv == StatementsInv /\ HistoryAndSumsInv /\ [Next]_vars => StatementsInv'
<1> SUFFICES ASSUME StatementsInv, HistoryAndSumsInv, [Next]_vars PROVE StatementsInv'
  OBVIOUS
<1>0. HistoryInv' /\ HistoryInv /\ StatementsTypeOK /\ BoundsHold /\ TotalsHold
  BY HistoryNextInv DEF HistoryAndSumsInv, StatementsInv
<1>1. CASE StatementsNext
  BY <1>0, <1>1, PostNumberedInv, StatementStepInv DEF StatementsNext, StatementsInv
<1>2. CASE SettlementsNext
  <2>1. UNCHANGED <<part, nextXid, xid, statement>> /\ part = "settlements"
    BY <1>2 DEF SettlementsNext, statementVars
  <2>2. \A s \in Statements : statement[s].step = "new"
    BY <1>0, <2>1 DEF BoundsHold
  <2> QED BY <1>0, <2>1, <2>2 DEF StatementsInv, StatementsTypeOK, BoundsHold, TotalsHold
<1>3. CASE UNCHANGED <<part, historyVars, statementVars>>
  <2>1. UNCHANGED <<part, stage, entries, nextXid, xid, statement>>
    BY <1>3 DEF historyVars, statementVars
  <2>2. StatementsTypeOK' /\ BoundsHold'
    BY <1>0, <2>1 DEF StatementsTypeOK, BoundsHold, InProgress
  <2>3. TotalsHold'
    BY <1>0, <2>1 DEF TotalsHold, Totals, NetOf, Opening, Period, Select, Committed
  <2> QED BY <1>0, <2>2, <2>3 DEF StatementsInv
<1>4. StatementsNext \/ SettlementsNext \/ UNCHANGED <<part, historyVars, statementVars>>
  BY DEF Next, vars, CategoriesNext, ApiKeysNext, MonitorsNext, DetailsNext, MoneyNext
<1> QED BY <1>1, <1>2, <1>3, <1>4

\* The invariant of the statements holds in the composition.
THEOREM StatementsInvHolds == Spec => []StatementsInv
<1>1. Init => StatementsInv
  BY StatementsInitInv, HistoryInitInv DEF Init, StatementsInv
<1>2. StatementsInv /\ HistoryAndSumsInv /\ [Next]_vars => StatementsInv'
  BY StatementsNextInv
<1> QED BY <1>1, <1>2, HistoryInvHolds, PTL DEF Spec

\* The entries listed for a statement give the totals it reports, whatever transactions
\* end after it was made, for any number of transactions, accounts and statements: none
\* of them has an id below the bound (createStatement, listEntries).
THEOREM StatementsStayTrueHolds == Spec => []StatementsStayTrue
<1>1. StatementsInv => StatementsStayTrue
  BY DEF StatementsInv, TotalsHold, StatementsStayTrue
<1> QED BY <1>1, StatementsInvHolds, PTL

-------------------------------------------------------------------------------
(***************************************************************************)
(* Settlements.                                                            *)
(***************************************************************************)

\* The settlement and its marks are inserted.
Wrote(c) == stage[c] \in {"written", "committed"}

\* The entries a settlement covers, without its own.
Covered(c) == {e \in marks[c] : e.txn # c}

SettleTypeOK ==
    /\ marks \in [Settles -> SUBSET entries]
    /\ answer \in [Settles -> Settles \cup {NoAnswer, "conflict", "refused", "failed"}]

\* While the accounts are locked, what was summed is what is there.
SumIsFresh(c) ==
    stage[c] = "summed" => summed[c].net = NetOf(Unsettled(c)) /\ summed[c].count = Cardinality(Unsettled(c))

\* Only what is in force is marked, beside the entry of the settlement itself.
MarksInForce(c) ==
    /\ ~Wrote(c) => marks[c] = {}
    /\ \A e \in marks[c] : e.acct = SettleOf[c].settled /\ (e.txn # c => stage[e.txn] = "committed")

MarksAddUp(c) ==
    Wrote(c) => /\ NetOf(marks[c]) = 0
                /\ NetOf(Covered(c)) = summed[c].net /\ Cardinality(Covered(c)) = summed[c].count

SettlementOK(c) == SumIsFresh(c) /\ MarksInForce(c) /\ MarksAddUp(c)

\* No entry is settled twice.
MarksDisjoint == \A c, d \in Settles : c # d => marks[c] \cap marks[d] = {}

\* The unique index on the key.
KeyOnce == \A c \in Settles : Wrote(c) => \A d \in SameKey(c) : ~Wrote(d)

AnswersTrue ==
    \A c \in Settles : answer[c] \in Settles => stage[answer[c]] = "committed" /\ SettleOf[answer[c]] = SettleOf[c]

SettlementsInv ==
    /\ HistoryAndSumsInv /\ SettleTypeOK
    /\ \A c \in Settles : SettlementOK(c)
    /\ MarksDisjoint /\ KeyOnce /\ AnswersTrue

\* The invariant holds before anything is settled.
LEMMA SettlementsInitInv == Init => SettlementsInv
<1> SUFFICES ASSUME Init PROVE SettlementsInv
  OBVIOUS
<1>1. HistoryAndSumsInv
  BY HistoryInitInv DEF Init, SettlementsInit, NoSum, HistoryAndSumsInv, SummedTypeOK
<1>2. /\ \A c \in Settles : stage[c] = "idle" /\ marks[c] = {} /\ answer[c] = NoAnswer
      /\ NoAnswer \notin Settles
  BY SettlesAssumption DEF Init, HistoryInit, SettlementsInit
<1>3. SettleTypeOK
  BY DEF Init, SettlementsInit, SettleTypeOK
<1> QED BY <1>1, <1>2, <1>3 DEF SettlementsInv, SettlementOK, SumIsFresh, MarksInForce, MarksAddUp, Wrote, MarksDisjoint,
                               KeyOnce, AnswersTrue

\* A step of a transaction that changes no marks but its own, and those not by a commit.
OthersStay(t, to) ==
    /\ TxnStep(t, to)
    /\ \A d \in Settles \ {t} : marks'[d] = marks[d] /\ summed'[d] = summed[d]
    /\ to = "committed" => \A d \in Settles : marks'[d] = marks[d]

\* The stages after it.
LEMMA StagesAfter ==
    ASSUME HistoryInv, NEW t, NEW to, TxnStep(t, to)
    PROVE  /\ stage'[t] = to /\ t \in Txns
           /\ \A u \in Txns : u # t => stage'[u] = stage[u]
           /\ \A u \in Txns : stage[u] = "committed" => u # t /\ stage'[u] = "committed"
BY DEF HistoryInv, TxnStep

\* What a call would sum is not changed by a step of another transaction while the
\* accounts of the call are locked, nor by a step that commits nothing.
LEMMA UnsettledStays ==
    ASSUME SettlementsInv, NEW t, NEW to, OthersStay(t, to), NEW c \in Settles,
           to = "committed" => c # t /\ stage[c] = "summed"
    PROVE  Unsettled(c)' = Unsettled(c)
<1>0. /\ HistoryInv /\ TxnStep(t, to) /\ stage \in [Txns -> Stages] /\ Settles \subseteq Txns /\ SettleTypeOK
      /\ \A d \in Settles : MarksInForce(d)
  BY SettlesAssumption DEF SettlementsInv, HistoryAndSumsInv, OthersStay, HistoryInv, SettlementOK
<1>1. /\ stage'[t] = to /\ t \in Txns
      /\ \A u \in Txns : u # t => stage'[u] = stage[u]
      /\ stage[t] # "committed"
  BY <1>0, StagesAfter
<1>2. CASE to # "committed"
  <2>1. Committed' = Committed
    BY <1>0, <1>2, CommittedAfter
  <2>2. \A d \in Settles : stage'[d] = "committed" <=> stage[d] = "committed"
    BY <1>0, <1>1, <1>2
  <2>3. \A d \in Settles : stage[d] = "committed" => marks'[d] = marks[d]
    BY <1>1 DEF OthersStay
  <2>4. Settled' = Settled
    BY <2>2, <2>3 DEF Settled
  <2> QED BY <2>1, <2>4 DEF Unsettled
<1>3. CASE to = "committed"
  <2>1. Committed' = Committed \cup {e \in entries : e.txn = t}
    BY <1>0, <1>3, CommittedAfter
  <2>2. stage[t] = "written" /\ t # c /\ stage[c] = "summed" /\ c \in Txns
    BY <1>0, <1>3 DEF TxnStep
  <2>3. Touches[t] \cap Touches[c] = {}
    BY <1>0, <1>1, <2>2 DEF HistoryInv, LocksHeld
  <2>4. \A d \in Settles : SettleOf[d].settled \in Touches[d]
    BY SettlesAssumption
  <2>5. \A e \in entries : e.txn = t => e.acct # SettleOf[c].settled
    BY <1>0, <2>3, <2>4 DEF HistoryInv, EntriesKnown
  <2>6. t \in Settles => \A e \in marks[t] : e.acct # SettleOf[c].settled
    BY <1>0, <2>3, <2>4 DEF MarksInForce
  <2>7. \A e : e.acct = SettleOf[c].settled => (e \in Settled' <=> e \in Settled)
    <3>1. \A d \in Settles : marks'[d] = marks[d]
      BY <1>3 DEF OthersStay
    <3>2. \A d \in Settles : d # t => (stage'[d] = "committed" <=> stage[d] = "committed")
      BY <1>0, <1>1
    <3> QED BY <1>1, <2>6, <3>1, <3>2 DEF Settled
  <2> QED BY <2>1, <2>5, <2>7 DEF Unsettled
<1> QED BY <1>2, <1>3

\* A step of another transaction leaves a settlement as it should be.
LEMMA OthersKeep ==
    ASSUME SettlementsInv, NEW t, NEW to, OthersStay(t, to), NEW c \in Settles, c # t
    PROVE  SettlementOK(c)' /\ marks'[c] \in SUBSET entries'
<1>0. /\ HistoryInv /\ TxnStep(t, to) /\ c \in Txns /\ SettleTypeOK
      /\ SumIsFresh(c) /\ MarksInForce(c) /\ MarksAddUp(c) /\ marks[c] \in SUBSET entries
  BY SettlesAssumption DEF SettlementsInv, HistoryAndSumsInv, OthersStay, SettlementOK, SettleTypeOK
<1>1. /\ stage'[c] = stage[c] /\ marks'[c] = marks[c] /\ summed'[c] = summed[c]
      /\ \A u \in Txns : stage[u] = "committed" => u # t /\ stage'[u] = "committed"
  BY <1>0, StagesAfter DEF OthersStay
<1>2. \A e \in marks[c] : e \in entries /\ e.txn \in Txns
  BY <1>0 DEF HistoryInv, EntriesKnown
<1>3. MarksInForce(c)'
  BY <1>0, <1>1, <1>2 DEF MarksInForce, Wrote
<1>4. marks'[c] \in SUBSET entries'
  <2>1. \A e \in marks[c] : e.txn # t
    BY <1>0, <1>1, <1>2 DEF MarksInForce
  <2> QED BY <1>0, <1>1, <1>2, <2>1 DEF TxnStep
<1>5. MarksAddUp(c)'
  <2>1. Covered(c)' = Covered(c)
    BY <1>1 DEF Covered
  <2>2. NetOf(Covered(c))' = NetOf(Covered(c)) /\ NetOf(marks[c])' = NetOf(marks[c])
    BY <1>1, <2>1 DEF NetOf
  <2>3. Cardinality(Covered(c))' = Cardinality(Covered(c))
    BY <2>1
  <2> QED BY <1>0, <1>1, <2>2, <2>3 DEF MarksAddUp, Wrote
<1>6. SumIsFresh(c)'
  <2> SUFFICES ASSUME stage[c] = "summed"
               PROVE  summed'[c].net = NetOf(Unsettled(c))' /\ summed'[c].count = Cardinality(Unsettled(c))'
    BY <1>1 DEF SumIsFresh
  <2>1. Unsettled(c)' = Unsettled(c)
    BY UnsettledStays
  <2>2. NetOf(Unsettled(c))' = NetOf(Unsettled(c)) /\ Cardinality(Unsettled(c))' = Cardinality(Unsettled(c))
    BY <2>1 DEF NetOf
  <2> QED BY <1>0, <1>1, <2>2 DEF SumIsFresh
<1> QED BY <1>3, <1>4, <1>5, <1>6 DEF SettlementOK

\* What remains to be shown of a step of a call.
CallStays(c) ==
    /\ SettlementOK(c)'
    /\ marks' = [marks EXCEPT ![c] = marks'[c]]
    /\ marks'[c] \in SUBSET entries'
    /\ \A d \in Settles \ {c} : marks'[c] \cap marks[d] = {}
    /\ Wrote(c)' => Wrote(c) \/ \A d \in SameKey(c) : ~Wrote(d)
    /\ answer' = [answer EXCEPT ![c] = answer'[c]]
    /\ answer'[c] \in Settles \cup {NoAnswer, "conflict", "refused", "failed"}
    /\ answer'[c] \in Settles => stage'[answer'[c]] = "committed" /\ SettleOf[answer'[c]] = SettleOf[c]

LEMMA CallKeeps ==
    ASSUME SettlementsInv, HistoryAndSumsInv', NEW c \in Settles, NEW to, OthersStay(c, to), CallStays(c)
    PROVE  SettlementsInv'
<1>0. /\ HistoryInv /\ TxnStep(c, to) /\ Settles \subseteq Txns /\ SettleTypeOK
      /\ marks \in [Settles -> SUBSET entries]
      /\ answer \in [Settles -> Settles \cup {NoAnswer, "conflict", "refused", "failed"}]
      /\ MarksDisjoint /\ KeyOnce /\ AnswersTrue
  BY SettlesAssumption DEF SettlementsInv, HistoryAndSumsInv, OthersStay, SettleTypeOK
<1>1. /\ \A u \in Txns : u # c => stage'[u] = stage[u]
      /\ \A u \in Txns : stage[u] = "committed" => u # c /\ stage'[u] = "committed"
  BY <1>0, StagesAfter
<1>2. \A d \in Settles : SettlementOK(d)' /\ marks'[d] \in SUBSET entries'
  BY OthersKeep DEF CallStays
<1>3. \A d \in Settles \ {c} : marks'[d] = marks[d]
  BY <1>0 DEF CallStays
<1>4. SettleTypeOK'
  <2>1. marks' = [d \in Settles |-> marks'[d]]
    BY <1>0 DEF CallStays
  <2>2. marks' \in [Settles -> SUBSET entries']
    BY <1>2, <2>1
  <2>3. answer' \in [Settles -> Settles \cup {NoAnswer, "conflict", "refused", "failed"}]
    BY <1>0 DEF CallStays
  <2> QED BY <2>2, <2>3 DEF SettleTypeOK
<1>5. MarksDisjoint'
  <2> SUFFICES ASSUME NEW a \in Settles, NEW b \in Settles, a # b
               PROVE  marks'[a] \cap marks'[b] = {}
    BY DEF MarksDisjoint
  <2>1. CASE a = c
    BY <1>3, <2>1 DEF CallStays
  <2>2. CASE b = c
    BY <1>3, <2>2 DEF CallStays
  <2>3. CASE a # c /\ b # c
    BY <1>0, <1>3, <2>3 DEF MarksDisjoint
  <2> QED BY <2>1, <2>2, <2>3
<1>6. KeyOnce'
  <2> SUFFICES ASSUME NEW a \in Settles, NEW b \in SameKey(a), Wrote(a)', Wrote(b)'
               PROVE  FALSE
    BY DEF KeyOnce, SameKey
  <2>1. b \in Settles /\ a # b /\ a \in SameKey(b)
    BY DEF SameKey
  <2>2. \A d \in Settles \ {c} : Wrote(d)' <=> Wrote(d)
    BY <1>0, <1>1 DEF Wrote
  <2>3. CASE a # c /\ b # c
    BY <1>0, <2>1, <2>2, <2>3 DEF KeyOnce
  <2>4. CASE a = c
    BY <1>0, <2>1, <2>2, <2>4 DEF KeyOnce, CallStays
  <2>5. CASE b = c
    BY <1>0, <2>1, <2>2, <2>5 DEF KeyOnce, CallStays
  <2> QED BY <2>3, <2>4, <2>5
<1>7. AnswersTrue'
  <2> SUFFICES ASSUME NEW a \in Settles, answer'[a] \in Settles
               PROVE  stage'[answer'[a]] = "committed" /\ SettleOf[answer'[a]] = SettleOf[a]
    BY DEF AnswersTrue
  <2>1. CASE a = c
    BY <2>1 DEF CallStays
  <2>2. CASE a # c
    <3>1. answer'[a] = answer[a]
      BY <1>0, <2>2 DEF CallStays
    <3> QED BY <1>0, <1>1, <3>1 DEF AnswersTrue
  <2> QED BY <2>1, <2>2
<1> QED BY <1>2, <1>4, <1>5, <1>6, <1>7 DEF SettlementsInv

\* A call that has not written has marked nothing, and its entries are not there.
LEMMA NotWritten ==
    ASSUME SettlementsInv, NEW c \in Settles, ~Wrote(c)
    PROVE  marks[c] = {} /\ \A e \in entries : e.txn # c
BY DEF SettlementsInv, SettlementOK, MarksInForce, HistoryAndSumsInv, HistoryInv, EntriesKnown, Wrote

\* A call that ends a step without marks is as it should be, if it has not just summed.
LEMMA NothingMarked ==
    ASSUME SettlementsInv, HistoryAndSumsInv', NEW c \in Settles, NEW to, TxnStep(c, to),
           to \in {"idle", "begun", "over"},
           marks' = [marks EXCEPT ![c] = {}], NEW s, summed' = [summed EXCEPT ![c] = s],
           answer' = [answer EXCEPT ![c] = answer'[c]],
           answer'[c] \in Settles \cup {NoAnswer, "conflict", "refused", "failed"},
           answer'[c] \in Settles => stage'[answer'[c]] = "committed" /\ SettleOf[answer'[c]] = SettleOf[c]
    PROVE  SettlementsInv'
<1>0. /\ HistoryInv /\ marks \in [Settles -> SUBSET entries]
      /\ summed \in [Settles -> [net : Int, count : Nat]]
  BY DEF SettlementsInv, SettleTypeOK, HistoryAndSumsInv, SummedTypeOK
<1>1. stage'[c] = to /\ marks'[c] = {} /\ \A d \in Settles \ {c} : marks'[d] = marks[d] /\ summed'[d] = summed[d]
  BY <1>0, StagesAfter
<1>2. OthersStay(c, to)
  BY <1>1 DEF OthersStay
<1>3. SettlementOK(c)' /\ ~Wrote(c)'
  BY <1>1 DEF SettlementOK, SumIsFresh, MarksInForce, MarksAddUp, Wrote
<1>4. CallStays(c)
  BY <1>1, <1>3 DEF CallStays
<1> QED BY <1>2, <1>4, CallKeeps

\* createSettlement begins, answers what is settled already, or gives up.
LEMMA EndsInv ==
    ASSUME SettlementsInv, NEW c \in Settles, SettleStep(c),
           \/ BeginSettlement(c) \/ ReplaySettlement(c) \/ Refuse(c)
           \/ stage[c] \in {"summed", "written"} /\ GiveUp(c)
    PROVE  SettlementsInv'
<1>0. /\ HistoryAndSumsInv /\ HistoryInv /\ AnswersTrue /\ c \in Txns /\ stage \in [Txns -> Stages]
      /\ marks \in [Settles -> SUBSET entries]
      /\ summed \in [Settles -> [net : Int, count : Nat]]
      /\ answer \in [Settles -> Settles \cup {NoAnswer, "conflict", "refused", "failed"}]
      /\ {NoAnswer, "conflict", "refused", "failed"} \cap Settles = {} /\ Settles \subseteq Txns
  BY SettlesAssumption DEF SettlementsInv, HistoryAndSumsInv, SummedTypeOK, SettleTypeOK, HistoryInv
<1>1. PICK to : TxnStep(c, to) /\ SummedTypeOK'
  BY <1>0, SettleSteps
<1>2. HistoryAndSumsInv'
  BY <1>0, <1>1, TxnStepInv DEF HistoryAndSumsInv
<1>3. /\ to = stage'[c]
      /\ \A u \in Txns : stage[u] = "committed" => stage'[u] = "committed"
  BY <1>0, <1>1, StagesAfter
<1>4. ~Wrote(c) => marks = [marks EXCEPT ![c] = {}]
  BY <1>0, NotWritten
<1>5. \A s \in [net : Int, count : Nat] : s = summed[c] => summed = [summed EXCEPT ![c] = s]
  BY <1>0
<1>6. CASE BeginSettlement(c)
  <2>1. stage[c] = "idle" /\ stage'[c] = "begun" /\ UNCHANGED <<summed, marks, answer>>
    BY <1>0, <1>6 DEF BeginSettlement, Goto
  <2>2. marks' = [marks EXCEPT ![c] = {}] /\ summed' = [summed EXCEPT ![c] = summed[c]]
    BY <1>0, <1>4, <2>1 DEF Wrote
  <2>3. answer' = [answer EXCEPT ![c] = answer'[c]] /\ answer'[c] = answer[c]
    BY <1>0, <2>1
  <2>4. /\ answer'[c] \in Settles \cup {NoAnswer, "conflict", "refused", "failed"}
        /\ answer'[c] \in Settles => stage'[answer'[c]] = "committed" /\ SettleOf[answer'[c]] = SettleOf[c]
    BY <1>0, <1>3, <2>3 DEF AnswersTrue
  <2> QED BY <1>1, <1>2, <1>3, <2>1, <2>2, <2>3, <2>4, NothingMarked
<1>7. CASE ReplaySettlement(c)
  <2>1. stage[c] = "idle" /\ stage'[c] = "over" /\ UNCHANGED <<summed, marks>>
    BY <1>0, <1>7 DEF ReplaySettlement, Goto
  <2>2. marks' = [marks EXCEPT ![c] = {}] /\ summed' = [summed EXCEPT ![c] = summed[c]]
    BY <1>0, <1>4, <2>1 DEF Wrote
  <2>3. PICK d \in SameKey(c) : stage[d] = "committed" /\ Tell(c, IF Matches(c, d) THEN d ELSE "conflict")
    BY <1>7 DEF ReplaySettlement
  <2>4. answer' = [answer EXCEPT ![c] = answer'[c]] /\ answer'[c] = IF Matches(c, d) THEN d ELSE "conflict"
    BY <1>0, <2>3 DEF Tell
  <2>5. d \in Settles
    BY <2>3 DEF SameKey
  <2>6. /\ answer'[c] \in Settles \cup {NoAnswer, "conflict", "refused", "failed"}
        /\ answer'[c] \in Settles => stage'[answer'[c]] = "committed" /\ SettleOf[answer'[c]] = SettleOf[c]
    BY <1>0, <1>3, <2>3, <2>4, <2>5 DEF Matches
  <2> QED BY <1>1, <1>2, <1>3, <2>1, <2>2, <2>4, <2>6, NothingMarked
<1>8. CASE Refuse(c)
  <2>1. stage[c] = "summed" /\ stage'[c] = "over" /\ UNCHANGED marks /\ summed' = [summed EXCEPT ![c] = NoSum]
    BY <1>0, <1>8 DEF Refuse, Goto
  <2>2. marks' = [marks EXCEPT ![c] = {}]
    BY <1>0, <1>4, <2>1 DEF Wrote
  <2>3. answer' = [answer EXCEPT ![c] = answer'[c]] /\ answer'[c] = "refused"
    BY <1>0, <1>8 DEF Refuse, Tell
  <2>4. answer'[c] \in Settles \cup {NoAnswer, "conflict", "refused", "failed"} /\ answer'[c] \notin Settles
    BY <1>0, <2>3
  <2> QED BY <1>1, <1>2, <1>3, <2>1, <2>2, <2>3, <2>4, NothingMarked
<1>9. CASE stage[c] \in {"summed", "written"} /\ GiveUp(c)
  <2>1. /\ stage'[c] \in {"idle", "over"} /\ marks' = [marks EXCEPT ![c] = {}]
        /\ summed' = [summed EXCEPT ![c] = NoSum]
    BY <1>0, <1>9 DEF GiveUp, Goto
  <2>2. answer' = [answer EXCEPT ![c] = answer'[c]] /\ answer'[c] \in {answer[c], "failed"}
    BY <1>0, <1>9 DEF GiveUp, Tell
  <2>3. /\ answer'[c] \in Settles \cup {NoAnswer, "conflict", "refused", "failed"}
        /\ answer'[c] \in Settles => stage'[answer'[c]] = "committed" /\ SettleOf[answer'[c]] = SettleOf[c]
    BY <1>0, <1>3, <2>2 DEF AnswersTrue
  <2> QED BY <1>1, <1>2, <1>3, <2>1, <2>2, <2>3, NothingMarked
<1> QED BY <1>6, <1>7, <1>8, <1>9

\* The accounts are locked and the sum is read.
LEMMA SumInv ==
    ASSUME SettlementsInv, NEW c \in Settles, SumUnsettled(c)
    PROVE  SettlementsInv'
<1>0. /\ HistoryAndSumsInv /\ HistoryInv /\ AnswersTrue /\ c \in Txns /\ stage \in [Txns -> Stages]
      /\ marks \in [Settles -> SUBSET entries]
      /\ summed \in [Settles -> [net : Int, count : Nat]]
      /\ answer \in [Settles -> Settles \cup {NoAnswer, "conflict", "refused", "failed"}]
      /\ Settles \subseteq Txns
  BY SettlesAssumption DEF SettlementsInv, HistoryAndSumsInv, SummedTypeOK, SettleTypeOK, HistoryInv
<1>1. PICK to : TxnStep(c, to) /\ SummedTypeOK'
  BY <1>0, SettleSteps DEF SettleStep
<1>2. HistoryAndSumsInv'
  BY <1>0, <1>1, TxnStepInv DEF HistoryAndSumsInv
<1>3. /\ to = stage'[c]
      /\ \A u \in Txns : stage[u] = "committed" => stage'[u] = "committed"
  BY <1>0, <1>1, StagesAfter
<1>4. /\ stage[c] = "begun" /\ stage'[c] = "summed" /\ UNCHANGED <<entries, marks, answer>>
      /\ summed' = [summed EXCEPT ![c] = [net |-> NetOf(Unsettled(c)), count |-> Cardinality(Unsettled(c))]]
  BY <1>0 DEF SumUnsettled, Goto
<1>5. marks[c] = {} /\ marks' = [marks EXCEPT ![c] = marks'[c]] /\ answer' = [answer EXCEPT ![c] = answer'[c]]
  BY <1>0, <1>4, NotWritten DEF Wrote
<1>6. OthersStay(c, to)
  BY <1>0, <1>1, <1>3, <1>4 DEF OthersStay
<1>7. Unsettled(c)' = Unsettled(c)
  BY <1>3, <1>4, <1>6, UnsettledStays
<1>8. SumIsFresh(c)'
  <2>1. NetOf(Unsettled(c))' = NetOf(Unsettled(c)) /\ Cardinality(Unsettled(c))' = Cardinality(Unsettled(c))
    BY <1>7 DEF NetOf
  <2>2. summed'[c] = [net |-> NetOf(Unsettled(c)), count |-> Cardinality(Unsettled(c))]
    BY <1>0, <1>4
  <2> QED BY <2>1, <2>2 DEF SumIsFresh
<1>9. MarksInForce(c)' /\ MarksAddUp(c)' /\ ~Wrote(c)'
  BY <1>4, <1>5 DEF MarksInForce, MarksAddUp, Wrote
<1>10. /\ answer'[c] \in Settles \cup {NoAnswer, "conflict", "refused", "failed"}
       /\ answer'[c] \in Settles => stage'[answer'[c]] = "committed" /\ SettleOf[answer'[c]] = SettleOf[c]
  BY <1>0, <1>3, <1>4 DEF AnswersTrue
<1>11. CallStays(c)
  BY <1>4, <1>5, <1>8, <1>9, <1>10 DEF CallStays, SettlementOK
<1> QED BY <1>2, <1>6, <1>11, CallKeeps

\* The settlement commits.
LEMMA CommitInv ==
    ASSUME SettlementsInv, NEW c \in Settles, CommitSettlement(c)
    PROVE  SettlementsInv'
<1>0. /\ HistoryAndSumsInv /\ HistoryInv /\ AnswersTrue /\ MarksDisjoint /\ c \in Txns /\ stage \in [Txns -> Stages]
      /\ marks \in [Settles -> SUBSET entries]
      /\ summed \in [Settles -> [net : Int, count : Nat]]
      /\ answer \in [Settles -> Settles \cup {NoAnswer, "conflict", "refused", "failed"}]
      /\ {NoAnswer, "conflict", "refused", "failed"} \cap Settles = {} /\ Settles \subseteq Txns
      /\ MarksInForce(c) /\ MarksAddUp(c)
  BY SettlesAssumption DEF SettlementsInv, HistoryAndSumsInv, SummedTypeOK, SettleTypeOK, HistoryInv, SettlementOK
<1>1. PICK to : TxnStep(c, to) /\ SummedTypeOK'
  BY <1>0, SettleSteps DEF SettleStep
<1>2. HistoryAndSumsInv'
  BY <1>0, <1>1, TxnStepInv DEF HistoryAndSumsInv
<1>3. /\ to = stage'[c]
      /\ \A u \in Txns : stage[u] = "committed" => stage'[u] = "committed"
  BY <1>0, <1>1, StagesAfter
<1>4. stage[c] = "written" /\ stage'[c] = "committed" /\ UNCHANGED <<entries, marks, summed>>
  BY <1>0 DEF CommitSettlement, Goto
<1>5. /\ answer' = [answer EXCEPT ![c] = answer'[c]]
      /\ answer'[c] \in {c, "failed"}
  BY <1>0 DEF CommitSettlement, Tell
<1>6. OthersStay(c, to)
  BY <1>1, <1>4 DEF OthersStay
<1>7. MarksInForce(c)'
  <2>1. \A e \in marks[c] : e.txn \in Txns
    BY <1>0 DEF HistoryInv, EntriesKnown
  <2> QED BY <1>0, <1>3, <1>4, <2>1 DEF MarksInForce, Wrote
<1>8. MarksAddUp(c)'
  <2>1. Covered(c)' = Covered(c)
    BY <1>4 DEF Covered
  <2>2. NetOf(Covered(c))' = NetOf(Covered(c)) /\ NetOf(marks[c])' = NetOf(marks[c])
    BY <1>4, <2>1 DEF NetOf
  <2> QED BY <1>0, <1>4, <2>1, <2>2 DEF MarksAddUp, Wrote
<1>9. SumIsFresh(c)' /\ Wrote(c)
  BY <1>4 DEF SumIsFresh, Wrote
<1>10. marks' = [marks EXCEPT ![c] = marks'[c]] /\ marks'[c] \in SUBSET entries'
  BY <1>0, <1>4
<1>11. \A d \in Settles \ {c} : marks'[c] \cap marks[d] = {}
  BY <1>0, <1>4 DEF MarksDisjoint
<1>12. /\ answer'[c] \in Settles \cup {NoAnswer, "conflict", "refused", "failed"}
       /\ answer'[c] \in Settles => stage'[answer'[c]] = "committed" /\ SettleOf[answer'[c]] = SettleOf[c]
  BY <1>0, <1>4, <1>5
<1>13. CallStays(c)
  BY <1>5, <1>7, <1>8, <1>9, <1>10, <1>11, <1>12 DEF CallStays, SettlementOK
<1> QED BY <1>2, <1>6, <1>13, CallKeeps

\* postSettlement, insertSettlement and markSettled.
LEMMA WriteInv ==
    ASSUME SettlementsInv, NEW c \in Settles, NEW now \in Times, WriteSettlement(c, now), ~KeyTaken(c)
    PROVE  SettlementsInv'
<1> DEFINE own == OwnEntries(c, now)
           S == Unsettled(c)
           M == ToMark(c, own)
<1>0. /\ HistoryAndSumsInv /\ HistoryInv /\ AnswersTrue /\ SummedTypeOK /\ c \in Txns /\ stage \in [Txns -> Stages]
      /\ marks \in [Settles -> SUBSET entries]
      /\ summed \in [Settles -> [net : Int, count : Nat]]
      /\ answer \in [Settles -> Settles \cup {NoAnswer, "conflict", "refused", "failed"}]
      /\ Settles \subseteq Txns /\ SumIsFresh(c) /\ \A d \in Settles : MarksInForce(d)
  BY SettlesAssumption DEF SettlementsInv, HistoryAndSumsInv, SummedTypeOK, SettleTypeOK, HistoryInv, SettlementOK
<1>1. PICK to : TxnStep(c, to) /\ SummedTypeOK'
  BY <1>0, SettleSteps DEF SettleStep
<1>2. HistoryAndSumsInv'
  BY <1>0, <1>1, TxnStepInv DEF HistoryAndSumsInv
<1>3. /\ to = stage'[c]
      /\ \A u \in Txns : u # c => stage'[u] = stage[u]
      /\ \A u \in Txns : stage[u] = "committed" => u # c /\ stage'[u] = "committed"
  BY <1>0, <1>1, StagesAfter
<1>4. /\ stage[c] = "summed" /\ stage'[c] = "written" /\ entries' = entries \cup own
      /\ marks' = [marks EXCEPT ![c] = M] /\ UNCHANGED <<summed, answer>>
      /\ \A d \in SameKey(c) : stage[d] # "written" /\ stage[d] # "committed"
  BY <1>0 DEF WriteSettlement, Goto, KeyTaken
<1>5. marks'[c] = M /\ \A d \in Settles \ {c} : marks'[d] = marks[d]
  BY <1>0, <1>4
<1>6. OthersStay(c, to)
  BY <1>1, <1>3, <1>4, <1>5 DEF OthersStay
<1>7. /\ IsFiniteSet(S) /\ NetOf(S) = summed[c].net /\ Cardinality(S) = summed[c].count
      /\ summed[c].net \in Int /\ \A e \in S : e.amt \in Int
  BY <1>0, <1>4, UnsettledIs DEF SumIsFresh
<1>8. \A e \in S : e \in entries /\ e.txn \in Txns /\ e.txn # c /\ stage[e.txn] = "committed" /\ e.acct = SettleOf[c].settled
  BY <1>0, <1>4 DEF Unsettled, Committed, HistoryInv, EntriesKnown
<1>9. \A e \in own : e.txn = c
  BY <1>0, OwnEntriesAre
<1>10. M = S \cup {e \in own : e.acct = SettleOf[c].settled}
  BY DEF ToMark
<1>11. MarksInForce(c)'
  <2>1. \A e \in M : e.acct = SettleOf[c].settled /\ (e.txn # c => e.txn \in Txns /\ stage[e.txn] = "committed")
    BY <1>8, <1>9, <1>10
  <2> HIDE DEF M
  <2> QED BY <1>3, <1>4, <1>5, <2>1 DEF MarksInForce, Wrote
<1>12. Covered(c)' = S
  <2>1. Covered(c)' = {e \in M : e.txn # c}
    BY <1>5 DEF Covered
  <2> QED BY <1>8, <1>9, <1>10, <2>1
<1>13. NetOf(M) = 0
  <2>1. CASE summed[c].net = 0
    <3>1. own = {}
      BY <1>0, <2>1, OwnEntriesAre
    <3>2. M = S
      BY <1>10, <3>1
    <3> QED BY <1>7, <2>1, <3>2
  <2>2. CASE summed[c].net # 0
    <3>1. PICK x \in own : {e \in own : e.acct = SettleOf[c].settled} = {x}
      BY <1>0, <2>2, OwnEntriesAre
    <3>2. x.acct = SettleOf[c].settled
      BY <3>1
    <3>3. x.amt = -summed[c].net /\ x.txn = c
      BY <1>0, <3>2, OwnEntriesAre
    <3>4. x \notin S /\ M = S \cup {x}
      BY <1>8, <1>10, <3>1, <3>3
    <3>5. \A e \in S \cup {x} : e.amt \in Int
      BY <1>7, <3>3
    <3> HIDE DEF S, M
    <3>6. NetOf(M) = NetOf(S) + x.amt
      BY <1>7, <3>4, <3>5, NetAdd
    <3> QED BY <1>7, <3>3, <3>6
  <2> QED BY <2>1, <2>2
<1>14. MarksAddUp(c)'
  <2>1. NetOf(marks[c])' = NetOf(M)
    BY <1>5 DEF NetOf
  <2>2. NetOf(Covered(c))' = NetOf(S) /\ Cardinality(Covered(c))' = Cardinality(S)
    BY <1>12 DEF NetOf
  <2> QED BY <1>4, <1>7, <1>13, <2>1, <2>2 DEF MarksAddUp
<1>15. SumIsFresh(c)'
  BY <1>4 DEF SumIsFresh
<1>16. marks' = [marks EXCEPT ![c] = marks'[c]] /\ answer' = [answer EXCEPT ![c] = answer'[c]]
  BY <1>0, <1>4, <1>5
<1>17. marks'[c] \in SUBSET entries'
  BY <1>4, <1>5, <1>8, <1>10
<1>18. ASSUME NEW d \in Settles \ {c}
       PROVE  marks'[c] \cap marks[d] = {}
  <2> SUFFICES ASSUME NEW e \in M, e \in marks[d]
               PROVE  FALSE
    BY <1>5
  <2>1. /\ MarksInForce(d) /\ e \in entries /\ e.acct = SettleOf[d].settled
        /\ Wrote(d) /\ SettleOf[d].settled \in Touches[d] /\ d \in Txns
    BY <1>0, SettlesAssumption DEF MarksInForce
  <2>2. e.txn # c
    BY <1>0, <1>4, <2>1 DEF HistoryInv, EntriesKnown
  <2>3. e \in S
    BY <1>9, <1>10, <2>2
  <2>4. e.acct = SettleOf[c].settled /\ e.acct \in Touches[c]
    BY <1>8, <2>3, SettlesAssumption
  <2>5. CASE stage[d] = "committed"
    BY <2>3, <2>5 DEF Unsettled, Settled
  <2>6. CASE stage[d] = "written"
    <3>1. Touches[c] \cap Touches[d] = {}
      BY <1>0, <1>4, <2>1, <2>6 DEF HistoryInv, LocksHeld
    <3> QED BY <2>1, <2>4, <3>1
  <2> QED BY <2>1, <2>5, <2>6 DEF Wrote
<1>19. \A d \in SameKey(c) : ~Wrote(d)
  BY <1>4 DEF Wrote
<1>20. /\ answer'[c] \in Settles \cup {NoAnswer, "conflict", "refused", "failed"}
       /\ answer'[c] \in Settles => stage'[answer'[c]] = "committed" /\ SettleOf[answer'[c]] = SettleOf[c]
  BY <1>0, <1>3, <1>4 DEF AnswersTrue
<1>21. CallStays(c)
  <2> HIDE DEF M, S, own
  <2> QED BY <1>11, <1>14, <1>15, <1>16, <1>17, <1>18, <1>19, <1>20 DEF CallStays, SettlementOK
<1> QED BY <1>2, <1>6, <1>21, CallKeeps

\* Postings, and whatever leaves the settlements alone.
LEMMA PostMeanwhileInv ==
    ASSUME SettlementsInv, HistoryAndSumsInv', NEW p \in Posts, NEW to, TxnStep(p, to), UNCHANGED settleVars
    PROVE  SettlementsInv'
<1>0. /\ p \notin Settles /\ UNCHANGED <<summed, marks, answer>> /\ HistoryInv /\ Settles \subseteq Txns
      /\ MarksDisjoint /\ KeyOnce /\ AnswersTrue /\ SettleTypeOK
  BY SettlesAssumption DEF settleVars, SettlementsInv, HistoryAndSumsInv
<1>1. /\ \A u \in Txns : u # p => stage'[u] = stage[u]
      /\ \A u \in Txns : stage[u] = "committed" => stage'[u] = "committed"
  BY <1>0, StagesAfter
<1>2. OthersStay(p, to)
  BY <1>0 DEF OthersStay
<1>3. \A c \in Settles : SettlementOK(c)' /\ marks'[c] \in SUBSET entries'
  BY <1>0, <1>2, OthersKeep
<1>4. SettleTypeOK'
  <2>1. marks' = [c \in Settles |-> marks'[c]]
    BY <1>0 DEF SettleTypeOK
  <2>2. marks' \in [Settles -> SUBSET entries']
    BY <1>3, <2>1
  <2> QED BY <1>0, <2>2 DEF SettleTypeOK
<1>5. MarksDisjoint' /\ AnswersTrue'
  BY <1>0, <1>1 DEF MarksDisjoint, AnswersTrue
<1>6. KeyOnce'
  <2>1. \A c \in Settles : Wrote(c)' <=> Wrote(c)
    BY <1>0, <1>1 DEF Wrote
  <2>2. \A c \in Settles : SameKey(c) \subseteq Settles
    BY DEF SameKey
  <2> QED BY <1>0, <2>1, <2>2 DEF KeyOnce
<1> QED BY <1>3, <1>4, <1>5, <1>6 DEF SettlementsInv

\* Every step of the composition keeps the invariant of the settlements.
LEMMA SettlementsNextInv == SettlementsInv /\ [Next]_vars => SettlementsInv'
<1> SUFFICES ASSUME SettlementsInv, [Next]_vars PROVE SettlementsInv'
  OBVIOUS
<1>0. HistoryAndSumsInv' /\ HistoryInv
  BY HistoryNextInv DEF SettlementsInv, HistoryAndSumsInv
<1>1. CASE SettlementsNext
  <2>1. ASSUME NEW c \in Settles, SettleStep(c) PROVE SettlementsInv'
    <3>1. CASE \E now \in Times : WriteSettlement(c, now)
      <4>1. PICK now \in Times : WriteSettlement(c, now)
        BY <3>1
      <4>2. CASE KeyTaken(c)
        BY <2>1, <4>1, <4>2, EndsInv DEF WriteSettlement
      <4> QED BY <4>1, <4>2, WriteInv
    <3> QED BY <2>1, <3>1, EndsInv, SumInv, CommitInv DEF SettleStep
  <2>2. ASSUME NEW p \in Posts, PostMeanwhile(p) PROVE SettlementsInv'
    <3>1. PICK to : TxnStep(p, to)
      BY <1>0, <2>2, PostSteps DEF PostMeanwhile
    <3> QED BY <1>0, <2>2, <3>1, PostMeanwhileInv DEF PostMeanwhile
  <2> QED BY <1>1, <2>1, <2>2 DEF SettlementsNext
<1>2. ASSUME UNCHANGED <<stage, entries, summed, marks, answer>>
      PROVE  SettlementsInv'
  <2>1. \A c \in Settles : SettlementOK(c)'
    <3> SUFFICES ASSUME NEW c \in Settles, SettlementOK(c) PROVE SettlementOK(c)'
      BY DEF SettlementsInv
    <3>1. Unsettled(c)' = Unsettled(c) /\ Covered(c)' = Covered(c) /\ marks'[c] = marks[c]
      BY <1>2 DEF Unsettled, Committed, Settled, Covered
    <3>2. /\ NetOf(Unsettled(c))' = NetOf(Unsettled(c)) /\ NetOf(Covered(c))' = NetOf(Covered(c))
          /\ NetOf(marks[c])' = NetOf(marks[c])
      BY <3>1 DEF NetOf
    <3> QED BY <1>2, <3>1, <3>2 DEF SettlementOK, SumIsFresh, MarksInForce, MarksAddUp, Wrote
  <2> QED BY <1>0, <1>2, <2>1 DEF SettlementsInv, SettleTypeOK, MarksDisjoint, KeyOnce, AnswersTrue, Wrote
<1>3. CASE StatementsNext
  <2>1. UNCHANGED settleVars
    BY <1>3 DEF StatementsNext
  <2>2. ASSUME NEW s \in Statements, StatementStep(s) PROVE SettlementsInv'
    BY <1>2, <2>1, <2>2 DEF StatementStep, historyVars, settleVars
  <2>3. ASSUME NEW p \in Posts, PostNumbered(p) PROVE SettlementsInv'
    <3>1. PICK to : TxnStep(p, to)
      BY <1>0, <2>3, PostSteps DEF PostNumbered
    <3> QED BY <1>0, <2>1, <3>1, PostMeanwhileInv
  <2> QED BY <1>3, <2>2, <2>3 DEF StatementsNext
<1>4. SettlementsNext \/ StatementsNext \/ UNCHANGED <<stage, entries, summed, marks, answer>>
  BY DEF Next, vars, historyVars, settleVars, CategoriesNext, ApiKeysNext, MonitorsNext, DetailsNext, MoneyNext
<1> QED BY <1>1, <1>2, <1>3, <1>4

\* The invariant of the settlements holds in the composition.
THEOREM SettlementsInvHolds == Spec => []SettlementsInv
<1>1. Init => SettlementsInv
  BY SettlementsInitInv
<1>2. SettlementsInv /\ [Next]_vars => SettlementsInv'
  BY SettlementsNextInv
<1> QED BY <1>1, <1>2, PTL DEF Spec

\* The entries of a settlement are in force, in no other settlement, and add up to zero
\* with its own, for any accounts, amounts, postings and calls: the locks keep what was
\* summed what is marked (settle).
THEOREM SettledNetsToZeroHolds == Spec => []SettledNetsToZero
<1>1. SettlementsInv => SettledNetsToZero
  <2> SUFFICES ASSUME SettlementsInv, NEW c \in Settles, stage[c] = "committed"
               PROVE  /\ marks[c] \subseteq {e \in Committed : e.acct = SettleOf[c].settled}
                      /\ \A d \in Settles \ {c} : stage[d] = "committed" => marks[c] \cap marks[d] = {}
                      /\ NetOf(marks[c]) = 0
                      /\ NetOf(Covered(c)) = summed[c].net /\ Cardinality(Covered(c)) = summed[c].count
    BY DEF SettledNetsToZero, Covered
  <2>1. MarksInForce(c) /\ MarksAddUp(c) /\ MarksDisjoint /\ marks[c] \in SUBSET entries
    BY DEF SettlementsInv, SettlementOK, SettleTypeOK
  <2>2. marks[c] \subseteq {e \in Committed : e.acct = SettleOf[c].settled}
    BY <2>1 DEF MarksInForce, Committed
  <2> QED BY <2>1, <2>2 DEF MarksAddUp, Wrote, MarksDisjoint
<1> QED BY <1>1, SettlementsInvHolds, PTL

\* One key settles once, and a call is answered with the settlement it asked for, for any
\* number of calls, keys and retries (createSettlement).
THEOREM KeySettlesOnceHolds == Spec => []KeySettlesOnce
<1>1. SettlementsInv => KeySettlesOnce
  BY DEF SettlementsInv, KeyOnce, AnswersTrue, KeySettlesOnce, Wrote
<1> QED BY <1>1, SettlementsInvHolds, PTL

-------------------------------------------------------------------------------
(***************************************************************************)
(* Categories: walks through the graph.                                    *)
(***************************************************************************)

\* A set of numbers up to N that is not empty has a largest member.
LEMMA LargestOf ==
    ASSUME NEW N \in Nat, NEW S \in SUBSET (1 .. N), S # {}
    PROVE  Max(S) \in S /\ \A y \in S : y <= Max(S)
<1> DEFINE T == {N - y : y \in S}
<1>1. T \in SUBSET Nat /\ T # {}
  <2>1. \A y \in S : N - y \in Nat
    OBVIOUS
  <2> QED BY <2>1
<1>2. PICK t \in T : \A z \in T : t <= z
  <2> HIDE DEF T
  <2> QED BY <1>1, LeastNatural
<1>3. PICK x \in S : t = N - x
  BY <1>2
<1>4. \A y \in S : x >= y
  <2> SUFFICES ASSUME NEW y \in S PROVE x >= y
    OBVIOUS
  <2>1. N - x <= N - y
    BY <1>2, <1>3
  <2> QED BY <2>1
<1>5. Max(S) = CHOOSE z \in S : \A y \in S : z >= y
  BY DEF Max
<1>6. Max(S) \in S /\ \A y \in S : Max(S) >= y
  BY <1>3, <1>4, <1>5
<1> QED BY <1>6

\* The values of a function repeated: the recursion that walks, from 1, and trees, from
\* 0, are defined by.
RunOf(f, S, s, g, a, N) ==
    f \in [a .. N -> S] /\ \A n \in a .. N : f[n] = IF n = a THEN s ELSE g[f[n - 1]]

\* There are such values.
LEMMA Repeats ==
    ASSUME NEW S, NEW s \in S, NEW g \in [S -> S], NEW N \in Nat, NEW a \in {0, 1}
    PROVE  \E f : RunOf(f, S, s, g, a, N)
<1> DEFINE Good(m) == \E f \in [a .. m -> S] : \A n \in a .. m : f[n] = IF n = a THEN s ELSE g[f[n - 1]]
           T == {m \in Nat : ~Good(m)}
<1> SUFFICES ASSUME T # {} PROVE FALSE
  BY DEF RunOf
<1>1. PICK m \in T : \A y \in T : m <= y
  <2>1. T \in SUBSET Nat
    OBVIOUS
  <2> HIDE DEF T
  <2> QED BY <2>1, LeastNatural
<1>2. m \in Nat /\ ~Good(m) /\ \A y \in Nat : ~Good(y) => m <= y
  BY <1>1
<1>3. Good(0)
  <2> DEFINE f == [n \in a .. 0 |-> s]
  <2>1. \A n \in a .. 0 : n = a
    OBVIOUS
  <2>2. f \in [a .. 0 -> S] /\ \A n \in a .. 0 : f[n] = IF n = a THEN s ELSE g[f[n - 1]]
    BY <2>1
  <2> HIDE DEF f
  <2> QED BY <2>2
<1>4. m # 0 /\ m - 1 \in Nat /\ Good(m - 1)
  <2> HIDE DEF Good
  <2>1. m # 0
    BY <1>2, <1>3
  <2>2. m - 1 \in Nat /\ ~(m <= m - 1)
    BY <1>2, <2>1
  <2> QED BY <1>2, <2>1, <2>2
<1>5. PICK f \in [a .. m - 1 -> S] : \A n \in a .. m - 1 : f[n] = IF n = a THEN s ELSE g[f[n - 1]]
  BY <1>4
<1> DEFINE h == [n \in a .. m |-> IF n = a THEN s ELSE g[f[n - 1]]]
<1>6. \A n \in a .. m : n # a => n - 1 \in a .. m - 1
  BY <1>2, <1>4
<1>7. h \in [a .. m -> S]
  BY <1>5, <1>6
<1>8. \A n \in a .. m - 1 : h[n] = f[n]
  BY <1>4, <1>5
<1>9. \A n \in a .. m : h[n] = IF n = a THEN s ELSE g[h[n - 1]]
  BY <1>6, <1>8
<1>10. Good(m)
  <2> HIDE DEF h
  <2> QED BY <1>7, <1>9
<1> QED BY <1>2, <1>10

GraphTypeOK == edges \subseteq Categories \X Categories /\ members \subseteq Categories \X Wallets

\* One step up, and one step down.
Parents(T) == {e[1] : e \in {d \in edges : d[2] \in T}}
Children(T) == {e[2] : e \in {d \in edges : d[1] \in T}}

LEMMA StepsAre ==
    ASSUME GraphTypeOK, NEW T
    PROVE  /\ Parents(T) \in SUBSET Categories /\ Children(T) \in SUBSET Categories
           /\ \A w : w \in Parents(T) <=> \E v \in T : <<w, v>> \in edges
           /\ \A w : w \in Children(T) <=> \E v \in T : <<v, w>> \in edges
<1>1. \A e \in edges : e = <<e[1], e[2]>> /\ e[1] \in Categories /\ e[2] \in Categories
  BY DEF GraphTypeOK
<1> QED BY <1>1 DEF Parents, Children

LEMMA UpIs ==
    ASSUME GraphTypeOK, NEW c \in Categories
    PROVE  /\ Up(c)[1] = {c}
           /\ \A n \in 1 .. MaxDepth : Up(c)[n + 1] = Parents(Up(c)[n])
<1> DEFINE D == MaxDepth + 1
           S == SUBSET Categories
           g == [T \in S |-> Parents(T)]
           Is(f) == f = [n \in 1 .. D |-> IF n = 1 THEN {c} ELSE Parents(f[n - 1])]
<1>0. MaxDepth \in Nat /\ D \in Nat /\ 1 \in 1 .. D
  BY CategoriesAssumption
<1>1. g \in [S -> S] /\ {c} \in S
  BY StepsAre
<1>2. PICK h \in [1 .. D -> S] : \A n \in 1 .. D : h[n] = IF n = 1 THEN {c} ELSE g[h[n - 1]]
  <2> HIDE DEF g, S, D
  <2>1. \E f : RunOf(f, S, {c}, g, 1, D)
    BY <1>0, <1>1, Repeats
  <2> QED BY <2>1 DEF RunOf
<1>3. Is(h)
  <2> SUFFICES ASSUME NEW n \in 1 .. D
               PROVE  h[n] = IF n = 1 THEN {c} ELSE Parents(h[n - 1])
    BY <1>2
  <2>1. n # 1 => n - 1 \in 1 .. D
    BY <1>0
  <2>2. n # 1 => g[h[n - 1]] = Parents(h[n - 1])
    BY <1>2, <2>1
  <2> HIDE DEF g
  <2> QED BY <1>2, <2>2
<1>4. Up(c) = CHOOSE u : Is(u)
  BY DEF Up, Parents
<1>5. Is(Up(c))
  <2> HIDE DEF Is
  <2> QED BY <1>3, <1>4
<1>6. \A n \in 1 .. D : Up(c)[n] = IF n = 1 THEN {c} ELSE Parents(Up(c)[n - 1])
  BY <1>5
<1>7. \A n \in 1 .. MaxDepth : n + 1 \in 1 .. D /\ n + 1 # 1 /\ (n + 1) - 1 = n
  BY <1>0
<1> QED BY <1>0, <1>6, <1>7

LEMMA DownIs ==
    ASSUME GraphTypeOK, NEW c \in Categories
    PROVE  /\ Down(c)[1] = {c}
           /\ \A n \in 1 .. MaxDepth : Down(c)[n + 1] = Children(Down(c)[n])
<1> DEFINE D == MaxDepth + 1
           S == SUBSET Categories
           g == [T \in S |-> Children(T)]
           Is(f) == f = [n \in 1 .. D |-> IF n = 1 THEN {c} ELSE Children(f[n - 1])]
<1>0. MaxDepth \in Nat /\ D \in Nat /\ 1 \in 1 .. D
  BY CategoriesAssumption
<1>1. g \in [S -> S] /\ {c} \in S
  BY StepsAre
<1>2. PICK h \in [1 .. D -> S] : \A n \in 1 .. D : h[n] = IF n = 1 THEN {c} ELSE g[h[n - 1]]
  <2> HIDE DEF g, S, D
  <2>1. \E f : RunOf(f, S, {c}, g, 1, D)
    BY <1>0, <1>1, Repeats
  <2> QED BY <2>1 DEF RunOf
<1>3. Is(h)
  <2> SUFFICES ASSUME NEW n \in 1 .. D
               PROVE  h[n] = IF n = 1 THEN {c} ELSE Children(h[n - 1])
    BY <1>2
  <2>1. n # 1 => n - 1 \in 1 .. D
    BY <1>0
  <2>2. n # 1 => g[h[n - 1]] = Children(h[n - 1])
    BY <1>2, <2>1
  <2> HIDE DEF g
  <2> QED BY <1>2, <2>2
<1>4. Down(c) = CHOOSE u : Is(u)
  BY DEF Down, Children
<1>5. Is(Down(c))
  <2> HIDE DEF Is
  <2> QED BY <1>3, <1>4
<1>6. \A n \in 1 .. D : Down(c)[n] = IF n = 1 THEN {c} ELSE Children(Down(c)[n - 1])
  BY <1>5
<1>7. \A n \in 1 .. MaxDepth : n + 1 \in 1 .. D /\ n + 1 # 1 /\ (n + 1) - 1 = n
  BY <1>0
<1> QED BY <1>0, <1>6, <1>7

\* Deepest finds the last row that is not empty.
LEMMA DeepestIs ==
    ASSUME NEW levels, levels[1] # {}
    PROVE  /\ Deepest(levels) \in 1 .. MaxDepth + 1 /\ levels[Deepest(levels)] # {}
           /\ \A n \in 1 .. MaxDepth + 1 : levels[n] # {} => n <= Deepest(levels)
<1> DEFINE S == {n \in 1 .. MaxDepth + 1 : levels[n] # {}}
<1>1. MaxDepth + 1 \in Nat /\ S \in SUBSET (1 .. MaxDepth + 1) /\ 1 \in S
  BY CategoriesAssumption
<1>2. Max(S) \in S /\ \A y \in S : y <= Max(S)
  <2> HIDE DEF S
  <2> QED BY <1>1, LargestOf
<1> QED BY <1>2 DEF Deepest

\* Levels on which every child is below its parents.
Levels(E) == {level \in [Categories -> 1 .. MaxDepth] : \A e \in E : level[e[1]] < level[e[2]]}

\* Every step up is a level up.
LEMMA UpClimbs ==
    ASSUME GraphTypeOK, NEW level \in Levels(edges), NEW c \in Categories, NEW n \in 1 .. MaxDepth + 1, NEW w \in Up(c)[n]
    PROVE  w \in Categories /\ level[w] + n <= level[c] + 1
<1> DEFINE Good(m) == \A v \in Up(c)[m] : v \in Categories /\ level[v] + m <= level[c] + 1
           T == {m \in 1 .. MaxDepth + 1 : ~Good(m)}
<1>0. /\ level \in [Categories -> 1 .. MaxDepth] /\ \A e \in edges : level[e[1]] < level[e[2]]
      /\ MaxDepth \in Nat
  BY CategoriesAssumption DEF Levels
<1> SUFFICES ASSUME T # {} PROVE FALSE
  OBVIOUS
<1>1. PICK m \in T : \A y \in T : m <= y
  <2>1. T \in SUBSET Nat
    BY <1>0
  <2> HIDE DEF T
  <2> QED BY <2>1, LeastNatural
<1>2. m \in 1 .. MaxDepth + 1 /\ ~Good(m) /\ \A y \in 1 .. MaxDepth + 1 : ~Good(y) => m <= y
  BY <1>1
<1>3. m # 1
  <2>1. Good(1)
    BY <1>0, UpIs
  <2> HIDE DEF Good
  <2> QED BY <1>2, <2>1
<1>4. m - 1 \in 1 .. MaxDepth /\ m - 1 \in 1 .. MaxDepth + 1 /\ ~(m <= m - 1) /\ (m - 1) + 1 = m
  BY <1>0, <1>2, <1>3
<1>5. Good(m - 1)
  <2> HIDE DEF Good
  <2> QED BY <1>2, <1>4
<1>6. Up(c)[m] = Parents(Up(c)[m - 1])
  BY <1>4, UpIs
<1>7. ASSUME NEW v \in Up(c)[m]
      PROVE  v \in Categories /\ level[v] + m <= level[c] + 1
  <2>0. v \in Parents(Up(c)[m - 1])
    BY <1>6, <1>7
  <2>1. PICK x \in Up(c)[m - 1] : <<v, x>> \in edges
    BY <2>0, StepsAre
  <2>2. v \in Categories /\ x \in Categories /\ level[v] < level[x]
    BY <1>0, <2>1 DEF GraphTypeOK
  <2>3. level[x] + (m - 1) <= level[c] + 1
    BY <1>5, <2>1
  <2>4. level[v] \in Int /\ level[x] \in Int /\ level[c] \in Int /\ m \in Int
    BY <1>0, <1>2, <2>2
  <2> QED BY <2>2, <2>3, <2>4
<1> QED BY <1>2, <1>7

\* What is above a parent is above its child, one step further.
LEMMA UpShifts ==
    ASSUME GraphTypeOK, NEW a \in Categories, NEW b \in Categories, <<a, b>> \in edges, NEW n \in 1 .. MaxDepth
    PROVE  Up(a)[n] \subseteq Up(b)[n + 1]
<1> DEFINE Good(m) == Up(a)[m] \subseteq Up(b)[m + 1]
           T == {m \in 1 .. MaxDepth : ~Good(m)}
<1>0. MaxDepth \in Nat
  BY CategoriesAssumption
<1> SUFFICES ASSUME T # {} PROVE FALSE
  OBVIOUS
<1>1. PICK m \in T : \A y \in T : m <= y
  <2>1. T \in SUBSET Nat
    BY <1>0
  <2> HIDE DEF T
  <2> QED BY <2>1, LeastNatural
<1>2. m \in 1 .. MaxDepth /\ ~Good(m) /\ \A y \in 1 .. MaxDepth : ~Good(y) => m <= y
  BY <1>1
<1>3. m # 1
  <2>1. 1 \in 1 .. MaxDepth /\ Up(a)[1] = {a} /\ Up(b)[1] = {b}
    BY <1>0, <1>2, UpIs
  <2>2. Up(b)[1 + 1] = Parents(Up(b)[1])
    BY <2>1, UpIs
  <2>3. a \in Up(b)[1 + 1]
    BY <2>1, <2>2, StepsAre
  <2>4. Good(1)
    BY <2>1, <2>3
  <2> HIDE DEF Good
  <2> QED BY <1>2, <2>4
<1>4. m - 1 \in 1 .. MaxDepth /\ ~(m <= m - 1) /\ (m - 1) + 1 = m
  BY <1>0, <1>2, <1>3
<1>5. Good(m - 1)
  <2> HIDE DEF Good
  <2> QED BY <1>2, <1>4
<1>6. Up(a)[m] = Parents(Up(a)[m - 1]) /\ Up(b)[m + 1] = Parents(Up(b)[m])
  BY <1>2, <1>4, UpIs
<1>7. Up(a)[m - 1] \subseteq Up(b)[m]
  BY <1>4, <1>5
<1>8. Parents(Up(a)[m - 1]) \subseteq Parents(Up(b)[m])
  BY <1>7 DEF Parents
<1> QED BY <1>2, <1>6, <1>8

\* The checks of setChild are enough: where they hold, the categories can be put on
\* levels with the new edge too.  A category goes on the level of its longest chain up,
\* or, if it is below the child, as far down as the chain through the new edge takes it.
LEMMA NestLevels ==
    ASSUME GraphTypeOK, Levels(edges) # {}, NEW u \in Categories, NEW x \in Categories,
           \A n \in 1 .. MaxDepth + 1 : u \notin Down(x)[n],
           Deepest(Up(u)) + Deepest(Down(x)) <= MaxDepth
    PROVE  Levels(edges \cup {<<u, x>>}) # {}
<1> DEFINE D == MaxDepth + 1
           Own(v) == Deepest(Up(v))
           Below(v) == {j \in 1 .. D : v \in Down(x)[j]}
           Low(v) == IF Below(v) = {} THEN 0 ELSE Own(u) + Max(Below(v))
           level == [v \in Categories |-> IF Own(v) >= Low(v) THEN Own(v) ELSE Low(v)]
<1>0. MaxDepth \in Nat /\ MaxDepth # 0 /\ D \in Nat
  BY CategoriesAssumption
<1>1. PICK old : old \in Levels(edges)
  OBVIOUS
<1>2. ASSUME NEW v \in Categories
      PROVE  /\ Own(v) \in 1 .. MaxDepth /\ Up(v)[Own(v)] # {}
             /\ \A n \in 1 .. D : Up(v)[n] # {} => n <= Own(v)
  <2>1. Up(v)[1] # {}
    BY UpIs
  <2>2. /\ Own(v) \in 1 .. D /\ Up(v)[Own(v)] # {}
        /\ \A n \in 1 .. D : Up(v)[n] # {} => n <= Own(v)
    BY <2>1, DeepestIs
  <2>3. PICK w : w \in Up(v)[Own(v)]
    BY <2>2
  <2> HIDE DEF Own
  <2>4. w \in Categories /\ old[w] + Own(v) <= old[v] + 1
    BY <1>1, <2>2, <2>3, UpClimbs
  <2>5. old[w] \in 1 .. MaxDepth /\ old[v] \in 1 .. MaxDepth
    BY <1>1, <2>4 DEF Levels
  <2>6. Own(v) <= MaxDepth
    BY <1>0, <2>2, <2>4, <2>5
  <2> QED BY <1>0, <2>2, <2>6
<1>3. /\ Deepest(Down(x)) \in 1 .. D
      /\ \A n \in 1 .. D : Down(x)[n] # {} => n <= Deepest(Down(x))
  <2>1. Down(x)[1] # {}
    BY DownIs
  <2> QED BY <2>1, DeepestIs
<1>4. ASSUME NEW v \in Categories, Below(v) # {}
      PROVE  /\ Max(Below(v)) \in Below(v) /\ Max(Below(v)) \in 1 .. D
             /\ \A j \in Below(v) : j <= Max(Below(v))
             /\ Max(Below(v)) <= Deepest(Down(x))
  <2>1. Below(v) \in SUBSET (1 .. D)
    OBVIOUS
  <2>2. Max(Below(v)) \in Below(v) /\ \A j \in Below(v) : j <= Max(Below(v))
    <3> HIDE DEF Below, D
    <3> QED BY <1>0, <1>4, <2>1, LargestOf
  <2>3. \A j \in Below(v) : j \in 1 .. D /\ j <= Deepest(Down(x))
    BY <1>3
  <2> HIDE DEF Below, D
  <2> QED BY <2>2, <2>3
<1>5. ASSUME NEW v \in Categories
      PROVE  Low(v) \in 0 .. MaxDepth
  <2>1. Own(u) \in 1 .. MaxDepth /\ Own(u) + Deepest(Down(x)) <= MaxDepth
    BY <1>2
  <2>2. CASE Below(v) = {}
    BY <1>0, <2>2
  <2>3. CASE Below(v) # {}
    <3>1. Max(Below(v)) \in 1 .. D /\ Max(Below(v)) <= Deepest(Down(x)) /\ Deepest(Down(x)) \in 1 .. D
      BY <1>3, <1>4, <2>3
    <3>2. Low(v) = Own(u) + Max(Below(v))
      BY <2>3
    <3> HIDE DEF Low, Own, Below
    <3> QED BY <1>0, <2>1, <3>1, <3>2
  <2> QED BY <2>2, <2>3
<1>6. level \in [Categories -> 1 .. MaxDepth]
  <2>1. \A v \in Categories : Own(v) \in 1 .. MaxDepth /\ Low(v) \in 0 .. MaxDepth
    BY <1>2, <1>5
  <2> HIDE DEF Own, Low
  <2>2. \A v \in Categories : (IF Own(v) >= Low(v) THEN Own(v) ELSE Low(v)) \in 1 .. MaxDepth
    BY <1>0, <2>1
  <2> QED BY <2>2
<1>7. ASSUME NEW a \in Categories, NEW b \in Categories, <<a, b>> \in edges
      PROVE  Own(a) < Own(b)
  <2>1. Own(a) \in 1 .. MaxDepth /\ Up(a)[Own(a)] # {} /\ Own(b) \in 1 .. MaxDepth
    BY <1>2
  <2>2. Up(a)[Own(a)] \subseteq Up(b)[Own(a) + 1]
    BY <1>7, <2>1, UpShifts
  <2>3. Own(a) + 1 \in 1 .. D
    BY <1>0, <2>1
  <2>4. Own(a) + 1 <= Own(b)
    BY <1>2, <2>1, <2>2, <2>3
  <2> HIDE DEF Own
  <2> QED BY <2>1, <2>4
<1>8. ASSUME NEW a \in Categories, NEW b \in Categories, <<a, b>> \in edges
      PROVE  Low(a) = 0 \/ Low(a) < Low(b)
  <2> SUFFICES ASSUME Below(a) # {} PROVE Low(a) < Low(b)
    OBVIOUS
  <2> DEFINE j == Max(Below(a))
  <2>1. Own(u) \in 1 .. MaxDepth /\ Own(u) + Deepest(Down(x)) <= MaxDepth
    BY <1>2
  <2>2. j \in 1 .. D /\ j <= Deepest(Down(x)) /\ Deepest(Down(x)) \in 1 .. D /\ a \in Down(x)[j]
    BY <1>3, <1>4
  <2>3. j \in 1 .. MaxDepth /\ j + 1 \in 1 .. D
    <3> HIDE DEF j, Own
    <3> QED BY <1>0, <2>1, <2>2
  <2>4. Down(x)[j + 1] = Children(Down(x)[j])
    <3> HIDE DEF j
    <3> QED BY <2>3, DownIs
  <2>5. b \in Down(x)[j + 1]
    <3> HIDE DEF j
    <3> QED BY <1>8, <2>2, <2>4, StepsAre
  <2>6. j + 1 \in Below(b)
    BY <2>3, <2>5
  <2>7. j + 1 <= Max(Below(b)) /\ Max(Below(b)) \in 1 .. D /\ Below(b) # {}
    BY <1>4, <2>6
  <2>8. Low(a) = Own(u) + j /\ Low(b) = Own(u) + Max(Below(b))
    BY <2>7
  <2> HIDE DEF Low, Own, Below, j
  <2> QED BY <1>0, <2>1, <2>2, <2>7, <2>8
<1>9. ASSUME NEW e \in edges \cup {<<u, x>>}
      PROVE  level[e[1]] < level[e[2]]
  <2>1. CASE e \in edges
    <3>1. PICK a \in Categories, b \in Categories : e = <<a, b>>
      BY <2>1 DEF GraphTypeOK
    <3>2. Own(a) < Own(b) /\ (Low(a) = 0 \/ Low(a) < Low(b))
      BY <1>7, <1>8, <2>1, <3>1
    <3>3. /\ Own(a) \in 1 .. MaxDepth /\ Own(b) \in 1 .. MaxDepth
          /\ Low(a) \in 0 .. MaxDepth /\ Low(b) \in 0 .. MaxDepth
      BY <1>2, <1>5
    <3>4. e[1] = a /\ e[2] = b
      BY <3>1
    <3> HIDE DEF Own, Low
    <3> QED BY <1>0, <3>2, <3>3, <3>4
  <2>2. CASE e = <<u, x>>
    <3>1. Below(u) = {} /\ Low(u) = 0
      OBVIOUS
    <3>2. 1 \in 1 .. D /\ x \in Down(x)[1]
      BY <1>0, DownIs
    <3>3. 1 \in Below(x)
      BY <3>2
    <3>4. 1 <= Max(Below(x)) /\ Max(Below(x)) \in 1 .. D /\ Low(x) = Own(u) + Max(Below(x))
      BY <1>4, <3>3
    <3>5. Own(u) \in 1 .. MaxDepth /\ Own(x) \in 1 .. MaxDepth /\ Low(x) \in 0 .. MaxDepth
      BY <1>2, <1>5
    <3>6. e[1] = u /\ e[2] = x
      BY <2>2
    <3> HIDE DEF Own, Low, Below
    <3> QED BY <1>0, <3>1, <3>4, <3>5, <3>6
  <2> QED BY <2>1, <2>2
<1> HIDE DEF level
<1> QED BY <1>6, <1>9 DEF Levels

-------------------------------------------------------------------------------
(***************************************************************************)
(* Categories: the calls that change the graph.                            *)
(***************************************************************************)

EditCall == [step : {"idle", "found", "locked", "checked"},
             op : {"none", "nest", "unnest", "join", "leave", "delete"},
             on : Categories \cup {NoCategory}, with : Categories \cup Wallets \cup {NoCategory}]

CategoriesTypeOK ==
    /\ category \in [Categories -> {"new", "live", "deleted"}]
    /\ GraphTypeOK
    /\ edit \in [Editors -> EditCall]

\* A call names a category, and a nesting names two, a membership an account.
Formed(r) ==
    r.step # "idle" => /\ r.on \in Categories
                       /\ r.op = "nest" => r.with \in Categories
                       /\ r.op = "join" => r.with \in Wallets

\* The row lock of the ledger.
LedgerHeld ==
    \A e, f \in Editors :
        e # f /\ edit[e].step \in {"locked", "checked"} /\ edit[f].step \in {"locked", "checked"}
            => LedgerOf[edit[e].on] # LedgerOf[edit[f].on]

\* Only what is live and of one kind is linked.
LinksSound ==
    /\ \A e \in edges : {e[1], e[2]} \subseteq Live /\ SameKind(e[1], e[2])
    /\ \A m \in members : m[1] \in Live /\ SameKind(m[1], m[2])

OfLedger(E, l) == {d \in E : LedgerOf[d[1]] = l}

\* What was checked holds up to the write: within the ledger that is locked, the graph
\* has its levels with the new edge too.
Ready(r) ==
    /\ r.on \in Live
    /\ r.op = "nest" => /\ r.with \in Live /\ SameKind(r.on, r.with)
                        /\ Levels(OfLedger(edges \cup {<<r.on, r.with>>}, LedgerOf[r.on])) # {}
    /\ r.op = "join" => SameKind(r.on, r.with)

CategoriesInv ==
    /\ CategoriesTypeOK
    /\ \A e \in Editors : Formed(edit[e])
    /\ LedgerHeld
    /\ LinksSound
    /\ Levels(edges) # {}
    /\ \A e \in Editors : edit[e].step = "checked" => Ready(edit[e])

\* Fewer edges have levels too.
LEMMA LevelsFewer ==
    ASSUME NEW E, NEW F, F \subseteq E, Levels(E) # {}
    PROVE  Levels(F) # {}
BY DEF Levels

LEMMA IdleIs == Idle \in EditCall /\ Idle.step = "idle" /\ Formed(Idle)
BY DEF Idle, EditCall, Formed

\* The invariant holds before there is a category.
LEMMA CategoriesInitInv == CategoriesInit => CategoriesInv
<1> SUFFICES ASSUME CategoriesInit PROVE CategoriesInv
  OBVIOUS
<1>1. CategoriesTypeOK /\ LinksSound
  BY IdleIs DEF CategoriesInit, CategoriesTypeOK, GraphTypeOK, LinksSound
<1>2. \A e \in Editors : edit[e] = Idle
  BY DEF CategoriesInit
<1>3. Levels(edges) # {}
  <2> DEFINE level == [c \in Categories |-> 1]
  <2>1. level \in [Categories -> 1 .. MaxDepth]
    BY CategoriesAssumption
  <2> HIDE DEF level
  <2> QED BY <2>1 DEF Levels, CategoriesInit
<1> QED BY <1>1, <1>2, <1>3, IdleIs DEF CategoriesInv, LedgerHeld

\* What a call may become while the graph stays as it is.
MayEdit(e, r) ==
    /\ r \in EditCall /\ Formed(r)
    /\ r.step \in {"locked", "checked"} =>
           \A f \in Editors \ {e} :
               edit[f].step \in {"locked", "checked"} => LedgerOf[edit[f].on] # LedgerOf[r.on]
    /\ r.step = "checked" => Ready(r)

LEMMA EditInv ==
    ASSUME CategoriesInv, NEW e \in Editors, NEW r, MayEdit(e, r),
           edit' = [edit EXCEPT ![e] = r], UNCHANGED <<category, edges, members>>
    PROVE  CategoriesInv'
<1>0. CategoriesTypeOK /\ edit \in [Editors -> EditCall] /\ LedgerHeld /\ LinksSound /\ Levels(edges) # {}
  BY DEF CategoriesInv, CategoriesTypeOK
<1>1. \A f \in Editors : edit'[f] = IF f = e THEN r ELSE edit[f]
  BY <1>0
<1>2. CategoriesTypeOK'
  BY <1>0 DEF MayEdit, CategoriesTypeOK, GraphTypeOK
<1>3. \A f \in Editors : Formed(edit'[f])
  BY <1>1 DEF MayEdit, CategoriesInv
<1>4. LedgerHeld'
  BY <1>0, <1>1 DEF MayEdit, LedgerHeld
<1>5. LinksSound' /\ Live' = Live
  BY <1>0 DEF LinksSound, Live
<1>6. Levels(edges)' # {}
  BY <1>0 DEF Levels
<1>7. \A q : Ready(q) => Ready(q)'
  BY <1>5 DEF Ready, Levels, OfLedger
<1>8. ASSUME NEW f \in Editors, edit'[f].step = "checked"
      PROVE  Ready(edit[f])'
  <2>1. PICK q : q = edit'[f] /\ Ready(q)
    BY <1>1, <1>8 DEF MayEdit, CategoriesInv
  <2>2. Ready(q)'
    BY <1>7, <2>1
  <2> QED BY <2>1, <2>2 DEF Ready, Levels, OfLedger
<1>9. \A f \in Editors : Formed(edit[f])'
  BY <1>3 DEF Formed
<1> QED BY <1>2, <1>4, <1>5, <1>6, <1>8, <1>9 DEF CategoriesInv

\* A call begins, or locks its ledger.
LEMMA FindInv ==
    ASSUME CategoriesInv, NEW e \in Editors, NEW r \in Requests, FindCategory(e, r)
    PROVE  CategoriesInv'
<1> DEFINE q == [step |-> "found", op |-> r.op, on |-> r.on, with |-> r.with]
<1>1. r.op \in {"nest", "unnest", "join", "leave", "delete"} /\ r.on \in Categories
  BY DEF Requests
<1>2. /\ r.with \in Categories \cup Wallets \cup {NoCategory}
      /\ (r.op = "nest" => r.with \in Categories) /\ (r.op = "join" => r.with \in Wallets)
  BY DEF Requests
<1>3. q \in EditCall /\ q.step = "found" /\ Formed(q)
  BY <1>1, <1>2 DEF EditCall, Formed
<1>4. edit' = [edit EXCEPT ![e] = q] /\ UNCHANGED <<category, edges, members>>
  BY DEF FindCategory
<1> HIDE DEF q
<1>5. MayEdit(e, q)
  BY <1>3 DEF MayEdit
<1> QED BY <1>4, <1>5, EditInv

LEMMA LockInv ==
    ASSUME CategoriesInv, NEW e \in Editors, LockLedger(e)
    PROVE  CategoriesInv'
<1> DEFINE q == [edit[e] EXCEPT !.step = "locked"]
<1>0. edit[e] \in EditCall /\ Formed(edit[e]) /\ edit[e].step = "found"
  BY DEF CategoriesInv, CategoriesTypeOK, LockLedger
<1>1. q \in EditCall /\ q.step = "locked" /\ q.op = edit[e].op /\ q.on = edit[e].on /\ q.with = edit[e].with
  BY <1>0 DEF EditCall
<1>2. edit' = [edit EXCEPT ![e] = q] /\ UNCHANGED <<category, edges, members>> /\ LedgerFree(e)
  BY DEF LockLedger
<1> HIDE DEF q
<1>3. MayEdit(e, q)
  BY <1>0, <1>1, <1>2 DEF MayEdit, Formed, LedgerFree
<1> QED BY <1>2, <1>3, EditInv

\* The checks are made under the lock.
LEMMA CheckInv ==
    ASSUME CategoriesInv, NEW e \in Editors, Check(e)
    PROVE  CategoriesInv'
<1> DEFINE r == edit[e]
           q == [r EXCEPT !.step = "checked"]
<1>0. r \in EditCall /\ Formed(r) /\ r.step = "locked" /\ GraphTypeOK /\ LedgerHeld /\ Levels(edges) # {}
  BY DEF CategoriesInv, CategoriesTypeOK, Check
<1>1. UNCHANGED <<category, edges, members>>
  BY DEF Check
<1>2. CASE ~(r.on \in Live /\ Permitted(r.op, r.on, r.with))
  <2>1. edit' = [edit EXCEPT ![e] = Idle]
    BY <1>2 DEF Check
  <2>2. MayEdit(e, Idle)
    BY IdleIs DEF MayEdit
  <2> QED BY <1>1, <2>1, <2>2, EditInv
<1>3. CASE r.on \in Live /\ Permitted(r.op, r.on, r.with)
  <2>1. edit' = [edit EXCEPT ![e] = q]
    BY <1>3 DEF Check
  <2>2. q \in EditCall /\ q.step = "checked" /\ q.op = r.op /\ q.on = r.on /\ q.with = r.with
    BY <1>0 DEF EditCall
  <2>3. \A f \in Editors \ {e} : edit[f].step \in {"locked", "checked"} => LedgerOf[edit[f].on] # LedgerOf[r.on]
    BY <1>0 DEF LedgerHeld
  <2>4. ASSUME r.op = "nest"
        PROVE  /\ r.with \in Live /\ SameKind(r.on, r.with)
               /\ Levels(OfLedger(edges \cup {<<r.on, r.with>>}, LedgerOf[r.on])) # {}
    <3>1. /\ r.with \in Live /\ SameKind(r.on, r.with)
          /\ \A n \in 1 .. MaxDepth + 1 : r.on \notin Down(r.with)[n]
          /\ Deepest(Up(r.on)) + Deepest(Down(r.with)) <= MaxDepth
      BY <1>3, <2>4 DEF Permitted
    <3>2. r.on \in Categories /\ r.with \in Categories
      BY <1>0, <2>4 DEF Formed
    <3> HIDE DEF r
    <3>3. Levels(edges \cup {<<r.on, r.with>>}) # {}
      BY <1>0, <3>1, <3>2, NestLevels
    <3>4. OfLedger(edges \cup {<<r.on, r.with>>}, LedgerOf[r.on]) \subseteq edges \cup {<<r.on, r.with>>}
      BY DEF OfLedger
    <3> QED BY <3>1, <3>3, <3>4, LevelsFewer
  <2>5. r.op = "join" => SameKind(r.on, r.with)
    BY <1>3 DEF Permitted
  <2> HIDE DEF q, r
  <2>6. Ready(q)
    BY <1>3, <2>2, <2>4, <2>5 DEF Ready
  <2>7. MayEdit(e, q)
    BY <1>0, <2>2, <2>3, <2>6 DEF MayEdit, Formed
  <2> QED BY <1>1, <2>1, <2>7, EditInv
<1> QED BY <1>2, <1>3

\* A new category is linked to nothing.
LEMMA CreateInv ==
    ASSUME CategoriesInv, NEW c \in Categories, CreateCategory(c)
    PROVE  CategoriesInv'
<1>0. /\ CategoriesTypeOK /\ category \in [Categories -> {"new", "live", "deleted"}]
      /\ category' = [category EXCEPT ![c] = "live"] /\ UNCHANGED <<edges, members, edit>>
      /\ LedgerHeld /\ LinksSound /\ Levels(edges) # {}
  BY DEF CategoriesInv, CategoriesTypeOK, CreateCategory
<1>1. CategoriesTypeOK'
  BY <1>0 DEF CategoriesTypeOK, GraphTypeOK
<1>2. Live \subseteq Live'
  BY <1>0 DEF Live
<1>3. LinksSound' /\ LedgerHeld'
  BY <1>0, <1>2 DEF LinksSound, LedgerHeld
<1>4. Levels(edges)' # {} /\ \A e \in Editors : Formed(edit[e])'
  BY <1>0 DEF Levels, CategoriesInv, Formed
<1>5. \A e \in Editors : edit[e].step = "checked" => Ready(edit[e])'
  BY <1>0, <1>2 DEF CategoriesInv, Ready, Levels, OfLedger
<1> QED BY <1>0, <1>1, <1>3, <1>4, <1>5 DEF CategoriesInv

\* A write touches one ledger, so the checks of calls on the others still hold.
LEMMA ApplyKeeps ==
    ASSUME CategoriesInv, NEW e \in Editors, edit[e].step = "checked", edit' = [edit EXCEPT ![e] = Idle],
           category' \in [Categories -> {"new", "live", "deleted"}], GraphTypeOK', LinksSound', Levels(edges') # {},
           \A c \in Live \ Live' : LedgerOf[c] = LedgerOf[edit[e].on],
           \A d \in edges' \ edges : LedgerOf[d[1]] = LedgerOf[edit[e].on]
    PROVE  CategoriesInv'
<1>0. edit \in [Editors -> EditCall] /\ LedgerHeld /\ \A f \in Editors : Formed(edit[f])
  BY DEF CategoriesInv, CategoriesTypeOK
<1>1. \A f \in Editors : edit'[f] = IF f = e THEN Idle ELSE edit[f]
  BY <1>0
<1>2. CategoriesTypeOK'
  BY <1>0, IdleIs DEF CategoriesTypeOK
<1>3. LedgerHeld' /\ \A f \in Editors : Formed(edit'[f])
  BY <1>0, <1>1, IdleIs DEF LedgerHeld
<1>4. Levels(edges)' # {} /\ \A f \in Editors : Formed(edit[f])'
  BY <1>3 DEF Levels, Formed
<1>5. ASSUME NEW f \in Editors, edit'[f].step = "checked"
      PROVE  Ready(edit[f])'
  <2>1. PICK r : r = edit[f]
    OBVIOUS
  <2>2. f # e /\ edit'[f] = r /\ r.step = "checked" /\ Ready(r) /\ Formed(r)
    BY <1>0, <1>1, <1>5, <2>1, IdleIs DEF CategoriesInv
  <2>3. LedgerOf[r.on] # LedgerOf[edit[e].on]
    BY <1>0, <2>1, <2>2 DEF LedgerHeld
  <2>4. r.on \in Live'
    BY <2>2, <2>3 DEF Ready
  <2>5. r.op = "join" => SameKind(r.on, r.with)
    BY <2>2 DEF Ready
  <2>6. ASSUME r.op = "nest"
        PROVE  /\ r.with \in Live' /\ SameKind(r.on, r.with)
               /\ Levels(OfLedger(edges' \cup {<<r.on, r.with>>}, LedgerOf[r.on])) # {}
    <3>1. /\ r.with \in Live /\ SameKind(r.on, r.with)
          /\ Levels(OfLedger(edges \cup {<<r.on, r.with>>}, LedgerOf[r.on])) # {}
      BY <2>2, <2>6 DEF Ready
    <3>2. r.with \in Live'
      BY <2>3, <3>1 DEF SameKind
    <3>3. OfLedger(edges' \cup {<<r.on, r.with>>}, LedgerOf[r.on]) \subseteq
              OfLedger(edges \cup {<<r.on, r.with>>}, LedgerOf[r.on])
      BY <2>3 DEF OfLedger
    <3> QED BY <3>1, <3>2, <3>3, LevelsFewer
  <2>7. Ready(r)'
    BY <2>4, <2>5, <2>6 DEF Ready, Levels, OfLedger
  <2> QED BY <2>2, <2>7 DEF Ready, Levels, OfLedger
<1> QED BY <1>2, <1>3, <1>4, <1>5 DEF CategoriesInv

\* The graph with the new edge: the levels of its ledger are those of the check, the
\* others stay.
LEMMA NestedLevels ==
    ASSUME GraphTypeOK, LinksSound, Levels(edges) # {}, NEW c \in Categories, NEW x \in Categories, SameKind(c, x),
           Levels(OfLedger(edges \cup {<<c, x>>}, LedgerOf[c])) # {}
    PROVE  Levels(edges \cup {<<c, x>>}) # {}
<1> DEFINE E == edges \cup {<<c, x>>}
           l == LedgerOf[c]
<1>1. PICK old \in Levels(edges), new \in Levels(OfLedger(E, l)) : TRUE
  OBVIOUS
<1> DEFINE level == [d \in Categories |-> IF LedgerOf[d] = l THEN new[d] ELSE old[d]]
<1>2. old \in [Categories -> 1 .. MaxDepth] /\ new \in [Categories -> 1 .. MaxDepth]
  BY <1>1 DEF Levels
<1>3. level \in [Categories -> 1 .. MaxDepth]
  BY <1>2
<1>4. ASSUME NEW d \in E PROVE level[d[1]] < level[d[2]]
  <2>1. d[1] \in Categories /\ d[2] \in Categories /\ LedgerOf[d[1]] = LedgerOf[d[2]]
    BY DEF GraphTypeOK, LinksSound, SameKind
  <2>2. CASE LedgerOf[d[1]] = l
    <3>1. d \in OfLedger(E, l)
      BY <2>2 DEF OfLedger
    <3> QED BY <1>1, <2>1, <2>2, <3>1 DEF Levels
  <2>3. CASE LedgerOf[d[1]] # l
    <3>1. d \in edges
      BY <2>3
    <3> QED BY <1>1, <2>1, <2>3, <3>1 DEF Levels
  <2> QED BY <2>2, <2>3
<1> HIDE DEF level
<1> QED BY <1>3, <1>4 DEF Levels

\* The write and the commit.
LEMMA ApplyInv ==
    ASSUME CategoriesInv, NEW e \in Editors, Apply(e)
    PROVE  CategoriesInv'
<1> DEFINE op == edit[e].op
           c == edit[e].on
           x == edit[e].with
<1>0. /\ edit[e].step = "checked" /\ edit[e] \in EditCall /\ Ready(edit[e]) /\ Formed(edit[e]) /\ c \in Categories
      /\ category \in [Categories -> {"new", "live", "deleted"}] /\ GraphTypeOK /\ LinksSound /\ Levels(edges) # {}
      /\ edit' = [edit EXCEPT ![e] = Idle]
  BY DEF CategoriesInv, CategoriesTypeOK, Apply, Formed
<1>1. c \in Live /\ op \in {"none", "nest", "unnest", "join", "leave", "delete"}
  BY <1>0 DEF Ready, EditCall
<1>2. CASE op = "nest"
  <2>1. edges' = edges \cup {<<c, x>>} /\ members' = members /\ category' = category
    BY <1>2 DEF Apply
  <2>2. /\ x \in Categories /\ x \in Live /\ SameKind(c, x)
        /\ Levels(OfLedger(edges \cup {<<c, x>>}, LedgerOf[c])) # {}
    BY <1>0, <1>2 DEF Ready, Formed
  <2>3. GraphTypeOK' /\ Live' = Live
    BY <1>0, <2>1, <2>2 DEF GraphTypeOK, Live
  <2> HIDE DEF c, x
  <2>4. LinksSound'
    BY <1>0, <1>1, <2>1, <2>2, <2>3 DEF LinksSound
  <2>5. Levels(edges') # {}
    BY <1>0, <2>1, <2>2, NestedLevels
  <2>6. \A d \in edges' \ edges : LedgerOf[d[1]] = LedgerOf[c]
    BY <2>1
  <2> QED BY <1>0, <2>1, <2>3, <2>4, <2>5, <2>6, ApplyKeeps DEF c
<1>3. CASE op \in {"none", "unnest", "join", "leave"}
  <2>1. /\ edges' \subseteq edges /\ category' = category
        /\ members' \subseteq members \cup {<<c, x>>}
        /\ op # "join" => members' \subseteq members
    BY <1>3 DEF Apply
  <2>2. GraphTypeOK' /\ Live' = Live
    <3>1. op = "join" => x \in Wallets
      BY <1>0 DEF Formed
    <3> HIDE DEF c, x, op
    <3>2. members' \subseteq Categories \X Wallets
      BY <1>0, <2>1, <3>1 DEF GraphTypeOK
    <3> QED BY <1>0, <2>1, <3>2 DEF GraphTypeOK, Live
  <2>3. op = "join" => SameKind(c, x)
    BY <1>0 DEF Ready
  <2> HIDE DEF c, x, op
  <2>4. LinksSound'
    <3>1. \A m \in members' : m \in members \/ (m[1] = c /\ m[2] = x /\ op = "join")
      BY <2>1
    <3> QED BY <1>0, <1>1, <2>1, <2>2, <2>3, <3>1 DEF LinksSound
  <2>5. Levels(edges') # {}
    BY <1>0, <2>1, LevelsFewer
  <2> QED BY <1>0, <2>1, <2>2, <2>4, <2>5, ApplyKeeps
<1>4. CASE op = "delete"
  <2>1. /\ edges' = {d \in edges : c \notin {d[1], d[2]}}
        /\ members' = {m \in members : m[1] # c}
        /\ category' = [category EXCEPT ![c] = "deleted"]
    BY <1>4 DEF Apply
  <2> HIDE DEF c, x, op
  <2>2. /\ category' \in [Categories -> {"new", "live", "deleted"}] /\ Live' = Live \ {c}
        /\ edges' \subseteq edges
    BY <1>0, <2>1 DEF Live
  <2>3. GraphTypeOK'
    BY <1>0, <2>1, <2>2 DEF GraphTypeOK
  <2>4. LinksSound'
    BY <1>0, <2>1, <2>2 DEF LinksSound
  <2>5. Levels(edges') # {}
    BY <1>0, <2>2, LevelsFewer
  <2>6. \A d \in Live \ Live' : LedgerOf[d] = LedgerOf[c]
    BY <2>2
  <2> QED BY <1>0, <2>2, <2>3, <2>4, <2>5, <2>6, ApplyKeeps DEF c
<1> QED BY <1>1, <1>2, <1>3, <1>4

\* Every step keeps the invariant of the categories.
LEMMA CategoriesNextInv == CategoriesInv /\ [CategoriesStep]_categoryVars => CategoriesInv'
<1> SUFFICES ASSUME CategoriesInv, [CategoriesStep]_categoryVars PROVE CategoriesInv'
  OBVIOUS
<1>1. CASE UNCHANGED categoryVars
  <2>1. UNCHANGED <<category, edges, members, edit>>
    BY <1>1 DEF categoryVars
  <2>2. CategoriesTypeOK' /\ LedgerHeld' /\ LinksSound' /\ Levels(edges)' # {} /\ \A e \in Editors : Formed(edit[e])'
    BY <2>1 DEF CategoriesInv, CategoriesTypeOK, GraphTypeOK, LedgerHeld, LinksSound, Live, Levels, Formed
  <2>3. \A e \in Editors : edit'[e].step = "checked" => Ready(edit[e])'
    BY <2>1 DEF CategoriesInv, Ready, Live, Levels, OfLedger
  <2> QED BY <2>2, <2>3 DEF CategoriesInv
<1>2. CASE \E c \in Categories : CreateCategory(c)
  BY <1>2, CreateInv
<1>3. CASE \E e \in Editors, r \in Requests : FindCategory(e, r)
  BY <1>3, FindInv
<1>4. CASE \E e \in Editors : LockLedger(e) \/ Check(e) \/ Apply(e)
  BY <1>4, LockInv, CheckInv, ApplyInv
<1> QED BY <1>1, <1>2, <1>3, <1>4 DEF CategoriesStep

\* The invariant of the categories holds in the composition.
THEOREM CategoriesInvHolds == Spec => []CategoriesInv
<1>1. Init => CategoriesInv
  BY CategoriesInitInv DEF Init
<1>2. CategoriesInv /\ [Next]_vars => CategoriesInv'
  BY CategoriesNextInv, StepOfEach
<1> QED BY <1>1, <1>2, PTL DEF Spec

\* No cycle and no chain of more than MaxDepth categories, whatever calls run at the
\* same time, for any number of categories, ledgers and calls (setChild, setMember).
THEOREM GraphIsSoundHolds == Spec => []GraphIsSound
<1>1. CategoriesInv => GraphIsSound
  BY DEF CategoriesInv, LinksSound, Levels, GraphIsSound
<1> QED BY <1>1, CategoriesInvHolds, PTL

-------------------------------------------------------------------------------
(***************************************************************************)
(* Categories: rollUp.                                                     *)
(***************************************************************************)

\* The recursion of categoryMembers.
LEMMA TreeGrows ==
    ASSUME GraphTypeOK, NEW c \in Categories
    PROVE  \E tree : /\ Tree(c) = tree[Cardinality(Categories)]
                     /\ tree[0] = {c}
                     /\ \A n \in 0 .. Cardinality(Categories) - 1 : tree[n + 1] = tree[n] \cup Children(tree[n])
<1> DEFINE N == Cardinality(Categories)
           S == SUBSET Categories
           g == [T \in S |-> T \cup Children(T)]
           Is(f) == f = [n \in 0 .. N |-> IF n = 0 THEN {c} ELSE f[n - 1] \cup Children(f[n - 1])]
           tree == CHOOSE f : Is(f)
<1>0. N \in Nat
  BY CategoriesAssumption, FS_CardinalityType
<1>1. g \in [S -> S] /\ {c} \in S
  BY StepsAre
<1>2. PICK h \in [0 .. N -> S] : \A n \in 0 .. N : h[n] = IF n = 0 THEN {c} ELSE g[h[n - 1]]
  <2> HIDE DEF g, S, N
  <2>1. \E f : RunOf(f, S, {c}, g, 0, N)
    BY <1>0, <1>1, Repeats
  <2> QED BY <2>1 DEF RunOf
<1>3. Is(h)
  <2> SUFFICES ASSUME NEW n \in 0 .. N
               PROVE  h[n] = IF n = 0 THEN {c} ELSE h[n - 1] \cup Children(h[n - 1])
    BY <1>2
  <2>1. n # 0 => n - 1 \in 0 .. N
    BY <1>0
  <2>2. n # 0 => g[h[n - 1]] = h[n - 1] \cup Children(h[n - 1])
    BY <1>2, <2>1
  <2> HIDE DEF g
  <2> QED BY <1>2, <2>2
<1>4. Tree(c) = tree[N]
  BY DEF Tree, Children
<1>5. Is(tree)
  <2> HIDE DEF Is
  <2> QED BY <1>3
<1> HIDE DEF tree
<1>6. \A n \in 0 .. N : tree[n] = IF n = 0 THEN {c} ELSE tree[n - 1] \cup Children(tree[n - 1])
  BY <1>5
<1> HIDE DEF N, Is
<1>7. tree[0] = {c}
  <2>1. 0 \in 0 .. N
    BY <1>0
  <2> QED BY <1>6, <2>1
<1>8. \A n \in 0 .. N - 1 : n + 1 \in 0 .. N /\ n + 1 # 0 /\ (n + 1) - 1 = n
  BY <1>0
<1>9. \A n \in 0 .. N - 1 : tree[n + 1] = tree[n] \cup Children(tree[n])
  BY <1>6, <1>8
<1> QED BY <1>4, <1>7, <1>9 DEF N

\* A set that holds c and, with a category, its children.
Closed(c, S) == c \in S /\ \A e \in edges : e[1] \in S => e[2] \in S

\* The tree of c is the least such set: with every round that finds a new category it
\* grows, and there are no more rounds to find one than categories.
LEMMA TreeIs ==
    ASSUME GraphTypeOK, NEW c \in Categories
    PROVE  /\ Tree(c) \in SUBSET Categories /\ Closed(c, Tree(c))
           /\ \A S \in SUBSET Categories : Closed(c, S) => Tree(c) \subseteq S
<1> DEFINE N == Cardinality(Categories)
<1>0. N \in Nat /\ IsFiniteSet(Categories)
  BY CategoriesAssumption, FS_CardinalityType
<1>1. PICK tree : /\ Tree(c) = tree[N]
                  /\ tree[0] = {c}
                  /\ \A n \in 0 .. N - 1 : tree[n + 1] = tree[n] \cup Children(tree[n])
  BY TreeGrows
<1> HIDE DEF N
<1> DEFINE Good(n) == /\ tree[n] \in SUBSET Categories /\ c \in tree[n]
                      /\ \A S \in SUBSET Categories : Closed(c, S) => tree[n] \subseteq S
                      /\ Children(tree[n]) \subseteq tree[n] \/ Cardinality(tree[n]) >= n + 1
           T == {n \in 0 .. N : ~Good(n)}
<1>2. Good(0)
  <2>1. Cardinality({c}) = 1
    BY FS_Singleton
  <2> QED BY <1>1, <2>1 DEF Closed
<1>3. ASSUME NEW n \in 0 .. N - 1, Good(n)
      PROVE  Good(n + 1)
  <2>0. n \in Nat /\ tree[n + 1] = tree[n] \cup Children(tree[n])
    BY <1>0, <1>1
  <2>1. Children(tree[n]) \in SUBSET Categories
    BY StepsAre
  <2>2. ASSUME NEW S \in SUBSET Categories, Closed(c, S)
        PROVE  Children(tree[n]) \subseteq S
    BY <1>3, <2>2 DEF Closed, Children
  <2>3. Children(tree[n + 1]) \subseteq tree[n + 1] \/ Cardinality(tree[n + 1]) >= (n + 1) + 1
    <3>1. CASE Children(tree[n]) \subseteq tree[n]
      <4>1. tree[n + 1] = tree[n]
        BY <2>0, <3>1
      <4> QED BY <3>1, <4>1
    <3>2. CASE ~(Children(tree[n]) \subseteq tree[n])
      <4>1. PICK x \in Children(tree[n]) : x \notin tree[n]
        BY <3>2
      <4>2. /\ IsFiniteSet(tree[n]) /\ IsFiniteSet(tree[n + 1]) /\ tree[n] \cup {x} \subseteq tree[n + 1]
            /\ Cardinality(tree[n]) >= n + 1
        BY <1>0, <1>3, <2>0, <2>1, <3>2, <4>1, FS_Subset
      <4>3. IsFiniteSet(tree[n] \cup {x}) /\ Cardinality(tree[n] \cup {x}) = Cardinality(tree[n]) + 1
        BY <4>1, <4>2, FS_AddElement
      <4>4. Cardinality(tree[n] \cup {x}) <= Cardinality(tree[n + 1])
        BY <4>2, FS_Subset
      <4>5. Cardinality(tree[n]) \in Nat /\ Cardinality(tree[n + 1]) \in Nat
        BY <4>2, FS_CardinalityType
      <4> QED BY <2>0, <4>2, <4>3, <4>4, <4>5
    <3> QED BY <3>1, <3>2
  <2> QED BY <1>3, <2>0, <2>1, <2>2, <2>3
<1>4. Good(N)
  <2> SUFFICES ASSUME T # {} PROVE FALSE
    BY <1>0
  <2>1. PICK m \in T : \A y \in T : m <= y
    <3>1. T \in SUBSET Nat
      BY <1>0
    <3> HIDE DEF T
    <3> QED BY <3>1, LeastNatural
  <2> HIDE DEF Good
  <2>2. m \in 0 .. N /\ ~Good(m) /\ m # 0 /\ \A y \in 0 .. N : ~Good(y) => m <= y
    BY <1>2, <2>1
  <2>3. m - 1 \in 0 .. N - 1 /\ m - 1 \in 0 .. N /\ ~(m <= m - 1) /\ (m - 1) + 1 = m
    BY <1>0, <2>2
  <2>4. Good(m - 1)
    BY <2>2, <2>3
  <2>5. Good((m - 1) + 1)
    BY <1>3, <2>3, <2>4
  <2> QED BY <2>2, <2>3, <2>5
<1>5. Children(tree[N]) \subseteq tree[N]
  <2>1. Cardinality(tree[N]) <= N /\ Cardinality(tree[N]) \in Nat
    <3>1. IsFiniteSet(tree[N]) /\ Cardinality(tree[N]) <= Cardinality(Categories)
      BY <1>0, <1>4, FS_Subset
    <3> QED BY <3>1, FS_CardinalityType DEF N
  <2>2. ~(Cardinality(tree[N]) >= N + 1)
    BY <1>0, <2>1
  <2> QED BY <1>4, <2>2
<1>6. Closed(c, tree[N])
  BY <1>4, <1>5 DEF Closed, Children
<1> QED BY <1>1, <1>4, <1>6

\* An account counts once in a category, for any number of categories and accounts: the
\* accounts whose balances are added are exactly those of the least set of categories
\* with the category that holds the children of its members (rollUp).
THEOREM RollUpCountsOnceHolds == Spec => []RollUpCountsOnce
<1>1. CategoriesInv => RollUpCountsOnce
  <2> SUFFICES ASSUME CategoriesInv, NEW c \in Live
               PROVE  LET closed == {S \in SUBSET Categories : c \in S /\ \A e \in edges : e[1] \in S => e[2] \in S}
                          counted == {a \in Wallets : \A S \in closed : \E d \in S : <<d, a>> \in members}
                      IN  RollUp(c) = MapThenSumSet(LAMBDA a : BalanceOf[a], counted)
    BY DEF RollUpCountsOnce
  <2> DEFINE closed == {S \in SUBSET Categories : c \in S /\ \A e \in edges : e[1] \in S => e[2] \in S}
             counted == {a \in Wallets : \A S \in closed : \E d \in S : <<d, a>> \in members}
             added == {m[2] : m \in {x \in members : x[1] \in Tree(c)}}
  <2>1. /\ Tree(c) \in SUBSET Categories /\ Closed(c, Tree(c))
        /\ \A S \in SUBSET Categories : Closed(c, S) => Tree(c) \subseteq S
    BY TreeIs DEF CategoriesInv, CategoriesTypeOK, Live
  <2>2. Tree(c) \in closed /\ \A S \in closed : Tree(c) \subseteq S
    BY <2>1 DEF Closed
  <2>3. added = counted
    <3>1. \A m \in members : m = <<m[1], m[2]>> /\ m[2] \in Wallets
      BY DEF CategoriesInv, CategoriesTypeOK, GraphTypeOK
    <3>2. \A a : a \in added <=> \E d \in Tree(c) : <<d, a>> \in members
      BY <3>1
    <3>3. \A a : a \in counted <=> a \in Wallets /\ \A S \in closed : \E d \in S : <<d, a>> \in members
      OBVIOUS
    <3> HIDE DEF added, counted, closed
    <3>4. ASSUME NEW a, \E d \in Tree(c) : <<d, a>> \in members
          PROVE  a \in Wallets /\ \A S \in closed : \E d \in S : <<d, a>> \in members
      BY <2>2, <3>1, <3>4
    <3>5. \A a : a \in added <=> a \in counted
      BY <2>2, <3>2, <3>3, <3>4
    <3> QED BY <3>5
  <2>4. RollUp(c) = MapThenSumSet(LAMBDA a : BalanceOf[a], added)
    BY DEF RollUp
  <2> QED BY <2>3, <2>4
<1> QED BY <1>1, CategoriesInvHolds, PTL

-------------------------------------------------------------------------------
(***************************************************************************)
(* Details: what the patches say of a row, one patch after the other.      *)
(***************************************************************************)

Metadata == [Fields -> Scalars \cup {Absent} \cup [Fields -> Scalars \cup {Absent}]]
Names == {p.name : p \in Patches} \cup {"first"}
DetailsRow == [name : Names, metadata : Metadata, version : Nat]

DetailsTypeOK ==
    /\ details \in DetailsRow
    /\ patching \in [Patchers -> [step : {"new", "locked", "done", "refused"}, patch : Patches \cup {NoPatch},
                                  read : DetailsRow, tries : Nat]]
    /\ merged \in Seq(Patches)

\* One call has the row, and what it has read is what is there.
LockedReads ==
    \A u \in Patchers : patching[u].step = "locked" =>
        /\ patching[u].patch \in Patches /\ patching[u].read = details
        /\ \A v \in Patchers : patching[v].step = "locked" => v = u

(***************************************************************************)
(* The inductive invariant.                                                *)
(***************************************************************************)
DetailsInv == DetailsTypeOK /\ LockedReads /\ NoUpdateLost

\* A set of positions has a last one, which is 0 if there is none.
LEMMA LatestIs ==
    ASSUME NEW n \in Nat, NEW S \in SUBSET (1 .. n)
    PROVE  /\ Latest(S) \in S \cup {0}
           /\ \A j \in S : j <= Latest(S)
<1> DEFINE B == {m \in Nat : \A j \in S : j <= m}
<1>1. B \in SUBSET Nat /\ n \in B
  OBVIOUS
<1>2. PICK m \in B : \A y \in B : m <= y
  <2> HIDE DEF B
  <2> QED BY <1>1, LeastNatural
<1>3. m \in S \cup {0}
  <2> SUFFICES ASSUME m # 0, m \notin S PROVE FALSE
    OBVIOUS
  <2>1. m - 1 \in Nat /\ \A j \in S : j \in Nat /\ j <= m /\ j # m
    BY <1>2
  <2>2. m - 1 \in B
    BY <2>1
  <2> QED BY <1>2, <2>1, <2>2
<1>4. \E i \in S \cup {0} : \A j \in S : j <= i
  BY <1>2, <1>3
<1> QED BY <1>4 DEF Latest

\* The latest of what is there and a position after it is that position.
LEMMA LatestAdds ==
    ASSUME NEW n \in Nat, NEW S \in SUBSET (1 .. n)
    PROVE  Latest(S \cup {n + 1}) = n + 1
<1> DEFINE T == S \cup {n + 1}
<1>1. T \in SUBSET (1 .. n + 1) /\ n + 1 \in Nat /\ n + 1 \in T
  OBVIOUS
<1>2. Latest(T) \in T \cup {0} /\ \A j \in T : j <= Latest(T)
  <2> HIDE DEF T
  <2> QED BY <1>1, LatestIs
<1> HIDE DEF T
<1>3. Latest(T) \in Nat /\ Latest(T) <= n + 1 /\ n + 1 <= Latest(T)
  <2>1. \A x \in T \cup {0} : x \in Nat /\ x <= n + 1
    BY <1>1
  <2> QED BY <1>1, <1>2, <2>1
<1>4. Latest(T) = n + 1
  BY <1>3
<1> QED BY <1>4 DEF T

LEMMA LatestOfNone == Latest({}) = 0
BY DEF Latest

\* A patch is added to those that were committed.
PatchCommits(n, p) ==
    /\ p \in Patches /\ n = Len(merged) /\ n \in Nat
    /\ merged \in Seq(Patches) /\ merged' = Append(merged, p)

\* What is said of the patches before does not change.
LEMMA OldPatches ==
    ASSUME NEW n, NEW p, PatchCommits(n, p)
    PROVE  /\ Len(merged') = n + 1 /\ merged' \in Seq(Patches)
           /\ merged'[n + 1] = p
           /\ \A j \in 1 .. n : merged'[j] = merged[j] /\ merged[j] \in Patches
BY DEF PatchCommits

\* Where Since and Parts look.
LEMMA SinceIs ==
    ASSUME NEW f \in Fields, NEW k \in Nat
    PROVE  /\ Since(f, k) \in Replaces(f, k) \cup {0} /\ Since(f, k) \in 0 .. k
           /\ \A j \in Replaces(f, k) : j <= Since(f, k)
           /\ Parts(f, k) \in SUBSET (1 .. k)
           /\ \A j \in Parts(f, k) : j > Since(f, k) /\ j \notin Replaces(f, k)
<1>1. Replaces(f, k) \in SUBSET (1 .. k)
  BY DEF Replaces
<1>2. Since(f, k) \in Replaces(f, k) \cup {0} /\ \A j \in Replaces(f, k) : j <= Since(f, k)
  BY <1>1, LatestIs DEF Since
<1>3. Since(f, k) \in 0 .. k
  BY <1>1, <1>2
<1>4. Parts(f, k) \in SUBSET (1 .. k) /\ \A j \in Parts(f, k) : j > Since(f, k)
  BY <1>3 DEF Parts, Extends
<1>5. \A j \in Parts(f, k) : j \notin Replaces(f, k)
  BY <1>1, <1>2, <1>3, <1>4
<1> QED BY <1>2, <1>3, <1>4, <1>5

\* What the first patches say does not change when another is committed.
LEMMA PrefixKept ==
    ASSUME NEW n, NEW p, PatchCommits(n, p), NEW k \in 0 .. n
    PROVE  /\ NameAfter(k)' = NameAfter(k)
           /\ \A f \in Fields : /\ Replaces(f, k)' = Replaces(f, k)
                                /\ Since(f, k)' = Since(f, k)
                                /\ Parts(f, k)' = Parts(f, k)
                                /\ MemberAfter(f, k)' = MemberAfter(f, k)
           /\ DetailsAfter(k)' = DetailsAfter(k)
<1>1. n \in Nat /\ k \in Nat /\ \A j \in 1 .. k : merged'[j] = merged[j]
  BY OldPatches DEF PatchCommits
<1>2. NameAfter(k)' = NameAfter(k)
  <2>1. PICK S : S = {j \in 1 .. k : merged[j].name # Absent}
    OBVIOUS
  <2>2. S = {j \in 1 .. k : merged'[j].name # Absent} /\ S \in SUBSET (1 .. k)
    BY <1>1, <2>1
  <2>3. Latest(S) = 0 \/ Latest(S) \in 1 .. k
    BY <1>1, <2>2, LatestIs
  <2>4. NameAfter(k) = IF Latest(S) = 0 THEN "first" ELSE merged[Latest(S)].name
    BY <2>1 DEF NameAfter
  <2>5. NameAfter(k)' = IF Latest(S) = 0 THEN "first" ELSE merged'[Latest(S)].name
    BY <2>2 DEF NameAfter
  <2> QED BY <1>1, <2>3, <2>4, <2>5
<1>3. ASSUME NEW f \in Fields
      PROVE  /\ Replaces(f, k)' = Replaces(f, k)
             /\ Since(f, k)' = Since(f, k)
             /\ Parts(f, k)' = Parts(f, k)
             /\ MemberAfter(f, k)' = MemberAfter(f, k)
  <2>1. Replaces(f, k)' = Replaces(f, k)
    BY <1>1 DEF Replaces
  <2>2. PICK i : i = Since(f, k) /\ i \in 0 .. k
    BY <1>1, SinceIs
  <2>3. Since(f, k)' = i
    BY <2>1, <2>2 DEF Since
  <2>4. Extends(f, i, k)' = Extends(f, i, k)
    <3>1. \A j \in i + 1 .. k : j \in 1 .. k
      BY <1>1, <2>2
    <3> QED BY <1>1, <3>1 DEF Extends
  <2>5. Parts(f, k) = Extends(f, i, k) /\ Parts(f, k)' = Extends(f, i, k)'
    BY <2>2, <2>3 DEF Parts
  <2>6. Parts(f, k)' = Parts(f, k)
    BY <2>4, <2>5
  <2>7. WholeAfter(f, k)' = WholeAfter(f, k)
    <3>1. i = 0 \/ merged'[i] = merged[i]
      BY <1>1, <2>2
    <3> QED BY <2>2, <2>3, <3>1 DEF WholeAfter
  <2>8. ASSUME NEW g \in Fields PROVE PartAfter(f, g, k)' = PartAfter(f, g, k)
    <3>1. PICK P \in SUBSET (1 .. k) : P = Parts(f, k)
      BY <1>1, SinceIs
    <3>2. PICK S : S = {q \in P : merged[q].metadata[f][g] # Absent}
      OBVIOUS
    <3>3. S = {q \in P : merged'[q].metadata[f][g] # Absent} /\ S \in SUBSET (1 .. k)
      BY <1>1, <3>1, <3>2
    <3>4. PICK j : j = Latest(S) /\ (j = 0 \/ merged'[j] = merged[j])
      <4>1. Latest(S) = 0 \/ Latest(S) \in 1 .. k
        BY <1>1, <3>3, LatestIs
      <4> QED BY <1>1, <4>1
    <3>5. PartAfter(f, g, k) = IF j = 0 \/ merged[j].metadata[f][g] = Null THEN Absent ELSE merged[j].metadata[f][g]
      BY <3>1, <3>2, <3>4 DEF PartAfter
    <3>6. PartAfter(f, g, k)' =
             IF j = 0 \/ merged'[j].metadata[f][g] = Null THEN Absent ELSE merged'[j].metadata[f][g]
      BY <2>6, <3>1, <3>3, <3>4 DEF PartAfter
    <3> QED BY <3>4, <3>5, <3>6
  <2>9. MemberAfter(f, k)' = MemberAfter(f, k)
    BY <2>6, <2>7, <2>8 DEF MemberAfter
  <2> QED BY <2>1, <2>2, <2>3, <2>6, <2>9
<1>4. DetailsAfter(k)' = DetailsAfter(k)
  BY <1>2, <1>3 DEF DetailsAfter
<1> QED BY <1>2, <1>3, <1>4

\* The last patch decides on the name, if it speaks of it.
LEMMA NameStep ==
    ASSUME NEW n, NEW p, PatchCommits(n, p)
    PROVE  NameAfter(n + 1)' = IF p.name = Absent THEN NameAfter(n) ELSE p.name
<1> DEFINE S == {j \in 1 .. n : merged[j].name # Absent}
           T == {j \in 1 .. n + 1 : merged'[j].name # Absent}
<1>1. n \in Nat /\ S \in SUBSET (1 .. n)
  BY DEF PatchCommits
<1>2. T = IF p.name = Absent THEN S ELSE S \cup {n + 1}
  <2>1. \A j \in 1 .. n : merged'[j] = merged[j]
    BY OldPatches
  <2>2. merged'[n + 1] = p
    BY OldPatches
  <2>3. \A j : j \in 1 .. n + 1 <=> j \in 1 .. n \/ j = n + 1
    BY <1>1
  <2> QED BY <2>1, <2>2, <2>3
<1>3. NameAfter(n) = IF Latest(S) = 0 THEN "first" ELSE merged[Latest(S)].name
  BY DEF NameAfter
<1>4. NameAfter(n + 1)' = IF Latest(T) = 0 THEN "first" ELSE merged'[Latest(T)].name
  BY DEF NameAfter
<1> HIDE DEF S, T
<1>5. CASE p.name = Absent
  <2>1. Latest(S) = 0 \/ Latest(S) \in 1 .. n
    BY <1>1, LatestIs
  <2>2. Latest(S) = 0 \/ merged'[Latest(S)] = merged[Latest(S)]
    BY <2>1, OldPatches
  <2> QED BY <1>2, <1>3, <1>4, <1>5, <2>2
<1>6. CASE p.name # Absent
  <2>1. Latest(T) = n + 1
    BY <1>1, <1>2, <1>6, LatestAdds
  <2>2. merged'[n + 1] = p /\ n + 1 # 0
    BY <1>1, OldPatches
  <2> QED BY <1>4, <1>6, <2>1, <2>2
<1> QED BY <1>5, <1>6

\* A patch replaces a member as a whole.
ReplacesMember(p, f) ==
    p.metadata # Absent /\ (p.metadata = Null \/ (p.metadata[f] # Absent /\ ~IsObject(p.metadata[f])))

\* A patch speaks of parts of a member.
ExtendsMember(p, f) == p.metadata \notin {Absent, Null} /\ IsObject(p.metadata[f])

\* Since and Parts after another patch.
LEMMA SinceStep ==
    ASSUME NEW n, NEW p, PatchCommits(n, p), NEW f \in Fields
    PROVE  /\ ReplacesMember(p, f) => Since(f, n + 1)' = n + 1 /\ Parts(f, n + 1)' = {}
           /\ ~ReplacesMember(p, f) =>
                 /\ Since(f, n + 1)' = Since(f, n)
                 /\ Parts(f, n + 1)' = IF ExtendsMember(p, f) THEN Parts(f, n) \cup {n + 1} ELSE Parts(f, n)
<1>1. n \in Nat
  BY DEF PatchCommits
<1>2. \A j : j \in 1 .. n + 1 <=> j \in 1 .. n \/ j = n + 1
  BY <1>1
<1>3. merged'[n + 1] = p /\ \A j \in 1 .. n : merged'[j] = merged[j]
  BY OldPatches
<1>4. Replaces(f, n + 1)' = IF ReplacesMember(p, f) THEN Replaces(f, n) \cup {n + 1} ELSE Replaces(f, n)
  <2>1. Replaces(f, n + 1)' = {j \in 1 .. n + 1 : ReplacesMember(merged'[j], f)}
    BY DEF Replaces, ReplacesMember
  <2>2. Replaces(f, n) = {j \in 1 .. n : ReplacesMember(merged[j], f)}
    BY DEF Replaces, ReplacesMember
  <2> QED BY <1>2, <1>3, <2>1, <2>2
<1>5. Replaces(f, n) \in SUBSET (1 .. n)
  BY DEF Replaces
<1>6. CASE ReplacesMember(p, f)
  <2>1. Since(f, n + 1)' = n + 1
    BY <1>1, <1>4, <1>5, <1>6, LatestAdds DEF Since
  <2>2. Extends(f, n + 1, n + 1)' = {}
    BY <1>1 DEF Extends
  <2> QED BY <1>6, <2>1, <2>2 DEF Parts
<1>7. CASE ~ReplacesMember(p, f)
  <2>1. PICK i : i = Since(f, n) /\ i \in 0 .. n
    BY <1>1, SinceIs
  <2>2. Since(f, n + 1)' = i
    BY <1>4, <1>7, <2>1 DEF Since
  <2>3. Parts(f, n) = Extends(f, i, n) /\ Parts(f, n + 1)' = Extends(f, i, n + 1)'
    BY <2>1, <2>2 DEF Parts
  <2>4. p.metadata \notin {Absent, Null} /\ p.metadata[f] # Absent <=> ExtendsMember(p, f)
    BY <1>7, DetailsAssumption DEF ReplacesMember, ExtendsMember, IsObject
  <2>5. Extends(f, i, n + 1)' = IF ExtendsMember(p, f) THEN Extends(f, i, n) \cup {n + 1} ELSE Extends(f, i, n)
    <3>1. \A j : j \in i + 1 .. n + 1 <=> j \in i + 1 .. n \/ j = n + 1
      BY <1>1, <2>1
    <3>2. \A j \in i + 1 .. n : merged'[j] = merged[j]
      BY <1>1, <1>3, <2>1
    <3> QED BY <1>3, <2>4, <3>1, <3>2 DEF Extends
  <2> QED BY <1>7, <2>1, <2>2, <2>3, <2>5
<1> QED BY <1>6, <1>7

\* What the patches say of a member is a value, or an object of values where some speak
\* of its parts.
LEMMA MemberIs ==
    ASSUME NEW n \in Nat, n = Len(merged), merged \in Seq(Patches), NEW f \in Fields
    PROVE  /\ WholeAfter(f, n) \in Scalars \cup {Absent}
           /\ \A g \in Fields : PartAfter(f, g, n) \in Scalars \cup {Absent}
           /\ \A j \in Parts(f, n) : j \in 1 .. n /\ merged[j].metadata[f] \in Objects
<1>1. \A j \in 1 .. n : merged[j] \in Patches
  OBVIOUS
<1>2. \A j \in 1 .. n : merged[j].metadata \in {Absent, Null} \/
         (merged[j].metadata[f] \in Scalars \cup {Absent, Null} \cup Objects)
  <2> SUFFICES ASSUME NEW j \in 1 .. n, merged[j].metadata \notin {Absent, Null}
               PROVE  merged[j].metadata[f] \in Scalars \cup {Absent, Null} \cup Objects
    OBVIOUS
  <2>1. merged[j].metadata \in {Absent, Null} \cup [Fields -> Scalars \cup {Absent, Null} \cup Objects]
    BY <1>1, DetailsAssumption
  <2>2. PICK m : m = merged[j].metadata
    OBVIOUS
  <2>3. m \in [Fields -> Scalars \cup {Absent, Null} \cup Objects]
    BY <2>1, <2>2
  <2>4. m[f] \in Scalars \cup {Absent, Null} \cup Objects
    BY <2>3
  <2> QED BY <2>2, <2>4
<1>3. /\ Since(f, n) \in Replaces(f, n) \cup {0}
      /\ Parts(f, n) \in SUBSET (1 .. n)
      /\ \A j \in Parts(f, n) : j \notin Replaces(f, n)
  BY SinceIs
<1>4. WholeAfter(f, n) \in Scalars \cup {Absent}
  <2>1. PICK i : i = Since(f, n)
    OBVIOUS
  <2>2. i = 0 \/ (i \in 1 .. n /\ merged[i].metadata # Absent /\
           (merged[i].metadata = Null \/ (merged[i].metadata[f] # Absent /\ ~IsObject(merged[i].metadata[f]))))
    BY <1>3, <2>1 DEF Replaces
  <2>3. WholeAfter(f, n) = IF i = 0 \/ merged[i].metadata = Null \/ merged[i].metadata[f] = Null THEN Absent
                           ELSE merged[i].metadata[f]
    BY <2>1 DEF WholeAfter
  <2> QED BY <1>2, <2>2, <2>3 DEF IsObject
<1>5. ASSUME NEW j \in Parts(f, n) PROVE j \in 1 .. n /\ merged[j].metadata[f] \in Objects
  <2>1. j \in 1 .. n /\ j \notin Replaces(f, n)
    BY <1>3
  <2>2. merged[j].metadata \notin {Absent, Null} /\ merged[j].metadata[f] # Absent
    BY DEF Parts, Extends
  <2>3. IsObject(merged[j].metadata[f])
    BY <2>1, <2>2 DEF Replaces
  <2> QED BY <1>2, <2>1, <2>2, <2>3 DEF IsObject
<1>6. ASSUME NEW g \in Fields PROVE PartAfter(f, g, n) \in Scalars \cup {Absent}
  <2>1. PICK S : S = {q \in Parts(f, n) : merged[q].metadata[f][g] # Absent}
    OBVIOUS
  <2>2. S \in SUBSET (1 .. n) /\ S \subseteq Parts(f, n)
    BY <1>3, <2>1
  <2>3. PICK j : j = Latest(S) /\ (j = 0 \/ j \in Parts(f, n))
    BY <2>2, LatestIs
  <2>4. PartAfter(f, g, n) = IF j = 0 \/ merged[j].metadata[f][g] = Null THEN Absent ELSE merged[j].metadata[f][g]
    BY <2>1, <2>3 DEF PartAfter
  <2>5. j = 0 \/ merged[j].metadata[f][g] \in Scalars \cup {Absent, Null}
    <3> SUFFICES ASSUME j # 0 PROVE merged[j].metadata[f][g] \in Scalars \cup {Absent, Null}
      OBVIOUS
    <3>1. PICK m : m = merged[j].metadata[f] /\ m \in Objects
      BY <1>5, <2>3
    <3>2. m[g] \in Scalars \cup {Absent, Null}
      BY <3>1 DEF Objects
    <3> QED BY <3>1, <3>2
  <2> QED BY <2>4, <2>5
<1> QED BY <1>4, <1>5, <1>6

\* A patch that speaks of parts of a member leaves the others as they were.
LEMMA PartStep ==
    ASSUME NEW n, NEW p, PatchCommits(n, p), NEW f \in Fields, NEW g \in Fields,
           ~ReplacesMember(p, f), ExtendsMember(p, f)
    PROVE  PartAfter(f, g, n + 1)' = IF p.metadata[f][g] = Null THEN Absent
                                     ELSE IF p.metadata[f][g] = Absent THEN PartAfter(f, g, n)
                                     ELSE p.metadata[f][g]
<1>1. n \in Nat /\ Absent # Null
  BY DetailsAssumption DEF PatchCommits
<1>2. merged'[n + 1] = p /\ \A j \in 1 .. n : merged'[j] = merged[j]
  BY OldPatches
<1>3. PICK P \in SUBSET (1 .. n) : P = Parts(f, n)
  BY <1>1, SinceIs
<1>4. Parts(f, n + 1)' = P \cup {n + 1}
  BY <1>3, SinceStep
<1>5. PICK S : S = {q \in P : merged[q].metadata[f][g] # Absent}
  OBVIOUS
<1>6. PICK T : T = {q \in P \cup {n + 1} : merged'[q].metadata[f][g] # Absent}
  OBVIOUS
<1>7. T = IF p.metadata[f][g] = Absent THEN S ELSE S \cup {n + 1}
  BY <1>2, <1>3, <1>5, <1>6
<1>8. S \in SUBSET (1 .. n)
  BY <1>3, <1>5
<1>9. PartAfter(f, g, n) = IF Latest(S) = 0 \/ merged[Latest(S)].metadata[f][g] = Null THEN Absent
                           ELSE merged[Latest(S)].metadata[f][g]
  BY <1>3, <1>5 DEF PartAfter
<1>10. PartAfter(f, g, n + 1)' = IF Latest(T) = 0 \/ merged'[Latest(T)].metadata[f][g] = Null THEN Absent
                                 ELSE merged'[Latest(T)].metadata[f][g]
  BY <1>4, <1>6 DEF PartAfter
<1>11. CASE p.metadata[f][g] = Absent
  <2>1. Latest(S) = 0 \/ Latest(S) \in 1 .. n
    BY <1>1, <1>8, LatestIs
  <2>2. Latest(S) = 0 \/ merged'[Latest(S)] = merged[Latest(S)]
    BY <1>2, <2>1
  <2>3. Latest(T) = Latest(S)
    BY <1>7, <1>11
  <2> QED BY <1>1, <1>9, <1>10, <1>11, <2>2, <2>3
<1>12. CASE p.metadata[f][g] # Absent
  <2>1. T = S \cup {n + 1}
    BY <1>7, <1>12
  <2>2. Latest(S \cup {n + 1}) = n + 1
    BY <1>1, <1>8, LatestAdds
  <2>3. n + 1 # 0
    BY <1>1
  <2> QED BY <1>2, <1>10, <1>12, <2>1, <2>2, <2>3
<1> QED BY <1>11, <1>12

\* What the patches say, with another one: the patch merged into what they said.
LEMMA MemberStep ==
    ASSUME NEW n, NEW p, PatchCommits(n, p), NEW f \in Fields,
           NEW m, m = [h \in Fields |-> MemberAfter(h, n)]
    PROVE  MemberAfter(f, n + 1)' = IF p.metadata = Absent THEN m[f]
                                    ELSE IF p.metadata = Null THEN NoMembers[f] ELSE MergePatch(m, p.metadata)[f]
<1>1. n \in Nat /\ n = Len(merged) /\ merged \in Seq(Patches)
  BY DEF PatchCommits
<1>2. merged'[n + 1] = p /\ n + 1 # 0 /\ \A j \in 1 .. n : merged'[j] = merged[j]
  BY <1>1, OldPatches
<1>3. m[f] = MemberAfter(f, n) /\ NoMembers[f] = Absent /\ Absent # Null
  BY DetailsAssumption DEF NoMembers
<1>4. CASE ReplacesMember(p, f)
  <2>1. Since(f, n + 1)' = n + 1 /\ Parts(f, n + 1)' = {}
    BY <1>4, SinceStep
  <2>2. MemberAfter(f, n + 1)' = IF p.metadata = Null \/ p.metadata[f] = Null THEN Absent ELSE p.metadata[f]
    BY <1>2, <2>1 DEF MemberAfter, WholeAfter
  <2>3. CASE p.metadata = Null
    BY <1>3, <2>2, <2>3
  <2>4. CASE p.metadata # Null
    <3>1. p.metadata # Absent /\ p.metadata[f] # Absent /\ ~IsObject(p.metadata[f])
      BY <1>4, <2>4 DEF ReplacesMember
    <3>2. MergePatch(m, p.metadata)[f] = IF p.metadata[f] = Null THEN Absent ELSE p.metadata[f]
      BY <3>1 DEF MergePatch, MergeMembers
    <3> QED BY <2>2, <2>4, <3>1, <3>2
  <2> QED BY <2>3, <2>4
<1>5. CASE ~ReplacesMember(p, f) /\ ~ExtendsMember(p, f)
  <2>1. Since(f, n + 1)' = Since(f, n) /\ Parts(f, n + 1)' = Parts(f, n)
    BY <1>5, SinceStep
  <2>2. Parts(f, n)' = Parts(f, n) /\ Since(f, n)' = Since(f, n) /\ MemberAfter(f, n)' = MemberAfter(f, n)
    BY <1>1, PrefixKept
  <2>3. MemberAfter(f, n + 1)' = MemberAfter(f, n)'
    BY <2>1, <2>2 DEF MemberAfter, WholeAfter, PartAfter
  <2>4. p.metadata = Absent \/ (p.metadata # Null /\ p.metadata[f] = Absent)
    BY <1>5, DetailsAssumption DEF ReplacesMember, ExtendsMember
  <2>5. p.metadata[f] = Absent => MergePatch(m, p.metadata)[f] = m[f]
    BY <1>3 DEF MergePatch, MergeMembers, IsObject
  <2> QED BY <1>3, <2>2, <2>3, <2>4, <2>5
<1>6. CASE ~ReplacesMember(p, f) /\ ExtendsMember(p, f)
  <2>1. p.metadata # Absent /\ p.metadata # Null /\ IsObject(p.metadata[f])
    BY <1>6 DEF ExtendsMember
  <2>2. Parts(f, n + 1)' = Parts(f, n) \cup {n + 1}
    BY <1>6, SinceStep
  <2>3. MemberAfter(f, n + 1)' = [g \in Fields |-> PartAfter(f, g, n + 1)']
    <3>1. Parts(f, n + 1)' # {}
      BY <2>2
    <3> QED BY <3>1 DEF MemberAfter
  <2>4. PICK t : t = IF IsObject(m[f]) THEN m[f] ELSE NoMembers
    OBVIOUS
  <2>5. \A g \in Fields : t[g] = PartAfter(f, g, n)
    <3>1. CASE Parts(f, n) = {}
      <4>1. ~IsObject(m[f])
        BY <1>1, <1>3, <3>1, MemberIs DEF MemberAfter, IsObject
      <4>2. \A g \in Fields : PartAfter(f, g, n) = Absent
        BY <3>1, LatestOfNone DEF PartAfter
      <4> QED BY <2>4, <4>1, <4>2 DEF NoMembers
    <3>2. CASE Parts(f, n) # {}
      <4>1. m[f] = [g \in Fields |-> PartAfter(f, g, n)]
        BY <1>3, <3>2 DEF MemberAfter
      <4>2. m[f] \in Objects
        BY <1>1, <4>1, MemberIs DEF Objects
      <4>3. IsObject(m[f])
        BY <4>2, DetailsAssumption
      <4> QED BY <2>4, <4>1, <4>3
    <3> QED BY <3>1, <3>2
  <2>6. MergePatch(m, p.metadata)[f] = MergeMembers(t, p.metadata[f])
    BY <2>1, <2>4 DEF MergePatch
  <2>7. \A g \in Fields : PartAfter(f, g, n + 1)' =
           IF p.metadata[f][g] = Null THEN Absent ELSE IF p.metadata[f][g] = Absent THEN t[g] ELSE p.metadata[f][g]
    BY <1>6, <2>5, PartStep
  <2>8. [g \in Fields |-> PartAfter(f, g, n + 1)'] = MergeMembers(t, p.metadata[f])
    BY <2>7 DEF MergeMembers
  <2> QED BY <2>1, <2>3, <2>6, <2>8
<1> QED BY <1>4, <1>5, <1>6

\* What the patches say with another one is what applyUpdate makes of what they said.
LEMMA DetailsStepAfter ==
    ASSUME NEW n, NEW p, PatchCommits(n, p), NEW row \in DetailsRow,
           <<row.name, row.metadata>> = DetailsAfter(n)
    PROVE  <<Updated(row, p).name, Updated(row, p).metadata>> = DetailsAfter(n + 1)'
<1>1. row.name = NameAfter(n) /\ row.metadata = [h \in Fields |-> MemberAfter(h, n)]
  BY DEF DetailsAfter
<1>2. PICK m : m = row.metadata
  OBVIOUS
<1>3. Updated(row, p).name = IF p.name = Absent THEN row.name ELSE p.name
  BY DEF Updated, DetailsRow
<1>4. Updated(row, p).metadata = IF p.metadata = Absent THEN m
                                 ELSE IF p.metadata = Null THEN NoMembers ELSE MergePatch(m, p.metadata)
  BY <1>2 DEF Updated, DetailsRow
<1>5. NameAfter(n + 1)' = Updated(row, p).name
  BY <1>1, <1>3, NameStep
<1>6. \A f \in Fields : MemberAfter(f, n + 1)' =
         IF p.metadata = Absent THEN m[f]
         ELSE IF p.metadata = Null THEN NoMembers[f] ELSE MergePatch(m, p.metadata)[f]
  BY <1>1, <1>2, MemberStep
<1>7. [f \in Fields |-> MemberAfter(f, n + 1)'] = Updated(row, p).metadata
  <2>1. CASE p.metadata = Absent
    BY <1>1, <1>2, <1>4, <1>6, <2>1
  <2>2. CASE p.metadata # Absent /\ p.metadata = Null
    <3>1. [f \in Fields |-> MemberAfter(f, n + 1)'] = NoMembers
      BY <1>6, <2>2 DEF NoMembers
    <3> QED BY <1>4, <2>2, <3>1
  <2>3. CASE p.metadata # Absent /\ p.metadata # Null
    <3>1. \A f \in Fields : MemberAfter(f, n + 1)' = MergePatch(m, p.metadata)[f]
      BY <1>6, <2>3
    <3>2. [f \in Fields |-> MemberAfter(f, n + 1)'] = MergePatch(m, p.metadata)
      BY <3>1 DEF MergePatch
    <3> QED BY <1>4, <2>3, <3>2
  <2> QED BY <2>1, <2>2, <2>3
<1> QED BY <1>5, <1>7 DEF DetailsAfter

\* The patches that changed the row, with another one.
LEMMA ChangesStep ==
    ASSUME NEW n, NEW p, PatchCommits(n, p)
    PROVE  LET Changes(k) == {i \in 1 .. k : DetailsAfter(i) # DetailsAfter(i - 1)}
           IN  /\ Cardinality(Changes(n)) \in Nat
               /\ Cardinality({i \in 1 .. n + 1 : DetailsAfter(i)' # DetailsAfter(i - 1)'}) =
                     Cardinality(Changes(n)) + (IF DetailsAfter(n + 1)' = DetailsAfter(n) THEN 0 ELSE 1)
<1> DEFINE S == {i \in 1 .. n : DetailsAfter(i) # DetailsAfter(i - 1)}
           T == {i \in 1 .. n + 1 : DetailsAfter(i)' # DetailsAfter(i - 1)'}
<1>1. n \in Nat
  BY DEF PatchCommits
<1>2. \A i \in 0 .. n : DetailsAfter(i)' = DetailsAfter(i)
  BY PrefixKept
<1>3. \A i \in 1 .. n : i \in 0 .. n /\ i - 1 \in 0 .. n
  BY <1>1
<1>4. \A i : i \in 1 .. n + 1 <=> i \in 1 .. n \/ i = n + 1
  BY <1>1
<1>5. (n + 1) - 1 = n /\ n \in 0 .. n /\ n + 1 \notin 1 .. n
  BY <1>1
<1>6. DetailsAfter((n + 1) - 1)' = DetailsAfter(n)
  BY <1>2, <1>5
<1>7. T = IF DetailsAfter(n + 1)' = DetailsAfter(n) THEN S ELSE S \cup {n + 1}
  BY <1>2, <1>3, <1>4, <1>6
<1>8. IsFiniteSet(S) /\ n + 1 \notin S
  <2>1. IsFiniteSet(1 .. n) /\ S \in SUBSET (1 .. n)
    BY <1>1, FS_Interval
  <2> QED BY <1>5, <2>1, FS_Subset
<1> HIDE DEF S, T
<1>9. Cardinality(S) \in Nat /\ Cardinality(S \cup {n + 1}) = Cardinality(S) + 1
  BY <1>8, FS_CardinalityType, FS_AddElement
<1>10. Cardinality(T) = Cardinality(S) + (IF DetailsAfter(n + 1)' = DetailsAfter(n) THEN 0 ELSE 1)
  BY <1>7, <1>9
<1> QED BY <1>9, <1>10 DEF S, T

\* applyUpdate keeps the type of the row.
LEMMA UpdatedIsRow ==
    ASSUME NEW row \in DetailsRow, NEW p \in Patches
    PROVE  /\ Updated(row, p) \in DetailsRow
           /\ Updated(row, p).version = row.version
<1> DEFINE Flat == [Fields -> Scalars \cup {Absent}]
<1>1. \A x \in Flat, y \in Objects : MergeMembers(x, y) \in Flat
  BY DEF MergeMembers, Objects
<1>2. NoMembers \in Flat /\ NoMembers \in Metadata
  BY DEF NoMembers, Metadata
<1>3. ASSUME NEW m \in Metadata, NEW q \in [Fields -> Scalars \cup {Absent, Null} \cup Objects]
      PROVE  MergePatch(m, q) \in Metadata
  <2>1. ASSUME NEW f \in Fields, IsObject(q[f])
        PROVE  MergeMembers(IF IsObject(m[f]) THEN m[f] ELSE NoMembers, q[f]) \in Flat
    <3>1. q[f] \in Objects
      BY <2>1 DEF IsObject
    <3>2. IsObject(m[f]) => m[f] \in Flat
      BY DEF Metadata, IsObject
    <3>3. (IF IsObject(m[f]) THEN m[f] ELSE NoMembers) \in Flat
      BY <1>2, <3>2
    <3> HIDE DEF Flat
    <3> QED BY <1>1, <3>1, <3>3
  <2>2. ASSUME NEW f \in Fields, ~IsObject(q[f])
        PROVE  MergeMembers(m, q)[f] \in Scalars \cup {Absent} \cup Flat
    <3>1. q[f] \in Scalars \cup {Absent, Null}
      BY <2>2 DEF IsObject
    <3>2. m[f] \in Scalars \cup {Absent} \cup Flat
      BY DEF Metadata
    <3> HIDE DEF Flat
    <3> QED BY <3>1, <3>2 DEF MergeMembers
  <2> HIDE DEF Flat
  <2>3. MergePatch(m, q) \in [Fields -> Scalars \cup {Absent} \cup Flat]
    BY <2>1, <2>2 DEF MergePatch
  <2> QED BY <2>3 DEF Metadata, Flat
<1>4. p.name \in Names
  BY DEF Names
<1>5. row.metadata \in Metadata
  BY DEF DetailsRow
<1>6. p.metadata \in {Absent, Null} \cup [Fields -> Scalars \cup {Absent, Null} \cup Objects]
  BY DetailsAssumption
<1>7. PICK m : m = IF p.metadata = Absent THEN row.metadata
                   ELSE IF p.metadata = Null THEN NoMembers ELSE MergePatch(row.metadata, p.metadata)
  OBVIOUS
<1> HIDE DEF Flat
<1>8. m \in Metadata
  BY <1>2, <1>3, <1>5, <1>6, <1>7
<1>9. Updated(row, p) = [row EXCEPT !.name = IF p.name = Absent THEN @ ELSE p.name, !.metadata = m]
  BY <1>7 DEF Updated, DetailsRow
<1> QED BY <1>4, <1>8, <1>9 DEF DetailsRow

\* Nothing is patched at first.
LEMMA DetailsInitInv == DetailsInit => DetailsInv
<1> SUFFICES ASSUME DetailsInit PROVE DetailsInv
  OBVIOUS
<1>1. NoDetails \in DetailsRow
  BY DEF NoDetails, NoMembers, DetailsRow, Names, Metadata
<1>2. DetailsTypeOK /\ LockedReads
  BY <1>1 DEF DetailsInit, DetailsTypeOK, LockedReads
<1>3. Len(merged) = 0
  BY DEF DetailsInit
<1>4. NameAfter(0) = "first"
  <2>1. {j \in 1 .. 0 : merged[j].name # Absent} = {}
    OBVIOUS
  <2> QED BY <2>1, LatestOfNone DEF NameAfter
<1>5. \A f \in Fields : MemberAfter(f, 0) = Absent
  <2> SUFFICES ASSUME NEW f \in Fields PROVE MemberAfter(f, 0) = Absent
    OBVIOUS
  <2>1. Replaces(f, 0) = {} /\ Extends(f, 0, 0) = {}
    BY DEF Replaces, Extends
  <2>2. Since(f, 0) = 0
    BY <2>1, LatestOfNone DEF Since
  <2> QED BY <2>1, <2>2 DEF MemberAfter, Parts, WholeAfter
<1>6. <<details.name, details.metadata>> = DetailsAfter(0)
  BY <1>4, <1>5 DEF DetailsInit, NoDetails, NoMembers, DetailsAfter
<1>7. details.version = Cardinality({i \in 1 .. 0 : DetailsAfter(i) # DetailsAfter(i - 1)})
  <2>1. {i \in 1 .. 0 : DetailsAfter(i) # DetailsAfter(i - 1)} = {}
    OBVIOUS
  <2> QED BY <2>1, FS_EmptySet DEF DetailsInit, NoDetails
<1> QED BY <1>2, <1>3, <1>6, <1>7 DEF DetailsInv, NoUpdateLost

\* A step that writes nothing keeps what the patches say.
LEMMA NothingWritten ==
    ASSUME NoUpdateLost, UNCHANGED <<details, merged>>
    PROVE  NoUpdateLost'
<1>1. \A k : NameAfter(k)' = NameAfter(k)
  BY DEF NameAfter
<1>2. \A f, k : Replaces(f, k)' = Replaces(f, k)
  BY DEF Replaces
<1>3. \A f, k : Since(f, k)' = Since(f, k)
  BY <1>2 DEF Since
<1>4. \A f, k : Parts(f, k)' = Parts(f, k)
  BY <1>3 DEF Parts, Extends
<1>5. \A f, g, k : PartAfter(f, g, k)' = PartAfter(f, g, k)
  BY <1>4 DEF PartAfter
<1>6. \A f, k : WholeAfter(f, k)' = WholeAfter(f, k)
  BY <1>3 DEF WholeAfter
<1>7. \A f, k : MemberAfter(f, k)' = MemberAfter(f, k)
  BY <1>4, <1>5, <1>6 DEF MemberAfter
<1>8. \A k : DetailsAfter(k)' = DetailsAfter(k)
  BY <1>1, <1>7 DEF DetailsAfter
<1> QED BY <1>8 DEF NoUpdateLost

\* The one that has the row writes what its patch makes of what is there.
LEMMA WriteDetailsInv ==
    ASSUME DetailsInv, NEW u \in Patchers, NEW step \in {"done", "new"}, WriteDetails(u, step)
    PROVE  DetailsInv'
<1>1. DetailsTypeOK /\ LockedReads /\ NoUpdateLost
  BY DEF DetailsInv
<1>2. PICK p \in Patches : p = patching[u].patch
  BY <1>1 DEF LockedReads, WriteDetails
<1>3. patching[u].read = details /\ \A v \in Patchers : patching[v].step = "locked" => v = u
  BY <1>1 DEF LockedReads, WriteDetails
<1>4. PICK next : next = Updated(details, p)
  OBVIOUS
<1>5. /\ details' = IF SameDetails(details, next) THEN details ELSE [next EXCEPT !.version = details.version + 1]
      /\ merged' = Append(merged, p)
      /\ patching' = [patching EXCEPT ![u].step = step, ![u].read = NoDetails]
  BY <1>2, <1>3, <1>4 DEF WriteDetails
<1>6. PICK n : PatchCommits(n, p)
  BY <1>1, <1>5 DEF PatchCommits, DetailsTypeOK
<1>7. details \in DetailsRow /\ next \in DetailsRow
  BY <1>1, <1>4, UpdatedIsRow DEF DetailsTypeOK
<1>8. details' \in DetailsRow
  BY <1>5, <1>7 DEF DetailsRow
<1>9. /\ details'.name = next.name /\ details'.metadata = next.metadata
      /\ details'.version = details.version + (IF SameDetails(details, next) THEN 0 ELSE 1)
  BY <1>5, <1>7 DEF SameDetails, DetailsRow
<1>10. n \in Nat /\ Len(merged) = n /\ Len(merged') = n + 1 /\ merged' \in Seq(Patches)
  BY <1>6, OldPatches DEF PatchCommits
<1>11. <<details.name, details.metadata>> = DetailsAfter(n)
  BY <1>1, <1>10 DEF NoUpdateLost
<1>12. <<next.name, next.metadata>> = DetailsAfter(n + 1)'
  BY <1>4, <1>6, <1>7, <1>11, DetailsStepAfter
<1>13. SameDetails(details, next) <=> DetailsAfter(n + 1)' = DetailsAfter(n)
  BY <1>11, <1>12 DEF SameDetails
<1>14. details.version = Cardinality({i \in 1 .. n : DetailsAfter(i) # DetailsAfter(i - 1)})
  BY <1>1, <1>10 DEF NoUpdateLost
<1>15. Cardinality({i \in 1 .. n + 1 : DetailsAfter(i)' # DetailsAfter(i - 1)'}) =
          Cardinality({i \in 1 .. n : DetailsAfter(i) # DetailsAfter(i - 1)})
             + (IF DetailsAfter(n + 1)' = DetailsAfter(n) THEN 0 ELSE 1)
  BY <1>6, ChangesStep
<1>16. NoUpdateLost'
  BY <1>9, <1>10, <1>12, <1>13, <1>14, <1>15 DEF NoUpdateLost
<1>17. NoDetails \in DetailsRow
  BY DEF NoDetails, NoMembers, DetailsRow, Names, Metadata
<1>18. patching' \in [Patchers -> [step : {"new", "locked", "done", "refused"}, patch : Patches \cup {NoPatch},
                                   read : DetailsRow, tries : Nat]]
  BY <1>1, <1>5, <1>17 DEF DetailsTypeOK
<1>19. \A v \in Patchers : patching'[v].step # "locked"
  BY <1>1, <1>3, <1>5 DEF DetailsTypeOK
<1> QED BY <1>8, <1>10, <1>16, <1>18, <1>19 DEF DetailsInv, DetailsTypeOK, LockedReads

\* The row is what the patches say after every step.
LEMMA DetailsNextInv == DetailsInv /\ [DetailsStep]_detailVars => DetailsInv'
<1> SUFFICES ASSUME DetailsInv, [DetailsStep]_detailVars PROVE DetailsInv'
  OBVIOUS
<1>1. DetailsTypeOK /\ LockedReads /\ NoUpdateLost
  BY DEF DetailsInv
<1>2. NoDetails \in DetailsRow
  BY DEF NoDetails, NoMembers, DetailsRow, Names, Metadata
<1>3. ASSUME NEW u \in Patchers, NEW p \in Patches, LockDetails(u, p) PROVE DetailsInv'
  <2>1. UNCHANGED <<details, merged>> /\ \A v \in Patchers : patching[v].step # "locked"
    BY <1>3 DEF LockDetails, DetailsFree
  <2>2. patching' = [patching EXCEPT ![u] = [step |-> "locked", patch |-> p, read |-> details,
                                             tries |-> patching[u].tries + 1]]
    BY <1>3 DEF LockDetails
  <2>3. DetailsTypeOK'
    BY <1>1, <2>1, <2>2 DEF DetailsTypeOK
  <2>4. LockedReads'
    BY <1>1, <2>1, <2>2 DEF LockedReads, DetailsTypeOK
  <2> QED BY <1>1, <2>1, <2>3, <2>4, NothingWritten DEF DetailsInv
<1>4. ASSUME NEW u \in Patchers, RefusePatch(u) \/ AbortPatch(u) PROVE DetailsInv'
  <2>1. PICK s \in {"refused", "new"} : patching' = [patching EXCEPT ![u].step = s, ![u].read = NoDetails]
    BY <1>4 DEF RefusePatch, AbortPatch
  <2>2. UNCHANGED <<details, merged>>
    BY <1>4 DEF RefusePatch, AbortPatch
  <2>3. DetailsTypeOK'
    BY <1>1, <1>2, <2>1, <2>2 DEF DetailsTypeOK
  <2>4. LockedReads'
    BY <1>1, <2>1, <2>2 DEF LockedReads, DetailsTypeOK
  <2> QED BY <1>1, <2>2, <2>3, <2>4, NothingWritten DEF DetailsInv
<1>5. CASE UNCHANGED detailVars
  <2>1. UNCHANGED <<details, merged>> /\ UNCHANGED patching
    BY <1>5 DEF detailVars
  <2>2. DetailsTypeOK' /\ LockedReads'
    BY <1>1, <2>1 DEF DetailsTypeOK, LockedReads
  <2> QED BY <1>1, <2>1, <2>2, NothingWritten DEF DetailsInv
<1> QED BY <1>3, <1>4, <1>5, WriteDetailsInv DEF DetailsStep

\* The invariant of details holds in the composition.
THEOREM DetailsInvHolds == Spec => []DetailsInv
<1>1. Init => DetailsInv
  BY DetailsInitInv DEF Init
<1>2. DetailsInv /\ [Next]_vars => DetailsInv'
  BY DetailsNextInv, StepOfEach
<1> QED BY <1>1, <1>2, PTL DEF Spec

\* The row is what the patches that were accepted say, each member by the last one that
\* speaks of it, and its version counts those that changed it, for any patches and calls
\* (updateLedger, mergePatch).
THEOREM NoUpdateLostHolds == Spec => []NoUpdateLost
<1>1. DetailsInv => NoUpdateLost
  BY DEF DetailsInv
<1> QED BY <1>1, DetailsInvHolds, PTL

-------------------------------------------------------------------------------
(***************************************************************************)
(* Batches of postings: the loop of applyRequests, and the requests posted *)
(* one at a time, are recursive functions.                                 *)
(***************************************************************************)

\* The loop of applyRequests has the values its recursion says.
LEMMA ResolvingIs ==
    ASSUME NEW g \in Groups, NEW read, Len(GroupOf[g].items) \in Nat
    PROVE  /\ Resolving(g, read)[0] = [books |-> read, first |-> [k \in ItemKeys |-> 0], answers |-> task[g].answers]
           /\ \A n \in 1 .. Len(GroupOf[g].items) :
                  Resolving(g, read)[n] =
                      IF ItemAt(g, n).valid THEN Resolve(g, read, Resolving(g, read)[n - 1], n)
                      ELSE Resolving(g, read)[n - 1]
<1> DEFINE N == Len(GroupOf[g].items)
           base == [books |-> read, first |-> [k \in ItemKeys |-> 0], answers |-> task[g].answers]
           E(m, p) == IF ItemAt(g, p).valid THEN Resolve(g, read, m, p) ELSE m
           Is(f, m) == f = [n \in 0 .. m |-> IF n = 0 THEN base ELSE E(f[n - 1], n)]
           T == {m \in 0 .. N : \E f : Is(f, m)}
<1>0. N \in Nat
  OBVIOUS
<1>1. Resolving(g, read) = CHOOSE f : Is(f, N)
  BY DEF Resolving
<1> HIDE DEF N, base, E
<1>2. 0 \in T
  <2>1. Is([n \in 0 .. 0 |-> base], 0)
    OBVIOUS
  <2> HIDE DEF Is
  <2> QED BY <1>0, <2>1
<1>3. ASSUME NEW m \in 1 .. N, m - 1 \in T PROVE m \in T
  <2>0. m - 1 \in 0 .. N /\ m \in 0 .. N
    BY <1>0
  <2>1. PICK f : Is(f, m - 1)
    BY <1>3
  <2> DEFINE h == [n \in 0 .. m |-> IF n = 0 THEN base ELSE E(f[n - 1], n)]
  <2>2. \A n \in 0 .. m : n # 0 => n - 1 \in 0 .. m - 1 /\ n - 1 \in 0 .. m
    BY <2>0
  <2>3. \A n \in 0 .. m - 1 : f[n] = IF n = 0 THEN base ELSE E(f[n - 1], n)
    BY <2>1
  <2>4. \A n \in 0 .. m : h[n] = IF n = 0 THEN base ELSE E(f[n - 1], n)
    OBVIOUS
  <2>5. \A n \in 0 .. m - 1 : h[n] = f[n]
    <3>1. 0 .. m - 1 \subseteq 0 .. m
      BY <2>0
    <3> HIDE DEF h
    <3> QED BY <2>3, <2>4, <3>1
  <2>6. \A n \in 0 .. m : n # 0 => h[n - 1] = f[n - 1]
    <3> HIDE DEF h
    <3> QED BY <2>2, <2>5
  <2>7. h = [n \in 0 .. m |-> IF n = 0 THEN base ELSE E(h[n - 1], n)]
    <3>1. h = [n \in 0 .. m |-> h[n]]
      OBVIOUS
    <3> HIDE DEF h
    <3> QED BY <2>4, <2>6, <3>1
  <2>8. \E ff : Is(ff, m)
    <3> HIDE DEF h
    <3> QED BY <2>7
  <2> QED BY <2>0, <2>8
<1>4. N \in T
  <2>1. \A n \in 0 .. N : n \in T
    <3> HIDE DEF T
    <3> QED BY <1>0, <1>2, <1>3, Climb
  <2> HIDE DEF T
  <2> QED BY <1>0, <2>1
<1>5. Is(Resolving(g, read), N)
  <2>1. \E f : Is(f, N)
    BY <1>4
  <2> HIDE DEF Is
  <2> QED BY <1>1, <2>1
<1>6. \A n \in 0 .. N : Resolving(g, read)[n] = IF n = 0 THEN base ELSE E(Resolving(g, read)[n - 1], n)
  BY <1>5
<1>7. \A n \in 1 .. N : n \in 0 .. N /\ n # 0
  BY <1>0
<1> QED BY <1>0, <1>6, <1>7 DEF N, E, base

\* So has the posting of the requests one at a time.
LEMMA PostingIs ==
    ASSUME NEW g \in Groups, NEW from, Len(GroupOf[g].items) \in Nat
    PROVE  /\ Posting(g, from)[0] = [books |-> from, answers |-> task[g].answers]
           /\ \A n \in 1 .. Len(GroupOf[g].items) :
                  Posting(g, from)[n] =
                      IF ItemAt(g, n).valid THEN PostOne(g, Posting(g, from)[n - 1], n)
                      ELSE Posting(g, from)[n - 1]
<1> DEFINE N == Len(GroupOf[g].items)
           base == [books |-> from, answers |-> task[g].answers]
           E(m, p) == IF ItemAt(g, p).valid THEN PostOne(g, m, p) ELSE m
           Is(f, m) == f = [n \in 0 .. m |-> IF n = 0 THEN base ELSE E(f[n - 1], n)]
           T == {m \in 0 .. N : \E f : Is(f, m)}
<1>0. N \in Nat
  OBVIOUS
<1>1. Posting(g, from) = CHOOSE f : Is(f, N)
  BY DEF Posting
<1> HIDE DEF N, base, E
<1>2. 0 \in T
  <2>1. Is([n \in 0 .. 0 |-> base], 0)
    OBVIOUS
  <2> HIDE DEF Is
  <2> QED BY <1>0, <2>1
<1>3. ASSUME NEW m \in 1 .. N, m - 1 \in T PROVE m \in T
  <2>0. m - 1 \in 0 .. N /\ m \in 0 .. N
    BY <1>0
  <2>1. PICK f : Is(f, m - 1)
    BY <1>3
  <2> DEFINE h == [n \in 0 .. m |-> IF n = 0 THEN base ELSE E(f[n - 1], n)]
  <2>2. \A n \in 0 .. m : n # 0 => n - 1 \in 0 .. m - 1 /\ n - 1 \in 0 .. m
    BY <2>0
  <2>3. \A n \in 0 .. m - 1 : f[n] = IF n = 0 THEN base ELSE E(f[n - 1], n)
    BY <2>1
  <2>4. \A n \in 0 .. m : h[n] = IF n = 0 THEN base ELSE E(f[n - 1], n)
    OBVIOUS
  <2>5. \A n \in 0 .. m - 1 : h[n] = f[n]
    <3>1. 0 .. m - 1 \subseteq 0 .. m
      BY <2>0
    <3> HIDE DEF h
    <3> QED BY <2>3, <2>4, <3>1
  <2>6. \A n \in 0 .. m : n # 0 => h[n - 1] = f[n - 1]
    <3> HIDE DEF h
    <3> QED BY <2>2, <2>5
  <2>7. h = [n \in 0 .. m |-> IF n = 0 THEN base ELSE E(h[n - 1], n)]
    <3>1. h = [n \in 0 .. m |-> h[n]]
      OBVIOUS
    <3> HIDE DEF h
    <3> QED BY <2>4, <2>6, <3>1
  <2>8. \E ff : Is(ff, m)
    <3> HIDE DEF h
    <3> QED BY <2>7
  <2> QED BY <2>0, <2>8
<1>4. N \in T
  <2>1. \A n \in 0 .. N : n \in T
    <3> HIDE DEF T
    <3> QED BY <1>0, <1>2, <1>3, Climb
  <2> HIDE DEF T
  <2> QED BY <1>0, <2>1
<1>5. Is(Posting(g, from), N)
  <2>1. \E f : Is(f, N)
    BY <1>4
  <2> HIDE DEF Is
  <2> QED BY <1>1, <2>1
<1>6. \A n \in 0 .. N : Posting(g, from)[n] = IF n = 0 THEN base ELSE E(Posting(g, from)[n - 1], n)
  BY <1>5
<1>7. \A n \in 1 .. N : n \in 0 .. N /\ n # 0
  BY <1>0
<1> QED BY <1>0, <1>6, <1>7 DEF N, E, base

-------------------------------------------------------------------------------
(***************************************************************************)
(* Batches: requests posted one at a time.                                 *)
(***************************************************************************)

\* What the rows of the database can hold.
Books ==
    [balance : [Purses -> Int], version : [Purses -> Nat],
     txn : [ItemKeys -> TxnType \cup {NoTxn}], owner : [Externals -> ItemKeys \cup {NoItemKey}]]

\* The requests of a batch are requests.
LEMMA PlacesAre ==
    ASSUME NEW g \in Groups
    PROVE  /\ Len(GroupOf[g].items) \in Nat /\ Places(g) = 1 .. Len(GroupOf[g].items)
           /\ Sent(g) \subseteq Places(g)
           /\ \A p \in Places(g) : IsItem(ItemAt(g, p)) /\ ItemAt(g, p).key \in ItemKeys
           /\ \A p \in Sent(g) : ItemAt(g, p).valid
<1>1. GroupOf[g].items \in Seq(Items)
  BY BatchAssumption
<1>2. Len(GroupOf[g].items) \in Nat /\ Places(g) = 1 .. Len(GroupOf[g].items)
  BY <1>1 DEF Places
<1>3. \A p \in Places(g) : GroupOf[g].items[p] \in Items
  BY <1>1 DEF Places
<1>4. \A p \in Places(g) : IsItem(ItemAt(g, p))
  BY <1>3, BatchAssumption DEF ItemAt
<1>5. \A p \in Places(g) : ItemAt(g, p).key \in ItemKeys
  BY <1>4 DEF IsItem
<1> QED BY <1>2, <1>4, <1>5 DEF Sent

\* The accounts of a batch are those of its valid requests.
LEMMA LockedAre ==
    ASSUME NEW g \in Groups
    PROVE  /\ LockedBy(g) \subseteq Purses
           /\ \A p \in Sent(g) : DOMAIN ItemAt(g, p).moves \subseteq LockedBy(g)
           /\ \A a \in LockedBy(g) : \E p \in Sent(g) : a \in DOMAIN ItemAt(g, p).moves
<1>1. \A p \in Sent(g) : DOMAIN ItemAt(g, p).moves \subseteq Purses
  BY PlacesAre DEF IsItem
<1> QED BY <1>1 DEF LockedBy

\* What a request can be refused for, under a key that is new.
Refusals == {"external_id_exists", "refused", "lock_failed", "insufficient_funds"}
\* The verdicts of a request that makes a transaction.
Makes == {"posted", "archived"}

\* The lock_version compared with is that of the books in memory, whatever was read first.
LEMMA JudgeIs ==
    ASSUME NEW read, NEW b, NEW it
    PROVE  /\ Judge(read, b, it) \in Refusals \cup Makes
           /\ Judge(read, b, it) = Judge(b, b, it)
           /\ ~ExternalFree(b, it) => Judge(read, b, it) = "external_id_exists"
<1>1. LocksHold(read, b, it) = LocksHold(b, b, it)
  BY DEF LocksHold
<1>2. Judge(read, b, it) = Judge(b, b, it)
  BY <1>1 DEF Judge
<1>3. ~ExternalFree(b, it) => Judge(read, b, it) = "external_id_exists"
  BY DEF Judge
<1>4. Judge(read, b, it) \in Refusals \cup Makes
  BY DEF Judge, Refusals, Makes
<1> QED BY <1>2, <1>3, <1>4

\* A repetition is replayed if it has the body of the first request.
LEMMA RepeatedIs ==
    ASSUME NEW txn, NEW it
    PROVE  /\ Repeated(txn, it) \in {"replayed", "conflict"}
           /\ Repeated(txn, it) = "replayed" <=> txn.body = it.body
BY DEF Repeated

\* What a transaction changes in the books: its accounts, its key and its external id.
LEMMA RecordedIs ==
    ASSUME NEW g \in Groups, NEW p \in Places(g), NEW b \in Books, NEW v \in Makes
    PROVE  LET it == ItemAt(g, p)
               r  == Recorded(b, it, v)
           IN  /\ r \in Books
               /\ r.txn = [b.txn EXCEPT ![it.key] = [body |-> it.body, status |-> v]]
               /\ r.owner = IF it.ext = NoExternal THEN b.owner ELSE [b.owner EXCEPT ![it.ext] = it.key]
               /\ \A a \in Purses \ DOMAIN it.moves : r.balance[a] = b.balance[a] /\ r.version[a] = b.version[a]
<1> DEFINE it == ItemAt(g, p)
           r == Recorded(b, it, v)
<1>1. IsItem(it)
  BY PlacesAre
<1>2. /\ it.moves \in [DOMAIN it.moves -> Int] /\ DOMAIN it.moves \subseteq Purses
      /\ it.key \in ItemKeys /\ it.body \in STRING /\ it.ext \in Externals \cup {NoExternal}
  BY <1>1 DEF IsItem
<1>3. b.balance \in [Purses -> Int] /\ b.version \in [Purses -> Nat]
      /\ b.txn \in [ItemKeys -> TxnType \cup {NoTxn}] /\ b.owner \in [Externals -> ItemKeys \cup {NoItemKey}]
  BY DEF Books
<1> HIDE DEF it
<1> DEFINE moved == IF v = "posted" THEN DOMAIN it.moves ELSE {}
<1>4. moved \subseteq DOMAIN it.moves
  OBVIOUS
<1>5. r = [balance |-> [a \in Purses |-> IF a \in moved THEN b.balance[a] + it.moves[a] ELSE b.balance[a]],
           version |-> [a \in Purses |-> IF a \in moved THEN b.version[a] + 1 ELSE b.version[a]],
           txn     |-> [b.txn EXCEPT ![it.key] = [body |-> it.body, status |-> v]],
           owner   |-> IF it.ext = NoExternal THEN b.owner ELSE [b.owner EXCEPT ![it.ext] = it.key]]
  BY DEF Recorded
<1> HIDE DEF moved, r
<1>6. r.balance \in [Purses -> Int] /\ r.version \in [Purses -> Nat]
  BY <1>2, <1>3, <1>4, <1>5
<1>7. [body |-> it.body, status |-> v] \in TxnType
  BY <1>2 DEF TxnType, Makes
<1>8. r.txn \in [ItemKeys -> TxnType \cup {NoTxn}]
  BY <1>2, <1>3, <1>5, <1>7
<1>9. r.owner \in [Externals -> ItemKeys \cup {NoItemKey}]
  BY <1>2, <1>3, <1>5
<1>10. r \in Books
  BY <1>5, <1>6, <1>8, <1>9 DEF Books
<1>11. \A a \in Purses \ DOMAIN it.moves : r.balance[a] = b.balance[a] /\ r.version[a] = b.version[a]
  BY <1>4, <1>5
<1> QED BY <1>5, <1>10, <1>11 DEF it, r

\* All that a request can be answered, and no answer.
Verdicts == Refusals \cup Succeeded \cup {"conflict", "none", "invalid", "canceled", "failed", "aborted"}

\* Where the posting of requests is, one at a time.
Progress(g) == [books : Books, answers : [Places(g) -> Verdicts]]

\* What the first n requests of g, posted one at a time from the books given, have left.
Traced(g, from, s, n) ==
    /\ s \in Progress(g)
    /\ \A q \in Sent(g) : q <= n =>
           s.answers[q] \in IF s.books.txn[ItemAt(g, q).key] = NoTxn THEN Refusals ELSE Succeeded \cup {"conflict"}
    /\ \A q \in Sent(g) : q <= n /\ s.answers[q] \in Makes =>
           LET it == ItemAt(g, q)
           IN  /\ from.txn[it.key] = NoTxn
               /\ s.books.txn[it.key] = [body |-> it.body, status |-> s.answers[q]]
               /\ it.ext # NoExternal => s.books.owner[it.ext] = it.key
    /\ \A k \in ItemKeys :
           \/ s.books.txn[k] = from.txn[k]
           \/ \E q \in Sent(g) : q <= n /\ s.answers[q] \in Makes /\ ItemAt(g, q).key = k
    /\ \A x \in Externals :
           \/ s.books.owner[x] = from.owner[x]
           \/ \E q \in Sent(g) : q <= n /\ s.answers[q] \in Makes /\ ItemAt(g, q).ext = x
    /\ \A a \in Purses \ LockedBy(g) :
           s.books.balance[a] = from.balance[a] /\ s.books.version[a] = from.version[a]

\* A repetition of a key that has no transaction.
Earlier(g, n) == {q \in Sent(g) : q < n /\ ItemAt(g, q).key = ItemAt(g, n).key}

\* The least of a set of places.
LEMMA LeastOf ==
    ASSUME NEW S \in SUBSET Nat, S # {}
    PROVE  Min(S) \in S /\ \A y \in S : Min(S) <= y
<1>1. PICK x \in S : \A y \in S : x <= y
  BY LeastNatural
<1>2. Min(S) = CHOOSE z \in S : \A y \in S : z <= y
  BY DEF Min
<1> QED BY <1>1, <1>2

\* The three ways of a request: what there is after it, s before.
Way(g, s, n, t) ==
    LET it == ItemAt(g, n)
        v  == t.answers[n]
    IN  /\ t.answers = [s.answers EXCEPT ![n] = v]
        /\ t.books = IF v \in Makes THEN Recorded(s.books, it, v) ELSE s.books
        /\ s.books.txn[it.key] # NoTxn => v = Repeated(s.books.txn[it.key], it)
        /\ s.books.txn[it.key] = NoTxn /\ Earlier(g, n) # {} => v = s.answers[Min(Earlier(g, n))] /\ v \in Refusals
        /\ s.books.txn[it.key] = NoTxn /\ Earlier(g, n) = {} => v = Judge(s.books, s.books, it)

\* RefusedBefore is all the requests of the key, or none: a key without a transaction has been
\* refused to each of them.
LEMMA OneIs ==
    ASSUME NEW g \in Groups, NEW from, NEW n \in Sent(g), NEW s, Traced(g, from, s, n - 1)
    PROVE  Way(g, s, n, PostOne(g, s, n))
<1> DEFINE it == ItemAt(g, n)
           before == RefusedBefore(g, s.answers, n)
           verdict == IF before # {} THEN s.answers[Min(before)]
                      ELSE IF s.books.txn[it.key] # NoTxn THEN Repeated(s.books.txn[it.key], it)
                      ELSE Judge(s.books, s.books, it)
           v == PostOne(g, s, n).answers[n]
<1>0. n \in Nat /\ Sent(g) \subseteq Nat /\ n \in Places(g) /\ s.answers \in [Places(g) -> Verdicts]
  BY PlacesAre DEF Traced, Progress
<1>1. PostOne(g, s, n) =
          [books   |-> IF verdict \in {"posted", "archived"} THEN Recorded(s.books, it, verdict) ELSE s.books,
           answers |-> [s.answers EXCEPT ![n] = verdict]]
  BY DEF PostOne
<1>2. \A q \in Earlier(g, n) :
          s.answers[q] \in IF s.books.txn[it.key] = NoTxn THEN Refusals ELSE Succeeded \cup {"conflict"}
  <2>1. \A q \in Sent(g) : q < n => q <= n - 1
    BY <1>0
  <2> QED BY <2>1 DEF Traced, Earlier
<1>3. before = {q \in Earlier(g, n) : s.answers[q] \notin Succeeded \cup {"conflict"}}
  BY DEF RefusedBefore, Earlier
<1>4. s.books.txn[it.key] # NoTxn => before = {}
  BY <1>2, <1>3
<1>5. s.books.txn[it.key] = NoTxn => before = Earlier(g, n)
  BY <1>2, <1>3 DEF Refusals, Succeeded
<1> HIDE DEF before
<1>6. v = verdict
  <2> HIDE DEF verdict
  <2> QED BY <1>0, <1>1
<1>7. s.books.txn[it.key] = NoTxn /\ Earlier(g, n) # {} => v = s.answers[Min(Earlier(g, n))] /\ v \in Refusals
  <2>1. Earlier(g, n) \in SUBSET Nat
    BY <1>0 DEF Earlier
  <2>2. Earlier(g, n) # {} => Min(Earlier(g, n)) \in Earlier(g, n)
    BY <2>1, LeastOf
  <2> QED BY <1>2, <1>5, <1>6, <2>2
<1>8. s.books.txn[it.key] # NoTxn => v = Repeated(s.books.txn[it.key], it)
  BY <1>4, <1>6
<1>9. s.books.txn[it.key] = NoTxn /\ Earlier(g, n) = {} => v = Judge(s.books, s.books, it)
  BY <1>5, <1>6
<1>10. /\ PostOne(g, s, n).answers = [s.answers EXCEPT ![n] = v]
       /\ PostOne(g, s, n).books = IF v \in Makes THEN Recorded(s.books, it, v) ELSE s.books
  <2> HIDE DEF verdict, v
  <2> QED BY <1>1, <1>6 DEF Makes
<1> QED BY <1>7, <1>8, <1>9, <1>10 DEF it, v, Way

\* One more request.
LEMMA TracedStep ==
    ASSUME NEW g \in Groups, NEW from \in Books, NEW n \in Sent(g), NEW s, Traced(g, from, s, n - 1)
    PROVE  Traced(g, from, PostOne(g, s, n), n)
<1> DEFINE it == ItemAt(g, n)
           k == it.key
           t == PostOne(g, s, n)
           v == t.answers[n]
           b == s.books
           c == t.books
<1>0. /\ n \in Nat /\ Sent(g) \subseteq Nat /\ n \in Places(g) /\ Sent(g) \subseteq Places(g)
      /\ s.answers \in [Places(g) -> Verdicts] /\ b \in Books /\ k \in ItemKeys
      /\ it.body \in STRING /\ it.ext \in Externals \cup {NoExternal}
      /\ \A q \in Sent(g) : ItemAt(g, q).key \in ItemKeys
  BY PlacesAre DEF Traced, Progress, IsItem
<1>1. /\ t.answers = [s.answers EXCEPT ![n] = v]
      /\ c = IF v \in Makes THEN Recorded(b, it, v) ELSE b
      /\ b.txn[k] # NoTxn => v = Repeated(b.txn[k], it)
      /\ b.txn[k] = NoTxn /\ Earlier(g, n) # {} => v \in Refusals
      /\ b.txn[k] = NoTxn /\ Earlier(g, n) = {} => v = Judge(b, b, it)
  <2>1. Way(g, s, n, t)
    BY OneIs
  <2> HIDE DEF t
  <2> QED BY <2>1 DEF Way
<1>2. t = [books |-> c, answers |-> t.answers]
  BY DEF PostOne
<1>3. \A q \in Sent(g) : q # n => t.answers[q] = s.answers[q]
  BY <1>0, <1>1
<1>4. \A q \in Sent(g) : q <= n => q = n \/ q <= n - 1
  BY <1>0
<1>5. /\ Repeated(b.txn[k], it) \in {"replayed", "conflict"}
      /\ Judge(b, b, it) \in Refusals \cup Makes
      /\ Judge(b, b, it) \in Makes => ExternalFree(b, it)
  BY RepeatedIs, JudgeIs DEF Refusals, Makes
<1>6. /\ v \in Verdicts
      /\ v \in Makes => b.txn[k] = NoTxn /\ Earlier(g, n) = {} /\ ExternalFree(b, it)
      /\ b.txn[k] = NoTxn /\ v \notin Makes => v \in Refusals
      /\ b.txn[k] # NoTxn => v \in Succeeded \cup {"conflict"}
  <2> HIDE DEF v, b, k, it
  <2>1. v \in Makes => b.txn[k] = NoTxn /\ Earlier(g, n) = {}
    BY <1>1, <1>5 DEF Refusals, Makes
  <2>2. v \in Makes => ExternalFree(b, it)
    BY <1>1, <1>5, <2>1
  <2>3. b.txn[k] # NoTxn => v = "replayed" \/ v = "conflict"
    BY <1>1, <1>5
  <2>4. b.txn[k] = NoTxn => v \in Refusals \cup Makes
    BY <1>1, <1>5
  <2>5. b.txn[k] # NoTxn => v \in Succeeded \cup {"conflict"}
    BY <2>3 DEF Succeeded
  <2>6. v \in Verdicts
    BY <2>3, <2>4 DEF Verdicts, Refusals, Makes, Succeeded
  <2> QED BY <2>1, <2>2, <2>4, <2>5, <2>6
<1>7. b.txn \in [ItemKeys -> TxnType \cup {NoTxn}] /\ b.owner \in [Externals -> ItemKeys \cup {NoItemKey}]
  BY <1>0 DEF Books
<1>8. v \in Makes =>
          /\ c \in Books
          /\ c.txn = [b.txn EXCEPT ![k] = [body |-> it.body, status |-> v]]
          /\ c.owner = IF it.ext = NoExternal THEN b.owner ELSE [b.owner EXCEPT ![it.ext] = k]
          /\ \A a \in Purses \ DOMAIN it.moves : c.balance[a] = b.balance[a] /\ c.version[a] = b.version[a]
  BY <1>0, <1>1, RecordedIs
<1>9. v \notin Makes => c = b
  BY <1>1
<1>10. DOMAIN it.moves \subseteq LockedBy(g)
  BY LockedAre
<1>11. v \in Makes => [body |-> it.body, status |-> v] # NoTxn
  BY <1>0, BatchAssumption DEF TxnType, Makes
<1> HIDE DEF t, v, c, b, k
<1>12. t \in Progress(g)
  <2>1. c \in Books
    BY <1>0, <1>8, <1>9
  <2>2. t.answers \in [Places(g) -> Verdicts]
    BY <1>0, <1>1, <1>6
  <2> QED BY <1>2, <2>1, <2>2 DEF Progress
<1>13. \A kk \in ItemKeys : c.txn[kk] = IF kk = k /\ v \in Makes THEN [body |-> it.body, status |-> v] ELSE b.txn[kk]
  BY <1>7, <1>8, <1>9
<1>14. \A x \in Externals : c.owner[x] = IF x = it.ext /\ v \in Makes THEN k ELSE b.owner[x]
  <2>1. NoExternal \notin Externals
    BY BatchAssumption
  <2> QED BY <1>0, <1>7, <1>8, <1>9, <2>1
<1>15. \A q \in Sent(g) : q <= n /\ q # n /\ v \in Makes => ItemAt(g, q).key # k
  <2>1. \A q \in Sent(g) : q <= n /\ q # n => q < n
    BY <1>0
  <2> QED BY <1>6, <2>1 DEF Earlier, k
<1>16. t.answers[n] = v
  BY DEF v
<1>17. \A q \in Sent(g) : q <= n =>
          t.answers[q] \in IF c.txn[ItemAt(g, q).key] = NoTxn THEN Refusals ELSE Succeeded \cup {"conflict"}
  <2> SUFFICES ASSUME NEW q \in Sent(g), q <= n
               PROVE  t.answers[q] \in IF c.txn[ItemAt(g, q).key] = NoTxn THEN Refusals ELSE Succeeded \cup {"conflict"}
    OBVIOUS
  <2>1. CASE q = n
    <3>1. c.txn[k] = IF v \in Makes THEN [body |-> it.body, status |-> v] ELSE b.txn[k]
      BY <1>0, <1>13
    <3>2. ItemAt(g, q).key = k /\ t.answers[q] = v
      BY <2>1, <1>16 DEF k
    <3>3. v \in Makes => v \in Succeeded
      BY DEF Makes, Succeeded
    <3> QED BY <1>6, <1>11, <3>1, <3>2, <3>3
  <2>2. CASE q # n
    <3>1. t.answers[q] = s.answers[q] /\ q <= n - 1
      BY <1>3, <1>4, <2>2
    <3>2. c.txn[ItemAt(g, q).key] = b.txn[ItemAt(g, q).key]
      BY <1>0, <1>13, <1>15, <2>2
    <3> QED BY <3>1, <3>2 DEF Traced, b
  <2> QED BY <2>1, <2>2
<1>18. \A kk \in ItemKeys :
           \/ c.txn[kk] = from.txn[kk]
           \/ \E q \in Sent(g) : q <= n /\ t.answers[q] \in Makes /\ ItemAt(g, q).key = kk
  <2> SUFFICES ASSUME NEW kk \in ItemKeys, c.txn[kk] # from.txn[kk]
               PROVE  \E q \in Sent(g) : q <= n /\ t.answers[q] \in Makes /\ ItemAt(g, q).key = kk
    OBVIOUS
  <2>1. CASE kk = k /\ v \in Makes
    BY <1>0, <1>16, <2>1 DEF k
  <2>2. CASE ~(kk = k /\ v \in Makes)
    <3>1. b.txn[kk] # from.txn[kk]
      BY <1>13, <2>2
    <3>2. PICK q \in Sent(g) : q <= n - 1 /\ s.answers[q] \in Makes /\ ItemAt(g, q).key = kk
      BY <3>1 DEF Traced, b
    <3>3. q <= n /\ q # n
      BY <1>0, <3>2
    <3> QED BY <1>3, <3>2, <3>3
  <2> QED BY <2>1, <2>2
<1>19. \A x \in Externals :
           \/ c.owner[x] = from.owner[x]
           \/ \E q \in Sent(g) : q <= n /\ t.answers[q] \in Makes /\ ItemAt(g, q).ext = x
  <2> SUFFICES ASSUME NEW x \in Externals, c.owner[x] # from.owner[x]
               PROVE  \E q \in Sent(g) : q <= n /\ t.answers[q] \in Makes /\ ItemAt(g, q).ext = x
    OBVIOUS
  <2>1. CASE x = it.ext /\ v \in Makes
    BY <1>0, <1>16, <2>1
  <2>2. CASE ~(x = it.ext /\ v \in Makes)
    <3>1. b.owner[x] # from.owner[x]
      BY <1>14, <2>2
    <3>2. PICK q \in Sent(g) : q <= n - 1 /\ s.answers[q] \in Makes /\ ItemAt(g, q).ext = x
      BY <3>1 DEF Traced, b
    <3>3. q <= n /\ q # n
      BY <1>0, <3>2
    <3> QED BY <1>3, <3>2, <3>3
  <2> QED BY <2>1, <2>2
<1>20. \A a \in Purses \ LockedBy(g) : c.balance[a] = from.balance[a] /\ c.version[a] = from.version[a]
  <2>1. \A a \in Purses \ LockedBy(g) : c.balance[a] = b.balance[a] /\ c.version[a] = b.version[a]
    BY <1>8, <1>9, <1>10
  <2> QED BY <2>1 DEF Traced, b
<1>21. ASSUME NEW q \in Sent(g), q <= n, t.answers[q] \in Makes
       PROVE  /\ from.txn[ItemAt(g, q).key] = NoTxn
              /\ c.txn[ItemAt(g, q).key] = [body |-> ItemAt(g, q).body, status |-> t.answers[q]]
              /\ ItemAt(g, q).ext # NoExternal => c.owner[ItemAt(g, q).ext] = ItemAt(g, q).key
  <2>1. CASE q = n
    <3>1. v \in Makes /\ b.txn[k] = NoTxn /\ Earlier(g, n) = {} /\ ItemAt(g, q) = it /\ t.answers[q] = v
      BY <1>6, <1>16, <1>21, <2>1
    <3>2. ~\E p \in Sent(g) : p <= n - 1 /\ s.answers[p] \in Makes /\ ItemAt(g, p).key = k
      <4>1. \A p \in Sent(g) : p <= n - 1 => p < n
        BY <1>0
      <4> QED BY <3>1, <4>1 DEF Earlier, k
    <3>3. from.txn[k] = NoTxn
      BY <1>0, <3>1, <3>2 DEF Traced, b
    <3>4. c.txn[k] = [body |-> it.body, status |-> v]
      BY <1>0, <1>13, <3>1
    <3>5. it.ext # NoExternal => c.owner[it.ext] = k
      BY <1>0, <1>14, <3>1
    <3> QED BY <3>1, <3>3, <3>4, <3>5 DEF k
  <2>2. CASE q # n
    <3> DEFINE j == ItemAt(g, q)
    <3>0. q <= n - 1 /\ t.answers[q] = s.answers[q] /\ j.key \in ItemKeys /\ j.ext \in Externals \cup {NoExternal}
      BY <1>0, <1>3, <1>4, <1>21, <2>2, PlacesAre DEF IsItem
    <3>1. /\ from.txn[j.key] = NoTxn
          /\ b.txn[j.key] = [body |-> j.body, status |-> s.answers[q]]
          /\ j.ext # NoExternal => b.owner[j.ext] = j.key
      BY <1>21, <3>0 DEF Traced, b
    <3>2. v \in Makes => j.key # k
      BY <1>15, <1>21, <2>2
    <3>3. c.txn[j.key] = b.txn[j.key]
      BY <1>13, <3>0, <3>2
    <3>4. j.ext # NoExternal => c.owner[j.ext] = j.key
      <4> SUFFICES ASSUME j.ext # NoExternal PROVE c.owner[j.ext] = j.key
        OBVIOUS
      <4>1. ~(j.ext = it.ext /\ v \in Makes)
        <5> SUFFICES ASSUME j.ext = it.ext, v \in Makes PROVE FALSE
          OBVIOUS
        <5>1. b.owner[it.ext] \in {NoItemKey, k}
          BY <1>6 DEF ExternalFree, k
        <5>2. b.owner[it.ext] = j.key /\ j.key # NoItemKey
          BY <3>0, <3>1, BatchAssumption
        <5> QED BY <3>2, <5>1, <5>2
      <4> QED BY <1>14, <3>0, <3>1, <4>1
    <3> QED BY <3>0, <3>1, <3>3, <3>4
  <2> QED BY <2>1, <2>2
<1>22. c = t.books
  BY <1>2
<1> HIDE DEF it
<1> QED BY <1>12, <1>17, <1>18, <1>19, <1>20, <1>21, <1>22 DEF Traced, t

\* A request that is not valid is passed over.
LEMMA TracedSkip ==
    ASSUME NEW g \in Groups, NEW from, NEW n \in Places(g), n \notin Sent(g), NEW s, Traced(g, from, s, n - 1)
    PROVE  Traced(g, from, s, n)
<1>1. \A q \in Sent(g) : q <= n <=> q <= n - 1
  <2>1. n \in Nat /\ Sent(g) \subseteq Nat
    BY PlacesAre
  <2> QED BY <2>1
<1> QED BY <1>1 DEF Traced

\* So do all the requests of a batch, up to any place.
LEMMA PostingTraced ==
    ASSUME NEW g \in Groups, NEW from \in Books, task[g].answers \in [Places(g) -> Verdicts]
    PROVE  \A n \in 0 .. Len(GroupOf[g].items) : Traced(g, from, Posting(g, from)[n], n)
<1> DEFINE N == Len(GroupOf[g].items)
           F == Posting(g, from)
           T == {n \in 0 .. N : Traced(g, from, F[n], n)}
<1>0. N \in Nat /\ Places(g) = 1 .. N /\ Sent(g) \subseteq Places(g)
  BY PlacesAre
<1>1. /\ F[0] = [books |-> from, answers |-> task[g].answers]
      /\ \A n \in 1 .. N : F[n] = IF ItemAt(g, n).valid THEN PostOne(g, F[n - 1], n) ELSE F[n - 1]
  BY <1>0, PostingIs
<1> HIDE DEF F, N
<1>2. Traced(g, from, F[0], 0)
  <2>1. ~\E q \in Sent(g) : q <= 0
    BY <1>0
  <2> QED BY <1>1, <2>1 DEF Traced, Progress
<1>3. ASSUME NEW n \in 1 .. N, n - 1 \in T PROVE n \in T
  <2>0. n \in 0 .. N /\ n \in Places(g)
    BY <1>0
  <2>1. Traced(g, from, F[n - 1], n - 1)
    BY <1>3
  <2>2. CASE n \in Sent(g)
    <3>1. F[n] = PostOne(g, F[n - 1], n)
      BY <1>1, <2>2 DEF Sent
    <3>2. Traced(g, from, PostOne(g, F[n - 1], n), n)
      BY <2>1, <2>2, TracedStep
    <3> QED BY <2>0, <3>1, <3>2
  <2>3. CASE n \notin Sent(g)
    <3>1. F[n] = F[n - 1]
      BY <1>1, <2>0, <2>3 DEF Sent
    <3>2. Traced(g, from, F[n - 1], n)
      BY <2>0, <2>1, <2>3, TracedSkip
    <3> QED BY <2>0, <3>1, <3>2
  <2> QED BY <2>2, <2>3
<1>4. 0 \in T
  BY <1>0, <1>2
<1>5. \A n \in 0 .. N : n \in T
  <2> HIDE DEF T
  <2> QED BY <1>0, <1>3, <1>4, Climb
<1> QED BY <1>5 DEF F, N

-------------------------------------------------------------------------------
(***************************************************************************)
(* Batches: the loop of applyRequests does what the requests do one at a   *)
(* time.                                                                   *)
(***************************************************************************)

\* The loop of applyRequests is where the posting one at a time is, and firstByKey has the
\* first request of every key that it has found no transaction of.
Matched(g, read, m, s, n) ==
    /\ m = [books |-> s.books, first |-> m.first, answers |-> s.answers]
    /\ m.first \in [ItemKeys -> Nat]
    /\ \A k \in ItemKeys : read.txn[k] = NoTxn =>
           IF m.first[k] = 0 THEN \A q \in Sent(g) : q <= n => ItemAt(g, q).key # k
           ELSE /\ m.first[k] \in Sent(g) /\ m.first[k] <= n /\ ItemAt(g, m.first[k]).key = k
                /\ s.answers[m.first[k]] # "conflict"
                /\ \A q \in Sent(g) : ItemAt(g, q).key = k => m.first[k] <= q

\* The loop and the requests one at a time stay matched.
LEMMA MatchedStep ==
    ASSUME NEW g \in Groups, NEW read \in Books, NEW n \in Sent(g), NEW s, NEW m,
           Traced(g, read, s, n - 1), Matched(g, read, m, s, n - 1)
    PROVE  Matched(g, read, Resolve(g, read, m, n), PostOne(g, s, n), n)
<1> DEFINE it == ItemAt(g, n)
           k == it.key
           t == PostOne(g, s, n)
           v == t.answers[n]
           b == s.books
           prior == m.first[k]
           u == IF read.txn[k] # NoTxn THEN Repeated(read.txn[k], it)
                ELSE IF prior = 0 THEN Judge(read, b, it)
                ELSE IF s.answers[prior] \notin Succeeded THEN s.answers[prior]
                ELSE Repeated(b.txn[k], it)
           new == read.txn[k] = NoTxn /\ prior = 0
<1>0. /\ n \in Nat /\ Sent(g) \subseteq Nat /\ n \in Places(g) /\ Sent(g) \subseteq Places(g) /\ n # 0
      /\ s.answers \in [Places(g) -> Verdicts] /\ k \in ItemKeys /\ 0 \notin Sent(g)
  BY PlacesAre DEF Traced, Progress
<1>1. m.books = b /\ m.answers = s.answers /\ m.first \in [ItemKeys -> Nat]
  BY DEF Matched
<1>2. Resolve(g, read, m, n) =
          [books   |-> IF new /\ u \in Succeeded THEN Recorded(b, it, u) ELSE b,
           first   |-> IF new THEN [m.first EXCEPT ![k] = n] ELSE m.first,
           answers |-> [s.answers EXCEPT ![n] = u]]
  BY <1>1 DEF Resolve
<1>3. Way(g, s, n, t)
  BY OneIs
<1>4. t = [books |-> t.books, answers |-> t.answers]
  BY DEF PostOne
<1> HIDE DEF t
<1>5. \A q \in Sent(g) : q <= n - 1 <=> q < n
  BY <1>0
<1>6. \A q \in Sent(g) : q <= n - 1 =>
          s.answers[q] \in IF b.txn[ItemAt(g, q).key] = NoTxn THEN Refusals ELSE Succeeded \cup {"conflict"}
  BY DEF Traced
<1>7. b.txn[k] = read.txn[k] \/ (read.txn[k] = NoTxn /\ Earlier(g, n) # {})
  <2> SUFFICES ASSUME b.txn[k] # read.txn[k] PROVE read.txn[k] = NoTxn /\ Earlier(g, n) # {}
    OBVIOUS
  <2>1. PICK q \in Sent(g) : q <= n - 1 /\ s.answers[q] \in Makes /\ ItemAt(g, q).key = k
    BY <1>0 DEF Traced
  <2>2. read.txn[k] = NoTxn
    <3>1. \A p \in Sent(g) : p <= n - 1 /\ s.answers[p] \in Makes => read.txn[ItemAt(g, p).key] = NoTxn
      BY DEF Traced
    <3> QED BY <2>1, <3>1
  <2>3. q \in Earlier(g, n)
    BY <1>5, <2>1 DEF Earlier
  <2> QED BY <2>2, <2>3
<1>8. read.txn[k] = NoTxn =>
          IF prior = 0 THEN Earlier(g, n) = {}
          ELSE /\ prior \in Earlier(g, n) /\ \A q \in Earlier(g, n) : prior <= q
               /\ s.answers[prior] # "conflict"
  <2>1. Matched(g, read, m, s, n - 1)
    OBVIOUS
  <2> QED BY <1>0, <1>5, <2>1 DEF Matched, Earlier
<1>9. u = v
  <2>1. CASE read.txn[k] # NoTxn
    <3>1. b.txn[k] = read.txn[k]
      BY <1>7, <2>1
    <3>2. v = Repeated(b.txn[k], it)
      BY <1>3, <2>1, <3>1 DEF Way
    <3> QED BY <2>1, <3>1, <3>2
  <2>2. CASE read.txn[k] = NoTxn /\ prior = 0
    <3>1. b.txn[k] = NoTxn /\ Earlier(g, n) = {}
      BY <1>7, <1>8, <2>2
    <3>2. v = Judge(b, b, it)
      BY <1>3, <3>1 DEF Way
    <3>3. Judge(read, b, it) = Judge(b, b, it)
      BY JudgeIs
    <3> QED BY <2>2, <3>2, <3>3
  <2>3. CASE read.txn[k] = NoTxn /\ prior # 0
    <3>1. prior \in Earlier(g, n) /\ (\A q \in Earlier(g, n) : prior <= q) /\ s.answers[prior] # "conflict"
      BY <1>8, <2>3
    <3>2. s.answers[prior] \in IF b.txn[k] = NoTxn THEN Refusals ELSE Succeeded \cup {"conflict"}
      BY <1>5, <1>6, <3>1 DEF Earlier
    <3>3. CASE b.txn[k] = NoTxn
      <4>1. s.answers[prior] \notin Succeeded
        BY <3>2, <3>3 DEF Refusals, Succeeded
      <4>2. Earlier(g, n) \in SUBSET Nat /\ Earlier(g, n) # {}
        BY <1>0, <3>1 DEF Earlier
      <4>3. Min(Earlier(g, n)) \in Earlier(g, n) /\ \A y \in Earlier(g, n) : Min(Earlier(g, n)) <= y
        BY <4>2, LeastOf
      <4>4. Min(Earlier(g, n)) = prior
        BY <3>1, <4>2, <4>3
      <4>5. v = s.answers[prior]
        BY <1>3, <3>3, <4>2, <4>4 DEF Way
      <4> QED BY <2>3, <4>1, <4>5
    <3>4. CASE b.txn[k] # NoTxn
      <4>1. s.answers[prior] \in Succeeded
        BY <3>1, <3>2, <3>4
      <4> QED BY <1>3, <2>3, <3>4, <4>1 DEF Way
    <3> QED BY <3>3, <3>4
  <2> QED BY <2>1, <2>2, <2>3
<1>10. v \in Makes <=> new /\ u \in Succeeded
  <2>1. \A txn : Repeated(txn, it) \notin Makes
    BY RepeatedIs DEF Makes
  <2>2. CASE new
    <3>1. u = Judge(read, b, it)
      BY <2>2
    <3>2. Judge(read, b, it) \in Refusals \cup Makes
      BY JudgeIs
    <3> HIDE DEF u, v
    <3> QED BY <1>9, <2>2, <3>1, <3>2 DEF Refusals, Makes, Succeeded
  <2>3. CASE ~new
    <3>1. b.txn[k] # NoTxn \/ Earlier(g, n) # {}
      BY <1>7, <1>8, <2>3
    <3>2. v \notin Makes
      BY <1>3, <2>1, <3>1 DEF Refusals, Makes, Way
    <3> QED BY <2>3, <3>2
  <2> QED BY <2>2, <2>3
<1> DEFINE r == Resolve(g, read, m, n)
<1>11. /\ r.books = t.books /\ r.answers = t.answers
       /\ r.first = IF new THEN [m.first EXCEPT ![k] = n] ELSE m.first
       /\ r = [books |-> r.books, first |-> r.first, answers |-> r.answers]
  <2> HIDE DEF u, v, new
  <2> QED BY <1>2, <1>3, <1>9, <1>10 DEF v, Way
<1>12. v # "conflict" \/ ~new
  <2> SUFFICES ASSUME new PROVE v # "conflict"
    OBVIOUS
  <2>1. Judge(read, b, it) \in Refusals \cup Makes
    BY JudgeIs
  <2> QED BY <1>9, <2>1 DEF Refusals, Makes
<1>13. \A q \in Sent(g) : q # n => t.answers[q] = s.answers[q]
  BY <1>0, <1>3 DEF Way
<1>14. t.answers[n] = v
  OBVIOUS
<1> HIDE DEF r, u, v
<1>15. ASSUME NEW kk \in ItemKeys, read.txn[kk] = NoTxn
       PROVE  IF r.first[kk] = 0 THEN \A q \in Sent(g) : q <= n => ItemAt(g, q).key # kk
              ELSE /\ r.first[kk] \in Sent(g) /\ r.first[kk] <= n /\ ItemAt(g, r.first[kk]).key = kk
                   /\ t.answers[r.first[kk]] # "conflict"
                   /\ \A q \in Sent(g) : ItemAt(g, q).key = kk => r.first[kk] <= q
  <2>1. CASE new /\ kk = k
    <3>1. r.first[kk] = n
      BY <1>0, <1>1, <1>11, <2>1
    <3>2. Earlier(g, n) = {}
      BY <1>8, <2>1
    <3>3. \A q \in Sent(g) : ItemAt(g, q).key = kk => n <= q
      BY <1>0, <2>1, <3>2 DEF Earlier
    <3> QED BY <1>0, <1>12, <1>14, <2>1, <3>1, <3>3
  <2>2. CASE ~(new /\ kk = k)
    <3>1. r.first[kk] = m.first[kk]
      BY <1>0, <1>1, <1>11, <2>2
    <3>2. m.first[kk] = 0 => kk # k
      BY <1>15, <2>2
    <3>3. IF m.first[kk] = 0 THEN \A q \in Sent(g) : q <= n - 1 => ItemAt(g, q).key # kk
          ELSE /\ m.first[kk] \in Sent(g) /\ m.first[kk] <= n - 1 /\ ItemAt(g, m.first[kk]).key = kk
               /\ s.answers[m.first[kk]] # "conflict"
               /\ \A q \in Sent(g) : ItemAt(g, q).key = kk => m.first[kk] <= q
      BY <1>15 DEF Matched
    <3>4. CASE m.first[kk] = 0
      <4>1. \A q \in Sent(g) : q <= n => q <= n - 1 \/ q = n
        BY <1>0
      <4> QED BY <3>1, <3>2, <3>3, <3>4, <4>1
    <3>5. CASE m.first[kk] # 0
      <4>1. m.first[kk] <= n /\ m.first[kk] # n
        BY <1>0, <3>3, <3>5
      <4>2. t.answers[m.first[kk]] = s.answers[m.first[kk]]
        BY <1>13, <3>3, <3>5, <4>1
      <4> QED BY <3>1, <3>3, <3>5, <4>1, <4>2
    <3> QED BY <3>4, <3>5
  <2> QED BY <2>1, <2>2
<1>16. r.first \in [ItemKeys -> Nat]
  BY <1>0, <1>1, <1>11
<1> HIDE DEF new, prior, b, k, it
<1>17. Matched(g, read, r, t, n)
  BY <1>11, <1>15, <1>16 DEF Matched
<1> QED BY <1>17 DEF r, t

\* What applyRequests does is what its requests do one at a time, on the books it has read.
LEMMA ResolvedIs ==
    ASSUME NEW g \in Groups, NEW read \in Books, task[g].answers \in [Places(g) -> Verdicts]
    PROVE  /\ Resolved(g, read).books = OneByOne(g, read).books
           /\ Resolved(g, read).answers = OneByOne(g, read).answers
<1> DEFINE N == Len(GroupOf[g].items)
           F == Posting(g, read)
           M == Resolving(g, read)
           T == {n \in 0 .. N : Matched(g, read, M[n], F[n], n)}
<1>0. N \in Nat /\ Places(g) = 1 .. N /\ Sent(g) \subseteq Places(g)
  BY PlacesAre
<1>1. /\ F[0] = [books |-> read, answers |-> task[g].answers]
      /\ \A n \in 1 .. N : F[n] = IF ItemAt(g, n).valid THEN PostOne(g, F[n - 1], n) ELSE F[n - 1]
  BY <1>0, PostingIs
<1>2. /\ M[0] = [books |-> read, first |-> [k \in ItemKeys |-> 0], answers |-> task[g].answers]
      /\ \A n \in 1 .. N : M[n] = IF ItemAt(g, n).valid THEN Resolve(g, read, M[n - 1], n) ELSE M[n - 1]
  BY <1>0, ResolvingIs
<1>3. \A n \in 0 .. N : Traced(g, read, F[n], n)
  BY PostingTraced
<1>4. Resolved(g, read) = M[N] /\ OneByOne(g, read) = F[N]
  BY DEF Resolved, OneByOne
<1> HIDE DEF F, M, N
<1>5. Matched(g, read, M[0], F[0], 0)
  <2>1. ~\E q \in Sent(g) : q <= 0
    BY <1>0
  <2>2. M[0].first = [k \in ItemKeys |-> 0]
    BY <1>2
  <2> QED BY <1>1, <1>2, <2>1, <2>2 DEF Matched
<1>6. ASSUME NEW n \in 1 .. N, n - 1 \in T PROVE n \in T
  <2>0. n \in 0 .. N /\ n \in Places(g) /\ n \in Nat
    BY <1>0
  <2>1. Matched(g, read, M[n - 1], F[n - 1], n - 1) /\ Traced(g, read, F[n - 1], n - 1)
    BY <1>3, <1>6
  <2>2. CASE n \in Sent(g)
    <3>1. F[n] = PostOne(g, F[n - 1], n) /\ M[n] = Resolve(g, read, M[n - 1], n)
      BY <1>1, <1>2, <2>2 DEF Sent
    <3>2. Matched(g, read, Resolve(g, read, M[n - 1], n), PostOne(g, F[n - 1], n), n)
      BY <2>1, <2>2, MatchedStep
    <3> QED BY <2>0, <3>1, <3>2
  <2>3. CASE n \notin Sent(g)
    <3>1. F[n] = F[n - 1] /\ M[n] = M[n - 1]
      BY <1>1, <1>2, <2>0, <2>3 DEF Sent
    <3>2. \A q \in Sent(g) : q <= n <=> q <= n - 1
      BY <1>0, <2>0, <2>3
    <3>3. \A q \in Sent(g) : q <= n - 1 => q <= n
      BY <3>2
    <3>4. Matched(g, read, M[n - 1], F[n - 1], n)
      BY <2>1, <3>2 DEF Matched
    <3> QED BY <2>0, <3>1, <3>4
  <2> QED BY <2>2, <2>3
<1>7. 0 \in T
  BY <1>0, <1>5
<1>8. \A n \in 0 .. N : n \in T
  <2> HIDE DEF T
  <2> QED BY <1>0, <1>6, <1>7, Climb
<1>9. Matched(g, read, M[N], F[N], N)
  BY <1>0, <1>8
<1>10. M[N].books = F[N].books /\ M[N].answers = F[N].answers
  BY <1>9 DEF Matched
<1> QED BY <1>4, <1>10

\* The answer to a request does not change after it.
LEMMA AnswersStay ==
    ASSUME NEW g \in Groups, NEW from \in Books, task[g].answers \in [Places(g) -> Verdicts]
    PROVE  /\ \A p \in Sent(g) : OneByOne(g, from).answers[p] = Posting(g, from)[p].answers[p]
           /\ \A p \in Places(g) \ Sent(g) : OneByOne(g, from).answers[p] = task[g].answers[p]
<1> DEFINE N == Len(GroupOf[g].items)
           F == Posting(g, from)
           T == {n \in 0 .. N :
                     /\ \A p \in Sent(g) : p <= n => F[n].answers[p] = F[p].answers[p]
                     /\ \A p \in Places(g) \ Sent(g) : F[n].answers[p] = task[g].answers[p]}
<1>0. N \in Nat /\ Places(g) = 1 .. N /\ Sent(g) \subseteq Places(g)
  BY PlacesAre
<1>1. /\ F[0] = [books |-> from, answers |-> task[g].answers]
      /\ \A n \in 1 .. N : F[n] = IF ItemAt(g, n).valid THEN PostOne(g, F[n - 1], n) ELSE F[n - 1]
  BY <1>0, PostingIs
<1>2. \A n \in 0 .. N : Traced(g, from, F[n], n)
  BY PostingTraced
<1>3. OneByOne(g, from) = F[N]
  BY DEF OneByOne
<1> HIDE DEF F, N
<1>4. 0 \in T
  <2>1. ~\E q \in Sent(g) : q <= 0
    BY <1>0
  <2>2. F[0].answers = task[g].answers
    BY <1>1
  <2> QED BY <1>0, <2>1, <2>2
<1>5. ASSUME NEW n \in 1 .. N, n - 1 \in T PROVE n \in T
  <2>0. n \in 0 .. N /\ n \in Places(g) /\ n \in Nat /\ n - 1 \in 0 .. N
    BY <1>0
  <2>1. \A p \in Places(g) : p # n => F[n].answers[p] = F[n - 1].answers[p]
    <3>1. CASE n \in Sent(g)
      <4>1. F[n] = PostOne(g, F[n - 1], n)
        BY <1>1, <3>1 DEF Sent
      <4>2. \E v : PostOne(g, F[n - 1], n).answers = [F[n - 1].answers EXCEPT ![n] = v]
        BY DEF PostOne
      <4>3. F[n - 1].answers \in [Places(g) -> Verdicts]
        BY <1>2, <2>0 DEF Traced, Progress
      <4> QED BY <4>1, <4>2, <4>3
    <3>2. CASE n \notin Sent(g)
      <4>1. F[n] = F[n - 1]
        BY <1>1, <2>0, <3>2 DEF Sent
      <4> QED BY <4>1
    <3> QED BY <3>1, <3>2
  <2>2. n \notin Sent(g) => F[n] = F[n - 1]
    BY <1>1, <2>0 DEF Sent
  <2>3. \A p \in Sent(g) : p <= n => p = n \/ p <= n - 1
    BY <1>0, <2>0
  <2>4. /\ \A p \in Sent(g) : p <= n - 1 => F[n - 1].answers[p] = F[p].answers[p]
        /\ \A p \in Places(g) \ Sent(g) : F[n - 1].answers[p] = task[g].answers[p]
    BY <1>5
  <2>5. \A p \in Sent(g) : p <= n => F[n].answers[p] = F[p].answers[p]
    BY <1>0, <2>1, <2>3, <2>4
  <2>6. \A p \in Places(g) \ Sent(g) : F[n].answers[p] = task[g].answers[p]
    BY <2>0, <2>1, <2>2, <2>4
  <2> QED BY <2>0, <2>5, <2>6
<1>6. \A n \in 0 .. N : n \in T
  <2> HIDE DEF T
  <2> QED BY <1>0, <1>4, <1>5, Climb
<1>7. N \in T /\ \A p \in Sent(g) : p <= N
  BY <1>0, <1>6
<1> QED BY <1>3, <1>7 DEF F

-------------------------------------------------------------------------------
(***************************************************************************)
(* Batches: the same requests on what a batch has read, and on what is     *)
(* there when it commits.                                                  *)
(***************************************************************************)

\* An external id belongs to a key that has its transaction.
OwnersHave(b) == \A x \in Externals : b.owner[x] # NoItemKey => b.txn[b.owner[x]] # NoTxn

\* What a batch has read is what is there, but for keys and external ids that other
\* batches have used since; the transaction of such a key has another body.
Current(g, read, now) ==
    /\ \A a \in LockedBy(g) : read.balance[a] = now.balance[a] /\ read.version[a] = now.version[a]
    /\ \A k \in ItemKeys : read.txn[k] # NoTxn => now.txn[k] = read.txn[k]
    /\ \A x \in Externals : read.owner[x] # NoItemKey => now.owner[x] = read.owner[x]
    /\ \A p \in Sent(g) :
           LET it == ItemAt(g, p)
           IN  read.txn[it.key] = NoTxn /\ now.txn[it.key] # NoTxn => now.txn[it.key].body # it.body

\* The unique indexes accept a request.
Inserts(now, it) == now.txn[it.key] = NoTxn /\ (it.ext # NoExternal => now.owner[it.ext] = NoItemKey)

\* The keys and the external ids for which n places of g have made a transaction.
MadeKey(g, s, n, k) == \E q \in Sent(g) : q <= n /\ s.answers[q] \in Makes /\ ItemAt(g, q).key = k
MadeExt(g, s, n, x) == \E q \in Sent(g) : q <= n /\ s.answers[q] \in Makes /\ ItemAt(g, q).ext = x

\* The requests of g, posted on what the batch has read and on what is there.
Agree(g, now, s, w, n) ==
    /\ \A a \in LockedBy(g) :
           s.books.balance[a] = w.books.balance[a] /\ s.books.version[a] = w.books.version[a]
    /\ \A k \in ItemKeys :
           w.books.txn[k] = IF MadeKey(g, s, n, k) THEN s.books.txn[k] ELSE now.txn[k]
    /\ \A x \in Externals :
           w.books.owner[x] = IF MadeExt(g, s, n, x) THEN s.books.owner[x] ELSE now.owner[x]
    /\ \A q \in Sent(g) : q <= n =>
           \/ s.answers[q] = w.answers[q]
           \/ s.answers[q] \notin Succeeded /\ w.answers[q] \notin Succeeded

\* The verdict depends on the accounts of a request, and on its external id.
LEMMA JudgeSame ==
    ASSUME NEW it, NEW b, NEW c, IsItem(it),
           \A a \in DOMAIN it.moves : b.balance[a] = c.balance[a] /\ b.version[a] = c.version[a],
           ExternalFree(b, it) <=> ExternalFree(c, it)
    PROVE  Judge(b, b, it) = Judge(c, c, it)
<1>1. DOMAIN it.at \subseteq DOMAIN it.moves /\ DOMAIN it.least \subseteq DOMAIN it.moves
  BY DEF IsItem
<1>2. LocksHold(b, b, it) <=> LocksHold(c, c, it)
  BY <1>1 DEF LocksHold
<1>3. FundsSuffice(b, it) <=> FundsSuffice(c, it)
  BY DEF FundsSuffice
<1> QED BY <1>2, <1>3 DEF Judge

\* So does what it changes.
LEMMA RecordedSame ==
    ASSUME NEW it, NEW b, NEW c, NEW v, NEW a \in Purses,
           b.balance[a] = c.balance[a] /\ b.version[a] = c.version[a]
    PROVE  /\ Recorded(b, it, v).balance[a] = Recorded(c, it, v).balance[a]
           /\ Recorded(b, it, v).version[a] = Recorded(c, it, v).version[a]
BY DEF Recorded

\* Both runs come to the same verdict on a request, or to an error each.
LEMMA SameVerdict ==
    ASSUME NEW g \in Groups, NEW read \in Books, NEW now \in Books, Current(g, read, now), OwnersHave(now),
           NEW n \in Sent(g), NEW s, NEW w,
           Traced(g, read, s, n - 1), Traced(g, now, w, n - 1), Agree(g, now, s, w, n - 1),
           PostOne(g, s, n).answers[n] \in Makes => Inserts(now, ItemAt(g, n))
    PROVE  \/ PostOne(g, s, n).answers[n] = PostOne(g, w, n).answers[n]
           \/ PostOne(g, s, n).answers[n] \notin Succeeded /\ PostOne(g, w, n).answers[n] \notin Succeeded
<1> DEFINE it == ItemAt(g, n)
           k == it.key
           b == s.books
           c == w.books
           v == PostOne(g, s, n).answers[n]
           z == PostOne(g, w, n).answers[n]
<1>1. /\ b.txn[k] # NoTxn => v = Repeated(b.txn[k], it)
      /\ b.txn[k] = NoTxn /\ Earlier(g, n) # {} => v \in Refusals
      /\ b.txn[k] = NoTxn /\ Earlier(g, n) = {} => v = Judge(b, b, it)
  <2>1. Way(g, s, n, PostOne(g, s, n))
    BY OneIs
  <2>2. PICK t : t = PostOne(g, s, n) /\ Way(g, s, n, t)
    BY <2>1
  <2> QED BY <2>2 DEF Way
<1>2. /\ c.txn[k] # NoTxn => z = Repeated(c.txn[k], it)
      /\ c.txn[k] = NoTxn /\ Earlier(g, n) # {} => z \in Refusals
      /\ c.txn[k] = NoTxn /\ Earlier(g, n) = {} => z = Judge(c, c, it)
  <2>1. Way(g, w, n, PostOne(g, w, n))
    BY OneIs
  <2>2. PICK t : t = PostOne(g, w, n) /\ Way(g, w, n, t)
    BY <2>1
  <2> QED BY <2>2 DEF Way
<1>3. /\ IsItem(it) /\ k \in ItemKeys /\ it.ext \in Externals \cup {NoExternal}
      /\ DOMAIN it.moves \subseteq LockedBy(g)
  BY PlacesAre, LockedAre DEF IsItem
<1>4. v \in Makes => Inserts(now, it)
  OBVIOUS
<1> HIDE DEF v, z
<1>5. c.txn[k] = IF MadeKey(g, s, n - 1, k) THEN b.txn[k] ELSE now.txn[k]
  BY <1>3 DEF Agree
<1>6. MadeKey(g, s, n - 1, k) \/ b.txn[k] = read.txn[k]
  BY <1>3 DEF Traced, MadeKey
<1>7. MadeKey(g, s, n - 1, k) => b.txn[k] # NoTxn
  <2>1. \A q \in Sent(g) : q <= n - 1 /\ s.answers[q] \in Makes =>
            b.txn[ItemAt(g, q).key] = [body |-> ItemAt(g, q).body, status |-> s.answers[q]]
    BY DEF Traced
  <2>2. \A q \in Sent(g) : s.answers[q] \in Makes => [body |-> ItemAt(g, q).body, status |-> s.answers[q]] # NoTxn
    BY PlacesAre, BatchAssumption DEF TxnType, Makes, IsItem
  <2> QED BY <2>1, <2>2 DEF MadeKey
<1>8. read.txn[k] # NoTxn => now.txn[k] = read.txn[k]
  BY <1>3 DEF Current
<1>9. Refusals \cap Succeeded = {} /\ Refusals \cap Makes = {} /\ Makes \subseteq Succeeded
  BY DEF Refusals, Succeeded, Makes
<1>10. /\ Judge(b, b, it) \in Refusals \cup Makes /\ Judge(c, c, it) \in Refusals \cup Makes
       /\ ~ExternalFree(c, it) => Judge(c, c, it) = "external_id_exists"
  BY JudgeIs
<1>11. \A a \in DOMAIN it.moves : b.balance[a] = c.balance[a] /\ b.version[a] = c.version[a]
  BY <1>3 DEF Agree
<1> SUFFICES v = z \/ (v \notin Succeeded /\ z \notin Succeeded)
  BY DEF v, z
<1>12. CASE b.txn[k] # NoTxn
  <2>1. c.txn[k] = b.txn[k]
    BY <1>5, <1>6, <1>8, <1>12
  <2> QED BY <1>1, <1>2, <1>12, <2>1
<1>13. CASE b.txn[k] = NoTxn /\ now.txn[k] # NoTxn
  <2>1. c.txn[k] = now.txn[k] /\ read.txn[k] = NoTxn
    BY <1>5, <1>6, <1>7, <1>13
  <2>2. now.txn[k].body # it.body
    BY <1>13, <2>1 DEF Current
  <2>3. Repeated(now.txn[k], it) = "conflict"
    BY <2>2 DEF Repeated
  <2>4. z = "conflict"
    BY <1>2, <1>13, <2>1, <2>3
  <2>5. v \notin Makes
    BY <1>4, <1>13 DEF Inserts
  <2>6. v \in Refusals
    BY <1>1, <1>10, <1>13, <2>5
  <2> QED BY <1>9, <2>4, <2>6 DEF Succeeded
<1>14. CASE b.txn[k] = NoTxn /\ now.txn[k] = NoTxn
  <2>1. c.txn[k] = NoTxn
    BY <1>5, <1>7, <1>14
  <2>2. CASE Earlier(g, n) # {}
    <3>1. v \in Refusals /\ z \in Refusals
      BY <1>1, <1>2, <1>14, <2>1, <2>2
    <3> QED BY <1>9, <3>1
  <2>3. CASE Earlier(g, n) = {}
    <3>1. v = Judge(b, b, it) /\ z = Judge(c, c, it)
      BY <1>1, <1>2, <1>14, <2>1, <2>3
    <3>2. CASE it.ext = NoExternal \/ b.owner[it.ext] = c.owner[it.ext]
      <4>1. ExternalFree(b, it) <=> ExternalFree(c, it)
        BY <3>2 DEF ExternalFree
      <4> HIDE DEF it, b, c
      <4>2. Judge(b, b, it) = Judge(c, c, it)
        BY <1>3, <1>11, <4>1, JudgeSame
      <4> QED BY <3>1, <4>2
    <3>3. CASE it.ext # NoExternal /\ b.owner[it.ext] # c.owner[it.ext]
      <4>0. it.ext \in Externals
        BY <1>3, <3>3
      <4>1. c.owner[it.ext] = now.owner[it.ext] /\ ~MadeExt(g, s, n - 1, it.ext)
        BY <3>3, <4>0 DEF Agree
      <4>2. b.owner[it.ext] = read.owner[it.ext]
        BY <4>0, <4>1 DEF Traced, MadeExt
      <4>3. read.owner[it.ext] = NoItemKey /\ now.owner[it.ext] # NoItemKey
        BY <3>3, <4>0, <4>1, <4>2 DEF Current
      <4>4. v \notin Makes
        BY <1>4, <3>3, <4>3 DEF Inserts
      <4>5. now.owner[it.ext] # k
        BY <1>14, <4>0, <4>3 DEF OwnersHave
      <4>6. ~ExternalFree(c, it)
        BY <3>3, <4>1, <4>3, <4>5 DEF ExternalFree
      <4>7. v \in Refusals /\ z \in Refusals
        BY <1>10, <3>1, <4>4, <4>6 DEF Refusals
      <4> QED BY <1>9, <4>7
    <3> QED BY <3>2, <3>3
  <2> QED BY <2>2, <2>3
<1> QED BY <1>12, <1>13, <1>14

\* Both runs agree after one more request.
LEMMA AgreeStep ==
    ASSUME NEW g \in Groups, NEW read \in Books, NEW now \in Books, Current(g, read, now), OwnersHave(now),
           NEW n \in Sent(g), NEW s, NEW w,
           Traced(g, read, s, n - 1), Traced(g, now, w, n - 1), Agree(g, now, s, w, n - 1),
           PostOne(g, s, n).answers[n] \in Makes => Inserts(now, ItemAt(g, n))
    PROVE  Agree(g, now, PostOne(g, s, n), PostOne(g, w, n), n)
<1> DEFINE it == ItemAt(g, n)
           k == it.key
<1>1. PICK t : t = PostOne(g, s, n) /\ Way(g, s, n, t)
  BY OneIs
<1>2. PICK u : u = PostOne(g, w, n) /\ Way(g, w, n, u)
  BY OneIs
<1> DEFINE v == t.answers[n]
           z == u.answers[n]
<1>3. v = z \/ (v \notin Succeeded /\ z \notin Succeeded)
  <2>1. \/ PostOne(g, s, n).answers[n] = PostOne(g, w, n).answers[n]
        \/ PostOne(g, s, n).answers[n] \notin Succeeded /\ PostOne(g, w, n).answers[n] \notin Succeeded
    BY SameVerdict
  <2> QED BY <1>1, <1>2, <2>1
<1>4. /\ IsItem(it) /\ k \in ItemKeys /\ it.ext \in Externals \cup {NoExternal} /\ NoExternal \notin Externals
      /\ n \in Nat /\ n \in Places(g) /\ Sent(g) \subseteq Nat /\ Sent(g) \subseteq Places(g)
      /\ LockedBy(g) \subseteq Purses
  BY PlacesAre, LockedAre, BatchAssumption DEF IsItem
<1>5. /\ t.answers = [s.answers EXCEPT ![n] = v] /\ t.books = IF v \in Makes THEN Recorded(s.books, it, v) ELSE s.books
      /\ u.answers = [w.answers EXCEPT ![n] = z] /\ u.books = IF z \in Makes THEN Recorded(w.books, it, z) ELSE w.books
  BY <1>1, <1>2 DEF Way
<1>6. s.answers \in [Places(g) -> Verdicts] /\ w.answers \in [Places(g) -> Verdicts] /\ s.books \in Books /\ w.books \in Books
  BY DEF Traced, Progress
<1>7. Makes \subseteq Succeeded
  BY DEF Makes, Succeeded
<1>8. (v \in Makes <=> z \in Makes) /\ (v \in Makes => v = z)
  BY <1>3, <1>7
<1>9. \A q \in Sent(g) : q # n => t.answers[q] = s.answers[q] /\ u.answers[q] = w.answers[q]
  BY <1>4, <1>5, <1>6
<1>10. \A q \in Sent(g) : q <= n <=> q = n \/ q <= n - 1
  BY <1>4
<1>11. \A q \in Sent(g) : q <= n - 1 => q # n
  BY <1>4
<1>12. /\ \A kk : MadeKey(g, t, n, kk) <=> MadeKey(g, s, n - 1, kk) \/ (v \in Makes /\ kk = k)
       /\ \A x : MadeExt(g, t, n, x) <=> MadeExt(g, s, n - 1, x) \/ (v \in Makes /\ x = it.ext)
  BY <1>9, <1>10, <1>11 DEF MadeKey, MadeExt
<1>13. t.answers[n] = v /\ u.answers[n] = z
  OBVIOUS
<1> HIDE DEF v, z
<1>14. \A q \in Sent(g) : q <= n =>
           \/ t.answers[q] = u.answers[q]
           \/ t.answers[q] \notin Succeeded /\ u.answers[q] \notin Succeeded
  <2> SUFFICES ASSUME NEW q \in Sent(g), q <= n
               PROVE  \/ t.answers[q] = u.answers[q]
                      \/ t.answers[q] \notin Succeeded /\ u.answers[q] \notin Succeeded
    OBVIOUS
  <2>1. CASE q = n
    BY <1>3, <1>13, <2>1
  <2>2. CASE q # n
    <3>1. q <= n - 1
      BY <1>10, <2>2
    <3> QED BY <1>9, <2>2, <3>1 DEF Agree
  <2> QED BY <2>1, <2>2
<1>15. CASE v \notin Makes
  <2>1. t.books = s.books /\ u.books = w.books
    BY <1>5, <1>8, <1>15
  <2>2. /\ \A kk : MadeKey(g, t, n, kk) <=> MadeKey(g, s, n - 1, kk)
        /\ \A x : MadeExt(g, t, n, x) <=> MadeExt(g, s, n - 1, x)
    BY <1>12, <1>15
  <2>3. \A kk \in ItemKeys : u.books.txn[kk] = IF MadeKey(g, t, n, kk) THEN t.books.txn[kk] ELSE now.txn[kk]
    BY <2>1, <2>2 DEF Agree
  <2>4. \A x \in Externals : u.books.owner[x] = IF MadeExt(g, t, n, x) THEN t.books.owner[x] ELSE now.owner[x]
    BY <2>1, <2>2 DEF Agree
  <2>5. \A a \in LockedBy(g) :
            t.books.balance[a] = u.books.balance[a] /\ t.books.version[a] = u.books.version[a]
    BY <2>1 DEF Agree
  <2> QED BY <1>1, <1>2, <1>14, <2>3, <2>4, <2>5 DEF Agree
<1>16. CASE v \in Makes
  <2>1. t.books = Recorded(s.books, it, v) /\ u.books = Recorded(w.books, it, v)
    BY <1>5, <1>8, <1>16
  <2>2. \A a \in LockedBy(g) :
            t.books.balance[a] = u.books.balance[a] /\ t.books.version[a] = u.books.version[a]
    <3> SUFFICES ASSUME NEW a \in LockedBy(g)
                 PROVE  t.books.balance[a] = u.books.balance[a] /\ t.books.version[a] = u.books.version[a]
      OBVIOUS
    <3>1. a \in Purses /\ s.books.balance[a] = w.books.balance[a] /\ s.books.version[a] = w.books.version[a]
      BY <1>4 DEF Agree
    <3>2. /\ Recorded(s.books, it, v).balance[a] = Recorded(w.books, it, v).balance[a]
          /\ Recorded(s.books, it, v).version[a] = Recorded(w.books, it, v).version[a]
      <4> HIDE DEF it, k
      <4> QED BY <3>1, RecordedSame
    <3> QED BY <2>1, <3>2
  <2>3. /\ t.books.txn = [s.books.txn EXCEPT ![k] = [body |-> it.body, status |-> v]]
        /\ u.books.txn = [w.books.txn EXCEPT ![k] = [body |-> it.body, status |-> v]]
        /\ t.books.owner = IF it.ext = NoExternal THEN s.books.owner ELSE [s.books.owner EXCEPT ![it.ext] = k]
        /\ u.books.owner = IF it.ext = NoExternal THEN w.books.owner ELSE [w.books.owner EXCEPT ![it.ext] = k]
    BY <2>1 DEF Recorded
  <2>4. /\ s.books.txn \in [ItemKeys -> TxnType \cup {NoTxn}] /\ w.books.txn \in [ItemKeys -> TxnType \cup {NoTxn}]
        /\ s.books.owner \in [Externals -> ItemKeys \cup {NoItemKey}]
        /\ w.books.owner \in [Externals -> ItemKeys \cup {NoItemKey}]
    BY <1>6 DEF Books
  <2>5. ASSUME NEW kk \in ItemKeys
        PROVE  u.books.txn[kk] = IF MadeKey(g, t, n, kk) THEN t.books.txn[kk] ELSE now.txn[kk]
    <3>1. CASE kk = k
      BY <1>4, <1>12, <1>16, <2>3, <2>4, <3>1
    <3>2. CASE kk # k
      <4>1. t.books.txn[kk] = s.books.txn[kk] /\ u.books.txn[kk] = w.books.txn[kk]
        BY <2>3, <2>4, <3>2
      <4>2. MadeKey(g, t, n, kk) <=> MadeKey(g, s, n - 1, kk)
        BY <1>12, <3>2
      <4>3. w.books.txn[kk] = IF MadeKey(g, s, n - 1, kk) THEN s.books.txn[kk] ELSE now.txn[kk]
        BY DEF Agree
      <4> QED BY <4>1, <4>2, <4>3
    <3> QED BY <3>1, <3>2
  <2>6. ASSUME NEW x \in Externals
        PROVE  u.books.owner[x] = IF MadeExt(g, t, n, x) THEN t.books.owner[x] ELSE now.owner[x]
    <3>1. CASE x = it.ext
      <4>1. it.ext # NoExternal
        BY <1>4, <3>1
      <4>2. t.books.owner = [s.books.owner EXCEPT ![x] = k] /\ u.books.owner = [w.books.owner EXCEPT ![x] = k]
        BY <2>3, <3>1, <4>1
      <4>3. t.books.owner[x] = k /\ u.books.owner[x] = k
        BY <2>4, <4>2
      <4>4. MadeExt(g, t, n, x)
        BY <1>12, <1>16, <3>1
      <4> QED BY <4>3, <4>4
    <3>2. CASE x # it.ext
      <4>1. t.books.owner[x] = s.books.owner[x] /\ u.books.owner[x] = w.books.owner[x]
        BY <2>3, <2>4, <3>2
      <4>2. MadeExt(g, t, n, x) <=> MadeExt(g, s, n - 1, x)
        BY <1>12, <3>2
      <4>3. w.books.owner[x] = IF MadeExt(g, s, n - 1, x) THEN s.books.owner[x] ELSE now.owner[x]
        BY DEF Agree
      <4> QED BY <4>1, <4>2, <4>3
    <3> QED BY <3>1, <3>2
  <2> QED BY <1>1, <1>2, <1>14, <2>2, <2>5, <2>6 DEF Agree
<1> QED BY <1>15, <1>16

\* Both runs agree to the end, when the unique indexes accept what the batch would insert.
LEMMA RunsAgree ==
    ASSUME NEW g \in Groups, NEW read \in Books, NEW now \in Books, Current(g, read, now), OwnersHave(now),
           task[g].answers \in [Places(g) -> Verdicts],
           \A p \in Sent(g) : OneByOne(g, read).answers[p] \in Makes => Inserts(now, ItemAt(g, p))
    PROVE  Agree(g, now, OneByOne(g, read), OneByOne(g, now), Len(GroupOf[g].items))
<1> DEFINE N == Len(GroupOf[g].items)
           F == Posting(g, read)
           H == Posting(g, now)
           T == {n \in 0 .. N : Agree(g, now, F[n], H[n], n)}
<1>0. N \in Nat /\ Places(g) = 1 .. N /\ Sent(g) \subseteq Places(g)
  BY PlacesAre
<1>1. /\ F[0] = [books |-> read, answers |-> task[g].answers]
      /\ \A n \in 1 .. N : F[n] = IF ItemAt(g, n).valid THEN PostOne(g, F[n - 1], n) ELSE F[n - 1]
  BY <1>0, PostingIs
<1>2. /\ H[0] = [books |-> now, answers |-> task[g].answers]
      /\ \A n \in 1 .. N : H[n] = IF ItemAt(g, n).valid THEN PostOne(g, H[n - 1], n) ELSE H[n - 1]
  BY <1>0, PostingIs
<1>3. \A n \in 0 .. N : Traced(g, read, F[n], n) /\ Traced(g, now, H[n], n)
  BY PostingTraced
<1>4. OneByOne(g, read) = F[N] /\ OneByOne(g, now) = H[N]
  BY DEF OneByOne
<1>5. \A p \in Sent(g) : F[p].answers[p] \in Makes => Inserts(now, ItemAt(g, p))
  BY AnswersStay
<1> HIDE DEF F, H, N
<1>6. Agree(g, now, F[0], H[0], 0)
  <2>1. ~\E q \in Sent(g) : q <= 0
    BY <1>0
  <2>2. F[0].books = read /\ H[0].books = now
    BY <1>1, <1>2
  <2> QED BY <2>1, <2>2 DEF Agree, Current, MadeKey, MadeExt
<1>7. ASSUME NEW n \in 1 .. N, n - 1 \in T PROVE n \in T
  <2>0. n \in 0 .. N /\ n \in Places(g) /\ n \in Nat /\ n - 1 \in 0 .. N
    BY <1>0
  <2>1. Agree(g, now, F[n - 1], H[n - 1], n - 1) /\ Traced(g, read, F[n - 1], n - 1) /\ Traced(g, now, H[n - 1], n - 1)
    BY <1>3, <1>7
  <2>2. CASE n \in Sent(g)
    <3>1. F[n] = PostOne(g, F[n - 1], n) /\ H[n] = PostOne(g, H[n - 1], n)
      BY <1>1, <1>2, <2>2 DEF Sent
    <3>2. PostOne(g, F[n - 1], n).answers[n] \in Makes => Inserts(now, ItemAt(g, n))
      BY <1>5, <2>2, <3>1
    <3>3. Agree(g, now, PostOne(g, F[n - 1], n), PostOne(g, H[n - 1], n), n)
      BY <2>1, <2>2, <3>2, AgreeStep
    <3> QED BY <2>0, <3>1, <3>3
  <2>3. CASE n \notin Sent(g)
    <3>1. F[n] = F[n - 1] /\ H[n] = H[n - 1]
      BY <1>1, <1>2, <2>0, <2>3 DEF Sent
    <3>2. \A q \in Sent(g) : q <= n <=> q <= n - 1
      BY <1>0, <2>0, <2>3
    <3>3. Agree(g, now, F[n - 1], H[n - 1], n)
      BY <2>1, <3>2 DEF Agree, MadeKey, MadeExt
    <3> QED BY <2>0, <3>1, <3>3
  <2> QED BY <2>2, <2>3
<1>8. 0 \in T
  BY <1>0, <1>6
<1>9. \A n \in 0 .. N : n \in T
  <2> HIDE DEF T
  <2> QED BY <1>0, <1>7, <1>8, Climb
<1>10. Agree(g, now, F[N], H[N], N)
  BY <1>0, <1>9
<1> QED BY <1>4, <1>10 DEF N

-------------------------------------------------------------------------------
(***************************************************************************)
(* Batches: the invariant.                                                 *)
(***************************************************************************)

\* What a batch may be at.
TaskOf(g) ==
    [step : {"new", "slot", "read", "external", "write", "done"}, seen : Books, attempts : Nat,
     answers : [Places(g) -> Verdicts]]

\* The books and the batches have their types.
BatchTypeOK == books \in Books /\ DOMAIN task = Groups /\ \A g \in Groups : task[g] \in TaskOf(g)

\* No account is locked twice.
LocksApart == \A g, h \in Locking : g # h => LockedBy(g) \cap LockedBy(h) = {}

\* What a batch has read is current up to its commit.
ReadsCurrent == \A g \in Locking : Current(g, task[g].seen, books)

\* A batch without a valid request is answered at once.
SentSome == \A g \in Groups : task[g].step \in {"slot", "read", "external", "write"} => Sent(g) # {}

\* The invariant of the batches.
BatchInv == BatchTypeOK /\ LocksApart /\ ReadsCurrent /\ OwnersHave(books) /\ SentSome

\* A commit writes what the requests would, one at a time, and answers as if they had been
\* when the batch read.
LEMMA CommitIs ==
    ASSUME BatchInv, NEW g \in Groups, CommitGroup(g)
    PROVE  LET S == OneByOne(g, task[g].seen)
               W == OneByOne(g, books)
           IN  /\ books' = W.books
               /\ Answered(g, S.answers)
               /\ \A p \in Places(g) : S.answers[p] = W.answers[p] \/ (S.answers[p] \notin Succeeded /\ W.answers[p] \notin Succeeded)
               /\ S.answers \in [Places(g) -> Verdicts]
               /\ Traced(g, books, W, Len(GroupOf[g].items))
               /\ \A p \in Sent(g) : W.answers[p] \in Makes => Inserts(books, ItemAt(g, p))
               /\ \E p \in Places(g) : S.answers[p] # "failed"
               /\ ~(GroupOf[g].kind = "atomic" /\ Errs(S.answers, g) # {})
<1> DEFINE N == Len(GroupOf[g].items)
           read == task[g].seen
           m == Resolved(g, read)
           S == OneByOne(g, read)
           W == OneByOne(g, books)
<1>0. /\ N \in Nat /\ Places(g) = 1 .. N /\ Sent(g) \subseteq Places(g) /\ N \in 0 .. N
      /\ \A p \in Places(g) : ItemAt(g, p).key \in ItemKeys
      /\ \A p \in Sent(g) : p <= N
  BY PlacesAre
<1>1. read \in Books /\ task[g].answers \in [Places(g) -> Verdicts] /\ books \in Books /\ task[g].step = "write"
  BY DEF BatchInv, BatchTypeOK, TaskOf, CommitGroup
<1>2. Current(g, read, books) /\ OwnersHave(books) /\ Sent(g) # {}
  BY <1>1 DEF BatchInv, ReadsCurrent, SentSome, Locking
<1>3. m.books = S.books /\ m.answers = S.answers
  BY <1>1, ResolvedIs
<1>4. Traced(g, read, S, N) /\ Traced(g, books, W, N)
  BY <1>0, <1>1, PostingTraced DEF OneByOne
<1>5. ~Fails(g, m) /\ Unique(g, m) /\ books' = Written(g, m) /\ Answered(g, m.answers)
  BY DEF CommitGroup
<1> HIDE DEF m, S, W, read, N
<1>6. \A p \in Sent(g) : p \in Accepted(g, m) <=> S.answers[p] \in Makes
  BY <1>3 DEF Accepted, Makes
<1>7. \A p \in Sent(g) : S.answers[p] \in Makes => Inserts(books, ItemAt(g, p))
  <2> SUFFICES ASSUME NEW p \in Sent(g), S.answers[p] \in Makes PROVE Inserts(books, ItemAt(g, p))
    OBVIOUS
  <2>1. p \in Accepted(g, m)
    BY <1>6
  <2>2. /\ books.txn[ItemAt(g, p).key] = NoTxn
        /\ ItemAt(g, p).ext # NoExternal => books.owner[ItemAt(g, p).ext] = NoItemKey
    BY <1>5, <2>1 DEF Unique
  <2> QED BY <2>2 DEF Inserts
<1>8. Agree(g, books, S, W, N)
  BY <1>1, <1>2, <1>7, RunsAgree DEF S, W, N, read
<1>9. Accepted(g, m) \subseteq Sent(g)
  BY DEF Accepted
<1>10. /\ \A k : (\E p \in Accepted(g, m) : ItemAt(g, p).key = k) <=> MadeKey(g, S, N, k)
       /\ \A x : (\E p \in Accepted(g, m) : ItemAt(g, p).ext = x) <=> MadeExt(g, S, N, x)
  BY <1>0, <1>6, <1>9 DEF MadeKey, MadeExt
<1>11. W.books \in Books /\ S.answers \in [Places(g) -> Verdicts]
  BY <1>4 DEF Traced, Progress
<1>12. Written(g, m) = W.books
  <2> DEFINE r == Written(g, m)
  <2>1. r = [balance |-> [a \in Purses |-> IF a \in LockedBy(g) THEN S.books.balance[a] ELSE books.balance[a]],
             version |-> [a \in Purses |-> IF a \in LockedBy(g) THEN S.books.version[a] ELSE books.version[a]],
             txn     |-> [k \in ItemKeys |-> IF MadeKey(g, S, N, k) THEN S.books.txn[k] ELSE books.txn[k]],
             owner   |-> [x \in Externals |-> IF MadeExt(g, S, N, x) THEN S.books.owner[x] ELSE books.owner[x]]]
    BY <1>3, <1>10 DEF Written
  <2>2. /\ W.books = [balance |-> W.books.balance, version |-> W.books.version, txn |-> W.books.txn, owner |-> W.books.owner]
        /\ W.books.balance = [a \in Purses |-> W.books.balance[a]]
        /\ W.books.version = [a \in Purses |-> W.books.version[a]]
        /\ W.books.txn = [k \in ItemKeys |-> W.books.txn[k]]
        /\ W.books.owner = [x \in Externals |-> W.books.owner[x]]
    BY <1>11 DEF Books
  <2>3. \A a \in Purses :
            /\ W.books.balance[a] = IF a \in LockedBy(g) THEN S.books.balance[a] ELSE books.balance[a]
            /\ W.books.version[a] = IF a \in LockedBy(g) THEN S.books.version[a] ELSE books.version[a]
    BY <1>4, <1>8 DEF Agree, Traced
  <2>4. /\ \A k \in ItemKeys : W.books.txn[k] = IF MadeKey(g, S, N, k) THEN S.books.txn[k] ELSE books.txn[k]
        /\ \A x \in Externals : W.books.owner[x] = IF MadeExt(g, S, N, x) THEN S.books.owner[x] ELSE books.owner[x]
    BY <1>8 DEF Agree
  <2> HIDE DEF r
  <2>5. /\ r.balance = W.books.balance /\ r.version = W.books.version
        /\ r.txn = W.books.txn /\ r.owner = W.books.owner
        /\ r = [balance |-> r.balance, version |-> r.version, txn |-> r.txn, owner |-> r.owner]
    BY <2>1, <2>2, <2>3, <2>4
  <2>6. r = W.books
    BY <2>2, <2>5
  <2> QED BY <2>6 DEF r
<1>13. \A p \in Places(g) : S.answers[p] = W.answers[p] \/ (S.answers[p] \notin Succeeded /\ W.answers[p] \notin Succeeded)
  <2>1. \A p \in Places(g) \ Sent(g) : S.answers[p] = W.answers[p]
    BY <1>1, AnswersStay DEF S, W
  <2>2. \A p \in Sent(g) : S.answers[p] = W.answers[p] \/ (S.answers[p] \notin Succeeded /\ W.answers[p] \notin Succeeded)
    BY <1>0, <1>8 DEF Agree
  <2> QED BY <2>1, <2>2
<1>14. \A p \in Sent(g) : W.answers[p] \in Makes => Inserts(books, ItemAt(g, p))
  <2>1. Makes \subseteq Succeeded
    BY DEF Makes, Succeeded
  <2> QED BY <1>0, <1>7, <1>13, <2>1
<1>15. \E p \in Places(g) : S.answers[p] # "failed"
  <2>1. PICK p \in Sent(g) : TRUE
    BY <1>2
  <2>2. S.answers[p] \in Refusals \cup Succeeded \cup {"conflict"}
    BY <1>0, <1>4 DEF Traced
  <2>3. S.answers[p] # "failed"
    BY <2>2 DEF Refusals, Succeeded
  <2> QED BY <1>0, <2>3
<1>16. ~(GroupOf[g].kind = "atomic" /\ Errs(S.answers, g) # {})
  BY <1>3, <1>5 DEF Fails
<1>17. books' = W.books /\ Answered(g, S.answers)
  BY <1>3, <1>5, <1>12
<1> QED BY <1>4, <1>11, <1>13, <1>14, <1>15, <1>16, <1>17 DEF S, W, read, N

\* A step of a batch.
BatchStep(g) ==
    \/ Validate(g) \/ TakeSlot(g) \/ SlotCanceled(g) \/ ReadRows(g) \/ ReadExternals(g)
    \/ CommitGroup(g) \/ AbortGroup(g) \/ RetryGroup(g)

\* Nothing has happened yet.
LEMMA EmptyIs == EmptyBooks \in Books /\ \A g \in Groups : NewTask(g) \in TaskOf(g) /\ NewTask(g).step = "new"
<1>1. EmptyBooks \in Books
  BY DEF EmptyBooks, Books
<1> QED BY <1>1 DEF NewTask, TaskOf, Verdicts

\* A batch that has its answers.
LEMMA AnsweredIs ==
    ASSUME BatchTypeOK, NEW g \in Groups, NEW answers \in [Places(g) -> Verdicts], Answered(g, answers)
    PROVE  /\ DOMAIN task' = Groups /\ task'[g] \in TaskOf(g)
           /\ \A h \in Groups \ {g} : task'[h] = task[h]
           /\ task'[g].step = "done" /\ task'[g].answers = answers
<1> DEFINE r == [NewTask(g) EXCEPT !.step = "done", !.answers = answers]
<1>1. r \in TaskOf(g) /\ r.step = "done" /\ r.answers = answers
  <2>1. NewTask(g) \in TaskOf(g)
    BY EmptyIs
  <2> QED BY <2>1 DEF TaskOf
<1>2. task' = [task EXCEPT ![g] = r]
  BY DEF Answered
<1> HIDE DEF r
<1> QED BY <1>1, <1>2 DEF BatchTypeOK

\* A batch whose record changes.
LEMMA ChangedIs ==
    ASSUME BatchTypeOK, NEW g \in Groups, NEW r \in TaskOf(g), task' = [task EXCEPT ![g] = r]
    PROVE  /\ DOMAIN task' = Groups /\ task'[g] = r
           /\ \A h \in Groups \ {g} : task'[h] = task[h]
BY DEF BatchTypeOK

\* What a step of a batch is to the others: nothing but its own state, or one of the two
\* reads, or a commit.
LEMMA BatchMoves ==
    ASSUME BatchInv, NEW g \in Groups, BatchStep(g)
    PROVE  /\ DOMAIN task' = Groups /\ task'[g] \in TaskOf(g)
           /\ \A h \in Groups \ {g} : task'[h] = task[h]
           /\ task'[g].step \in {"slot", "read", "external", "write"} => Sent(g) # {}
           /\ \/ books' = books /\ task'[g].step \notin {"external", "write"}
              \/ /\ task[g].step = "read" /\ \A h \in Locking : LockedBy(h) \cap LockedBy(g) = {}
                 /\ task'[g].step = "external" /\ task'[g].seen = books /\ books' = books
              \/ /\ task[g].step = "external" /\ task'[g].step = "write" /\ books' = books
                 /\ task'[g].seen = [task[g].seen EXCEPT !.owner = books.owner]
              \/ CommitGroup(g) /\ task'[g].step = "done"
<1>0. BatchTypeOK /\ task[g] \in TaskOf(g) /\ books \in Books /\ EmptyBooks \in Books
  BY EmptyIs DEF BatchInv, BatchTypeOK
<1>1. /\ task[g].seen \in Books /\ task[g].attempts \in Nat /\ task[g].answers \in [Places(g) -> Verdicts]
      /\ task[g].step \in {"slot", "read", "external", "write"} => Sent(g) # {}
  BY <1>0 DEF TaskOf, BatchInv, SentSome
<1>2. CASE Validate(g)
  <2> DEFINE answers == [p \in Places(g) |-> IF ItemAt(g, p).valid THEN "none" ELSE "invalid"]
             r == [task[g] EXCEPT !.step = "slot", !.answers = answers]
  <2>1. answers \in [Places(g) -> Verdicts]
    BY DEF Verdicts
  <2>2. r \in TaskOf(g) /\ r.step = "slot"
    BY <1>0, <2>1 DEF TaskOf
  <2>3. CASE Answered(g, answers)
    <3> HIDE DEF answers
    <3>1. DOMAIN task' = Groups /\ task'[g] \in TaskOf(g) /\ task'[g].step = "done" /\ \A h \in Groups \ {g} : task'[h] = task[h]
      BY <1>0, <2>1, <2>3, AnsweredIs
    <3> QED BY <1>2, <3>1 DEF Validate
  <2>4. CASE ~Answered(g, answers)
    <3>1. Sent(g) # {} /\ task' = [task EXCEPT ![g].step = "slot", ![g].answers = answers] /\ books' = books
      BY <1>2, <2>4 DEF Validate
    <3>2. task' = [task EXCEPT ![g] = r]
      BY <1>0, <3>1 DEF BatchTypeOK
    <3> HIDE DEF r
    <3>3. DOMAIN task' = Groups /\ task'[g] = r /\ \A h \in Groups \ {g} : task'[h] = task[h]
      BY <1>0, <2>2, <3>2, ChangedIs
    <3> QED BY <2>2, <3>1, <3>3
  <2> QED BY <2>3, <2>4
<1>3. CASE TakeSlot(g)
  <2> DEFINE r == [task[g] EXCEPT !.step = "read"]
  <2>1. r \in TaskOf(g) /\ r.step = "read"
    BY <1>0 DEF TaskOf
  <2>2. task' = [task EXCEPT ![g] = r] /\ books' = books /\ Sent(g) # {}
    BY <1>1, <1>3 DEF TakeSlot, Step
  <2> HIDE DEF r
  <2>3. DOMAIN task' = Groups /\ task'[g] = r /\ \A h \in Groups \ {g} : task'[h] = task[h]
    BY <1>0, <2>1, <2>2, ChangedIs
  <2> QED BY <2>1, <2>2, <2>3
<1>4. CASE SlotCanceled(g)
  <2> DEFINE answers == [p \in Places(g) |-> "canceled"]
  <2>1. answers \in [Places(g) -> Verdicts] /\ Answered(g, answers) /\ books' = books
    BY <1>4 DEF Verdicts, SlotCanceled
  <2> HIDE DEF answers
  <2>2. DOMAIN task' = Groups /\ task'[g] \in TaskOf(g) /\ task'[g].step = "done" /\ \A h \in Groups \ {g} : task'[h] = task[h]
    BY <1>0, <2>1, AnsweredIs
  <2> QED BY <2>1, <2>2
<1>5. CASE ReadRows(g)
  <2> DEFINE r == [task[g] EXCEPT !.step = "external", !.seen = books]
  <2>1. r \in TaskOf(g) /\ r.step = "external" /\ r.seen = books
    BY <1>0 DEF TaskOf
  <2>2. /\ task' = [task EXCEPT ![g] = r] /\ books' = books /\ task[g].step = "read" /\ Sent(g) # {}
        /\ \A h \in Locking : LockedBy(h) \cap LockedBy(g) = {}
    BY <1>1, <1>5 DEF ReadRows
  <2> HIDE DEF r
  <2>3. DOMAIN task' = Groups /\ task'[g] = r /\ \A h \in Groups \ {g} : task'[h] = task[h]
    BY <1>0, <2>1, <2>2, ChangedIs
  <2> QED BY <2>1, <2>2, <2>3
<1>6. CASE ReadExternals(g)
  <2> DEFINE seen == [task[g].seen EXCEPT !.owner = books.owner]
             r == [task[g] EXCEPT !.step = "write", !.seen = seen]
  <2>0. seen \in Books
    BY <1>0, <1>1 DEF Books
  <2>1. r \in TaskOf(g) /\ r.step = "write" /\ r.seen = seen
    BY <1>0, <2>0 DEF TaskOf
  <2>2. /\ task' = [task EXCEPT ![g] = r] /\ books' = books /\ task[g].step = "external" /\ Sent(g) # {}
    BY <1>1, <1>6 DEF ReadExternals
  <2> HIDE DEF r
  <2>3. DOMAIN task' = Groups /\ task'[g] = r /\ \A h \in Groups \ {g} : task'[h] = task[h]
    BY <1>0, <2>1, <2>2, ChangedIs
  <2> QED BY <2>1, <2>2, <2>3
<1>7. CASE CommitGroup(g)
  <2>1. PICK answers \in [Places(g) -> Verdicts] : Answered(g, answers)
    BY <1>7, CommitIs
  <2>2. DOMAIN task' = Groups /\ task'[g] \in TaskOf(g) /\ task'[g].step = "done" /\ \A h \in Groups \ {g} : task'[h] = task[h]
    BY <1>0, <2>1, AnsweredIs
  <2> QED BY <1>7, <2>2
<1>8. CASE AbortGroup(g)
  <2> DEFINE m == Resolved(g, task[g].seen)
  <2>1. Answered(g, Aborted(g, m)) /\ books' = books
    BY <1>8 DEF AbortGroup
  <2>2. m.answers \in [Places(g) -> Verdicts]
    <3>1. m.answers = OneByOne(g, task[g].seen).answers
      BY <1>1, ResolvedIs
    <3>2. Traced(g, task[g].seen, OneByOne(g, task[g].seen), Len(GroupOf[g].items))
      BY <1>1, PlacesAre, PostingTraced DEF OneByOne
    <3> QED BY <3>1, <3>2 DEF Traced, Progress
  <2> HIDE DEF m
  <2>3. Aborted(g, m) \in [Places(g) -> Verdicts]
    BY <2>2 DEF Aborted, Verdicts
  <2>4. DOMAIN task' = Groups /\ task'[g] \in TaskOf(g) /\ task'[g].step = "done" /\ \A h \in Groups \ {g} : task'[h] = task[h]
    BY <1>0, <2>1, <2>3, AnsweredIs
  <2> QED BY <2>1, <2>4
<1>9. CASE RetryGroup(g)
  <2>0. PICK n \in Nat : n = task[g].attempts + 1
    BY <1>1
  <2> DEFINE r == [task[g] EXCEPT !.step = "read", !.seen = EmptyBooks, !.attempts = n]
             answers == [p \in Places(g) |-> "failed"]
  <2>1. r \in TaskOf(g) /\ r.step = "read"
    BY <1>0 DEF TaskOf
  <2>2. answers \in [Places(g) -> Verdicts]
    BY DEF Verdicts
  <2>3. books' = books /\ Sent(g) # {}
    BY <1>1, <1>9 DEF RetryGroup
  <2>4. task' = [task EXCEPT ![g] = r] \/ Answered(g, answers)
    <3>1. CASE task[g].attempts + 1 < GroupAttempts
      <4>1. task' = [task EXCEPT ![g].step = "read", ![g].seen = EmptyBooks, ![g].attempts = @ + 1]
        BY <1>9, <3>1 DEF RetryGroup
      <4>2. task' = [task EXCEPT ![g] = r]
        BY <1>0, <2>0, <4>1 DEF BatchTypeOK
      <4> QED BY <4>2
    <3>2. CASE ~(task[g].attempts + 1 < GroupAttempts)
      BY <1>9, <3>2 DEF RetryGroup
    <3> QED BY <3>1, <3>2
  <2> HIDE DEF r, answers
  <2>5. CASE task' = [task EXCEPT ![g] = r]
    <3>1. DOMAIN task' = Groups /\ task'[g] = r /\ \A h \in Groups \ {g} : task'[h] = task[h]
      BY <1>0, <2>1, <2>5, ChangedIs
    <3> QED BY <2>1, <2>3, <3>1
  <2>6. CASE Answered(g, answers)
    <3>1. DOMAIN task' = Groups /\ task'[g] \in TaskOf(g) /\ task'[g].step = "done" /\ \A h \in Groups \ {g} : task'[h] = task[h]
      BY <1>0, <2>2, <2>6, AnsweredIs
    <3> QED BY <2>3, <3>1
  <2> QED BY <2>4, <2>5, <2>6
<1> QED BY <1>2, <1>3, <1>4, <1>5, <1>6, <1>7, <1>8, <1>9 DEF BatchStep

\* Requests of one key and body lock the same accounts, so two batches that are at work at
\* once do not share one.
LEMMA BodiesDiffer ==
    ASSUME NEW g \in Groups, NEW h \in Groups, LockedBy(g) \cap LockedBy(h) = {},
           NEW p \in Sent(g), NEW q \in Sent(h), ItemAt(g, p).key = ItemAt(h, q).key
    PROVE  ItemAt(g, p).body # ItemAt(h, q).body
<1>1. PICK i \in Items, j \in Items : ItemAt(g, p) = ItemOf[i] /\ ItemAt(h, q) = ItemOf[j]
  <2>1. /\ GroupOf[g].items \in Seq(Items) /\ p \in 1 .. Len(GroupOf[g].items)
        /\ GroupOf[h].items \in Seq(Items) /\ q \in 1 .. Len(GroupOf[h].items)
    BY PlacesAre, BatchAssumption
  <2>2. GroupOf[g].items[p] \in Items /\ GroupOf[h].items[q] \in Items
    BY <2>1
  <2> QED BY <2>2 DEF ItemAt
<1>2. DOMAIN ItemAt(g, p).moves # {} /\ DOMAIN ItemAt(g, p).moves \subseteq LockedBy(g)
  BY PlacesAre, LockedAre DEF IsItem
<1>3. DOMAIN ItemAt(h, q).moves \subseteq LockedBy(h)
  BY LockedAre
<1>4. SUFFICES ASSUME ItemAt(g, p).body = ItemAt(h, q).body PROVE FALSE
  OBVIOUS
<1>5. DOMAIN ItemAt(g, p).moves = DOMAIN ItemAt(h, q).moves
  BY <1>1, <1>4, BatchAssumption
<1> QED BY <1>2, <1>3, <1>5

\* What a commit does to the books: it changes the accounts it has locked, and keeps the
\* transactions and external ids that are there.
LEMMA CommitKeeps ==
    ASSUME BatchInv, NEW g \in Groups, CommitGroup(g)
    PROVE  /\ books' \in Books /\ OwnersHave(books')
           /\ \A a \in Purses \ LockedBy(g) : books'.balance[a] = books.balance[a] /\ books'.version[a] = books.version[a]
           /\ \A k \in ItemKeys : books.txn[k] # NoTxn => books'.txn[k] = books.txn[k]
           /\ \A x \in Externals : books.owner[x] # NoItemKey => books'.owner[x] = books.owner[x]
           /\ \A k \in ItemKeys : books.txn[k] = NoTxn /\ books'.txn[k] # NoTxn =>
                  \E q \in Sent(g) : ItemAt(g, q).key = k /\ books'.txn[k].body = ItemAt(g, q).body
<1> DEFINE N == Len(GroupOf[g].items)
<1>0. /\ N \in Nat /\ books \in Books /\ OwnersHave(books)
      /\ \A q \in Sent(g) : /\ q <= N /\ ItemAt(g, q).key \in ItemKeys /\ ItemAt(g, q).body \in STRING
                            /\ ItemAt(g, q).ext \in Externals \cup {NoExternal}
  BY PlacesAre DEF BatchInv, BatchTypeOK, IsItem
<1>1. PICK W : /\ books' = W.books /\ Traced(g, books, W, N)
               /\ \A p \in Sent(g) : W.answers[p] \in Makes => Inserts(books, ItemAt(g, p))
  BY CommitIs
<1> DEFINE Made == {q \in Sent(g) : W.answers[q] \in Makes}
<1>2. \A q \in Made : LET it == ItemAt(g, q)
                      IN  /\ books.txn[it.key] = NoTxn /\ books'.txn[it.key] = [body |-> it.body, status |-> W.answers[q]]
                          /\ it.ext # NoExternal => books'.owner[it.ext] = it.key /\ books.owner[it.ext] = NoItemKey
  BY <1>0, <1>1 DEF Traced, Inserts
<1>3. /\ books' \in Books
      /\ \A a \in Purses \ LockedBy(g) : books'.balance[a] = books.balance[a] /\ books'.version[a] = books.version[a]
      /\ \A k \in ItemKeys : books'.txn[k] = books.txn[k] \/ \E q \in Made : ItemAt(g, q).key = k
      /\ \A x \in Externals : books'.owner[x] = books.owner[x] \/ \E q \in Made : ItemAt(g, q).ext = x
  BY <1>1 DEF Traced, Progress
<1>4. \A q \in Made : books'.txn[ItemAt(g, q).key] # NoTxn /\ books'.txn[ItemAt(g, q).key].body = ItemAt(g, q).body
  <2> SUFFICES ASSUME NEW q \in Made
               PROVE  books'.txn[ItemAt(g, q).key] # NoTxn /\ books'.txn[ItemAt(g, q).key].body = ItemAt(g, q).body
    OBVIOUS
  <2>1. [body |-> ItemAt(g, q).body, status |-> W.answers[q]] \in TxnType
    BY <1>0 DEF TxnType, Makes
  <2> QED BY <1>2, <2>1, BatchAssumption
<1> HIDE DEF N, Made
<1>5. ASSUME NEW k \in ItemKeys, books.txn[k] # NoTxn PROVE books'.txn[k] = books.txn[k]
  <2> SUFFICES ASSUME NEW q \in Made, ItemAt(g, q).key = k PROVE FALSE
    BY <1>3
  <2> QED BY <1>2, <1>5
<1>6. ASSUME NEW x \in Externals, books.owner[x] # NoItemKey PROVE books'.owner[x] = books.owner[x]
  <2> SUFFICES ASSUME NEW q \in Made, ItemAt(g, q).ext = x PROVE FALSE
    BY <1>3
  <2> QED BY <1>2, <1>6, BatchAssumption
<1>7. \A k \in ItemKeys : books.txn[k] = NoTxn /\ books'.txn[k] # NoTxn =>
          \E q \in Sent(g) : ItemAt(g, q).key = k /\ books'.txn[k].body = ItemAt(g, q).body
  <2>1. Made \subseteq Sent(g)
    BY DEF Made
  <2> QED BY <1>3, <1>4, <2>1
<1>8. OwnersHave(books')
  <2> SUFFICES ASSUME NEW x \in Externals, books'.owner[x] # NoItemKey PROVE books'.txn[books'.owner[x]] # NoTxn
    BY DEF OwnersHave
  <2>1. CASE books'.owner[x] = books.owner[x]
    <3>1. books.owner[x] \in ItemKeys /\ books.txn[books.owner[x]] # NoTxn
      BY <1>0, <2>1 DEF Books, OwnersHave
    <3> QED BY <1>5, <2>1, <3>1
  <2>2. CASE \E q \in Made : ItemAt(g, q).ext = x
    <3>1. PICK q \in Made : ItemAt(g, q).ext = x
      BY <2>2
    <3>2. books'.owner[x] = ItemAt(g, q).key
      BY <1>2, <3>1, BatchAssumption
    <3> QED BY <1>4, <3>2
  <2> QED BY <1>3, <2>1, <2>2
<1> QED BY <1>3, <1>5, <1>6, <1>7, <1>8

\* A commit leaves what another batch has read as current as it was.
LEMMA OthersCurrent ==
    ASSUME BatchInv, NEW g \in Groups, CommitGroup(g), NEW h \in Locking, h # g
    PROVE  Current(h, task[h].seen, books')
<1> DEFINE read == task[h].seen
<1>1. g \in Locking /\ h \in Groups /\ LockedBy(h) \cap LockedBy(g) = {} /\ LockedBy(g) \cap LockedBy(h) = {}
  BY DEF BatchInv, LocksApart, Locking, CommitGroup
<1>2. Current(h, read, books) /\ LockedBy(h) \subseteq Purses /\ \A p \in Sent(h) : ItemAt(h, p).key \in ItemKeys
  BY <1>1, LockedAre, PlacesAre DEF BatchInv, ReadsCurrent
<1>3. /\ \A a \in Purses \ LockedBy(g) : books'.balance[a] = books.balance[a] /\ books'.version[a] = books.version[a]
      /\ \A k \in ItemKeys : books.txn[k] # NoTxn => books'.txn[k] = books.txn[k]
      /\ \A x \in Externals : books.owner[x] # NoItemKey => books'.owner[x] = books.owner[x]
      /\ \A k \in ItemKeys : books.txn[k] = NoTxn /\ books'.txn[k] # NoTxn =>
             \E q \in Sent(g) : ItemAt(g, q).key = k /\ books'.txn[k].body = ItemAt(g, q).body
  BY CommitKeeps
<1> HIDE DEF read
<1>4. \A a \in LockedBy(h) : read.balance[a] = books'.balance[a] /\ read.version[a] = books'.version[a]
  BY <1>1, <1>2, <1>3 DEF Current
<1>5. \A k \in ItemKeys : read.txn[k] # NoTxn => books'.txn[k] = read.txn[k]
  BY <1>2, <1>3 DEF Current
<1>6. \A x \in Externals : read.owner[x] # NoItemKey => books'.owner[x] = read.owner[x]
  BY <1>2, <1>3 DEF Current
<1>7. ASSUME NEW p \in Sent(h), read.txn[ItemAt(h, p).key] = NoTxn, books'.txn[ItemAt(h, p).key] # NoTxn
      PROVE  books'.txn[ItemAt(h, p).key].body # ItemAt(h, p).body
  <2>1. CASE books.txn[ItemAt(h, p).key] # NoTxn
    BY <1>2, <1>3, <1>7, <2>1 DEF Current
  <2>2. CASE books.txn[ItemAt(h, p).key] = NoTxn
    <3>1. PICK q \in Sent(g) : ItemAt(g, q).key = ItemAt(h, p).key /\ books'.txn[ItemAt(h, p).key].body = ItemAt(g, q).body
      BY <1>2, <1>3, <1>7, <2>2
    <3>2. ItemAt(g, q).body # ItemAt(h, p).body
      BY <1>1, <3>1, BodiesDiffer
    <3> QED BY <3>1, <3>2
  <2> QED BY <2>1, <2>2
<1> QED BY <1>4, <1>5, <1>6, <1>7 DEF Current, read

\* The invariant is kept by a step of a batch.
LEMMA BatchInvStep ==
    ASSUME BatchInv, NEW g \in Groups, BatchStep(g)
    PROVE  BatchInv'
<1>1. /\ DOMAIN task' = Groups /\ task'[g] \in TaskOf(g)
      /\ \A h \in Groups \ {g} : task'[h] = task[h]
      /\ task'[g].step \in {"slot", "read", "external", "write"} => Sent(g) # {}
      /\ \/ books' = books /\ task'[g].step \notin {"external", "write"}
         \/ /\ task[g].step = "read" /\ \A h \in Locking : LockedBy(h) \cap LockedBy(g) = {}
            /\ task'[g].step = "external" /\ task'[g].seen = books /\ books' = books
         \/ /\ task[g].step = "external" /\ task'[g].step = "write" /\ books' = books
            /\ task'[g].seen = [task[g].seen EXCEPT !.owner = books.owner]
         \/ CommitGroup(g) /\ task'[g].step = "done"
  BY BatchMoves
<1>2. BatchTypeOK /\ LocksApart /\ ReadsCurrent /\ OwnersHave(books) /\ SentSome
  BY DEF BatchInv
<1>3. books' \in Books /\ OwnersHave(books')
  <2>1. CASE books' = books
    BY <1>2, <2>1 DEF BatchTypeOK
  <2>2. CASE CommitGroup(g)
    BY <2>2, CommitKeeps
  <2> QED BY <1>1, <2>1, <2>2
<1>4. BatchTypeOK'
  <2>1. \A h \in Groups : task'[h] \in TaskOf(h)
    BY <1>1, <1>2 DEF BatchTypeOK
  <2> QED BY <1>1, <1>3, <2>1 DEF BatchTypeOK, TaskOf, Books, Places
<1>5. SentSome'
  <2>1. \A h \in Groups : task'[h].step \in {"slot", "read", "external", "write"} => Sent(h) # {}
    BY <1>1, <1>2 DEF SentSome
  <2> QED BY <2>1 DEF SentSome, Sent, Places, ItemAt
<1>6. \A h \in Locking' : h \in Groups /\ (h # g => h \in Locking /\ task'[h] = task[h])
  BY <1>1 DEF Locking
<1>7. LocksApart'
  <2>1. SUFFICES ASSUME NEW h \in Locking', NEW k \in Locking', h # k PROVE LockedBy(h) \cap LockedBy(k) = {}
    BY DEF LocksApart, LockedBy, Sent, Places, ItemAt
  <2>2. CASE h # g /\ k # g
    BY <1>2, <1>6, <2>1, <2>2 DEF LocksApart
  <2>3. CASE h = g \/ k = g
    <3>1. task'[g].step \in {"external", "write"}
      BY <2>3 DEF Locking
    <3>2. CASE task[g].step = "read" /\ \A i \in Locking : LockedBy(i) \cap LockedBy(g) = {}
      BY <1>6, <2>1, <2>3, <3>2
    <3>3. CASE task[g].step = "external"
      <4>1. g \in Locking
        BY <3>3 DEF Locking
      <4> QED BY <1>2, <1>6, <2>1, <2>3, <4>1 DEF LocksApart
    <3> QED BY <1>1, <3>1, <3>2, <3>3
  <2> QED BY <2>2, <2>3
<1>8. ReadsCurrent'
  <2>1. SUFFICES ASSUME NEW h \in Locking' PROVE Current(h, task'[h].seen, books')
    BY DEF ReadsCurrent, Current, LockedBy, Sent, Places, ItemAt
  <2>2. CASE h # g
    <3>1. h \in Locking /\ task'[h] = task[h] /\ Current(h, task[h].seen, books)
      BY <1>2, <1>6, <2>1, <2>2 DEF ReadsCurrent
    <3>2. CASE books' = books
      BY <3>1, <3>2
    <3>3. CASE CommitGroup(g)
      BY <2>2, <3>1, <3>3, OthersCurrent
    <3> QED BY <1>1, <3>2, <3>3
  <2>3. CASE h = g
    <3>1. task'[g].step \in {"external", "write"}
      BY <2>1, <2>3 DEF Locking
    <3>2. CASE task'[g].seen = books /\ books' = books
      BY <2>3, <3>2 DEF Current
    <3>3. CASE task[g].step = "external" /\ books' = books /\ task'[g].seen = [task[g].seen EXCEPT !.owner = books.owner]
      <4>1. Current(g, task[g].seen, books) /\ task[g].seen \in Books
        BY <1>2, <3>3 DEF ReadsCurrent, Locking, BatchTypeOK, TaskOf
      <4>2. /\ task'[g].seen.balance = task[g].seen.balance /\ task'[g].seen.version = task[g].seen.version
            /\ task'[g].seen.txn = task[g].seen.txn /\ task'[g].seen.owner = books.owner
        BY <3>3, <4>1 DEF Books
      <4> QED BY <2>3, <3>3, <4>1, <4>2 DEF Current
    <3> QED BY <1>1, <3>1, <3>2, <3>3
  <2> QED BY <2>2, <2>3
<1> QED BY <1>3, <1>4, <1>5, <1>7, <1>8 DEF BatchInv, OwnersHave

\* It holds at first.
LEMMA BatchInvInit == ASSUME BatchInit PROVE BatchInv
<1>1. books \in Books /\ task = [g \in Groups |-> NewTask(g)]
  BY EmptyIs DEF BatchInit
<1>2. BatchTypeOK /\ \A g \in Groups : task[g].step = "new"
  BY <1>1, EmptyIs DEF BatchTypeOK
<1>3. Locking = {} /\ SentSome
  BY <1>2 DEF Locking, SentSome
<1>4. OwnersHave(books)
  BY DEF BatchInit, EmptyBooks, OwnersHave
<1> QED BY <1>2, <1>3, <1>4 DEF BatchInv, LocksApart, ReadsCurrent

\* It does not depend on anything else.
LEMMA BatchInvKept == ASSUME BatchInv, UNCHANGED batchVars PROVE BatchInv'
<1>1. books' = books /\ task' = task /\ BatchTypeOK /\ LocksApart /\ ReadsCurrent /\ OwnersHave(books) /\ SentSome
  BY DEF BatchInv, batchVars
<1>2. Locking' = Locking
  BY <1>1 DEF Locking
<1>3. BatchTypeOK'
  BY <1>1 DEF BatchTypeOK, TaskOf, Books, Places
<1>4. LocksApart'
  BY <1>1, <1>2 DEF LocksApart, LockedBy, Sent, Places, ItemAt
<1>5. ReadsCurrent'
  BY <1>1, <1>2 DEF ReadsCurrent, Current, LockedBy, Sent, Places, ItemAt
<1>6. SentSome' /\ OwnersHave(books')
  BY <1>1 DEF SentSome, Sent, Places, ItemAt
<1> QED BY <1>3, <1>4, <1>5, <1>6 DEF BatchInv, OwnersHave

-------------------------------------------------------------------------------
(***************************************************************************)
(* Batches: BatchIsSerial, one step at a time.                             *)
(***************************************************************************)

\* What BatchIsSerial says of one batch.
Serial(g) ==
    LET answers == task'[g].answers
        now     == OneByOne(g, books)
        read    == OneByOne(g, task[g].seen)
        good(s) == {p \in Places(g) : s[p] \in Succeeded}
    IN  task[g].step = "write" /\ task'[g].step = "done" =>
            IF \A p \in Places(g) : answers[p] = "failed" THEN books' = books
            ELSE IF GroupOf[g].kind = "atomic" /\ Errs(read.answers, g) # {}
            THEN books' = books /\ good(answers) = {}
            ELSE /\ books' = now.books
                 /\ answers = read.answers
                 /\ good(answers) = good(now.answers)

\* Every step of a batch is serial: a commit by CommitIs; an abort and the last failed retry
\* write nothing, and answer no success.
LEMMA SerialStep ==
    ASSUME BatchInv, NEW g \in Groups, BatchStep(g), NEW h \in Groups
    PROVE  Serial(h)
<1>0. BatchTypeOK /\ task[g].seen \in Books /\ task[g].answers \in [Places(g) -> Verdicts]
  BY DEF BatchInv, BatchTypeOK, TaskOf
<1>1. CASE h # g
  <2>1. task'[h] = task[h]
    BY <1>1, BatchMoves
  <2> QED BY <2>1 DEF Serial
<1>2. CASE h = g /\ CommitGroup(g)
  <2> DEFINE S == OneByOne(g, task[g].seen)
             W == OneByOne(g, books)
  <2>1. /\ books' = W.books
        /\ Answered(g, S.answers)
        /\ \A p \in Places(g) : S.answers[p] = W.answers[p] \/ (S.answers[p] \notin Succeeded /\ W.answers[p] \notin Succeeded)
        /\ S.answers \in [Places(g) -> Verdicts]
        /\ \E p \in Places(g) : S.answers[p] # "failed"
        /\ ~(GroupOf[g].kind = "atomic" /\ Errs(S.answers, g) # {})
    BY <1>2, CommitIs
  <2> HIDE DEF S, W
  <2>2. task'[g].answers = S.answers
    BY <1>0, <2>1, AnsweredIs
  <2>3. {p \in Places(g) : S.answers[p] \in Succeeded} = {p \in Places(g) : W.answers[p] \in Succeeded}
    BY <2>1
  <2> QED BY <1>2, <2>1, <2>2, <2>3 DEF Serial, S, W
<1>3. CASE h = g /\ AbortGroup(g)
  <2> DEFINE m == Resolved(g, task[g].seen)
             S == OneByOne(g, task[g].seen)
  <2>1. Answered(g, Aborted(g, m)) /\ books' = books /\ Fails(g, m)
    BY <1>3 DEF AbortGroup
  <2>2. m.answers = S.answers
    BY <1>0, ResolvedIs
  <2>3. S.answers \in [Places(g) -> Verdicts]
    <3>1. Traced(g, task[g].seen, S, Len(GroupOf[g].items))
      BY <1>0, PlacesAre, PostingTraced DEF OneByOne
    <3> QED BY <3>1 DEF Traced, Progress
  <2> HIDE DEF m, S
  <2>4. Aborted(g, m) \in [Places(g) -> Verdicts]
    BY <2>2, <2>3 DEF Aborted, Verdicts
  <2>5. task'[g].answers = Aborted(g, m)
    BY <1>0, <2>1, <2>4, AnsweredIs
  <2>6. Min(Errs(m.answers, g)) \in Errs(m.answers, g)
    <3>1. Errs(m.answers, g) \in SUBSET Nat
      BY PlacesAre DEF Errs
    <3> QED BY <2>1, <3>1, LeastOf DEF Fails
  <2>7. \A p \in Places(g) : Aborted(g, m)[p] \notin Succeeded
    <3>1. m.answers[Min(Errs(m.answers, g))] \notin Succeeded
      BY <2>6 DEF Errs
    <3>2. "aborted" \notin Succeeded
      BY DEF Succeeded
    <3> QED BY <3>1, <3>2 DEF Aborted
  <2>8. GroupOf[g].kind = "atomic" /\ Errs(S.answers, g) # {} /\ {p \in Places(g) : task'[g].answers[p] \in Succeeded} = {}
    BY <2>1, <2>2, <2>5, <2>7 DEF Fails
  <2> QED BY <1>3, <2>1, <2>8 DEF Serial, S
<1>4. CASE h = g /\ RetryGroup(g)
  <2>1. books' = books
    BY <1>4 DEF RetryGroup
  <2>2. CASE task[g].attempts + 1 < GroupAttempts
    <3>1. task' = [task EXCEPT ![g].step = "read", ![g].seen = EmptyBooks, ![g].attempts = @ + 1]
      BY <1>4, <2>2 DEF RetryGroup
    <3>2. task[g] \in TaskOf(g) /\ DOMAIN task = Groups
      BY <1>0 DEF BatchTypeOK
    <3>3. task'[g].step = "read"
      BY <3>1, <3>2 DEF TaskOf
    <3> QED BY <1>4, <3>3 DEF Serial
  <2>3. CASE ~(task[g].attempts + 1 < GroupAttempts)
    <3> DEFINE answers == [p \in Places(g) |-> "failed"]
    <3>1. Answered(g, answers)
      BY <1>4, <2>3 DEF RetryGroup
    <3>2. answers \in [Places(g) -> Verdicts] /\ \A p \in Places(g) : answers[p] = "failed"
      BY DEF Verdicts
    <3> HIDE DEF answers
    <3>3. task'[g].answers = answers
      BY <1>0, <3>1, <3>2, AnsweredIs
    <3> QED BY <1>4, <2>1, <3>2, <3>3 DEF Serial
  <2> QED BY <2>2, <2>3
<1>5. CASE task[g].step # "write" /\ h = g
  BY <1>5 DEF Serial
<1> QED BY <1>1, <1>2, <1>3, <1>4, <1>5
        DEF BatchStep, Validate, TakeSlot, SlotCanceled, ReadRows, ReadExternals

-------------------------------------------------------------------------------
(***************************************************************************)
(* Balance monitors.                                                       *)
(***************************************************************************)

\* The monitors have their types.
AlarmsTypeOK ==
    /\ DOMAIN alarm = Alarms
    /\ watching \in [Groups -> SUBSET Alarms]
    /\ alerts \in [Alarms -> Nat]

\* A batch that has read watches the monitors that are live on the accounts it has
\* locked, and no other batch watches any.
WatchesLive ==
    /\ \A g \in Groups : \A m \in watching[g] : g \in Locking /\ AlarmOf[m].purse \in LockedBy(g)
    /\ \A g \in Locking, m \in Alarms : alarm[m] = "live" /\ AlarmOf[m].purse \in LockedBy(g) => m \in watching[g]

\* The invariant of the monitors, and of the batches they watch.
MonitorsInv == BatchInv /\ AlarmsTypeOK /\ WatchesLive

\* A step of a monitor or of a batch and its monitors is one of a batch, or of none.
LEMMA BatchesMove ==
    ASSUME MonitorsStep
    PROVE  (\E g \in Groups : BatchStep(g)) \/ UNCHANGED batchVars
BY DEF MonitorsStep, BatchStep, Unwatched, ReadWatched, CommitWatched, RollBackWatched, ReadBalance, InsertMonitor, DeleteMonitor

\* The invariant of the batches is kept by every step of module Monitors.
LEMMA BatchNextInv == BatchInv /\ [MonitorsStep]_monitorVars => BatchInv'
<1> SUFFICES ASSUME BatchInv, [MonitorsStep]_monitorVars PROVE BatchInv'
  OBVIOUS
<1>1. CASE UNCHANGED batchVars
  BY <1>1, BatchInvKept
<1>2. CASE \E g \in Groups : BatchStep(g)
  BY <1>2, BatchInvStep
<1>3. UNCHANGED monitorVars => UNCHANGED batchVars
  BY DEF monitorVars
<1> QED BY <1>1, <1>2, <1>3, BatchesMove

\* Accounts locked do not change.
LEMMA LockedStays == \A g \in Groups : LockedBy(g)' = LockedBy(g)
BY DEF LockedBy, Sent, Places, ItemAt

\* A batch watches the live monitors of its accounts after each of its steps.
LEMMA WatchesStep ==
    ASSUME MonitorsInv, NEW g \in Groups, Unwatched(g) \/ ReadWatched(g) \/ CommitWatched(g) \/ RollBackWatched(g)
    PROVE  AlarmsTypeOK' /\ WatchesLive'
<1>1. AlarmsTypeOK /\ WatchesLive /\ BatchInv
  BY DEF MonitorsInv
<1>2. alarm' = alarm
  BY DEF Unwatched, ReadWatched, CommitWatched, RollBackWatched, alarmVars
<1>3. BatchStep(g)
  BY DEF BatchStep, Unwatched, ReadWatched, CommitWatched, RollBackWatched
<1>4. \A h \in Groups \ {g} : task'[h] = task[h]
  BY <1>1, <1>3, BatchMoves
<1>5. \A h \in Groups : h # g => (h \in Locking' <=> h \in Locking)
  BY <1>4 DEF Locking
<1>6. \A h \in Groups : h # g => watching'[h] = watching[h]
  BY <1>1 DEF Unwatched, ReadWatched, CommitWatched, RollBackWatched, alarmVars, AlarmsTypeOK
<1>7. \E T \in SUBSET Alarms : watching' = [watching EXCEPT ![g] = T]
  <2>1. CASE Unwatched(g)
    BY <1>1, <2>1 DEF Unwatched, alarmVars, AlarmsTypeOK
  <2>2. CASE ReadWatched(g)
    BY <2>2 DEF ReadWatched
  <2>3. CASE CommitWatched(g)
    BY <2>3 DEF CommitWatched
  <2>4. CASE RollBackWatched(g)
    BY <2>4 DEF RollBackWatched
  <2> QED BY <2>1, <2>2, <2>3, <2>4
<1>8. alerts' \in [Alarms -> Nat]
  <2>1. CASE alerts' = alerts
    BY <1>1, <2>1 DEF AlarmsTypeOK
  <2>2. CASE CommitWatched(g)
    <3> DEFINE C == Crossed(g, task[g].seen.balance, books'.balance)
    <3>1. alerts' = [m \in Alarms |-> IF m \in C THEN alerts[m] + 1 ELSE alerts[m]]
      BY <2>2 DEF CommitWatched
    <3> HIDE DEF C
    <3> QED BY <1>1, <3>1 DEF AlarmsTypeOK
  <2> QED BY <2>1, <2>2 DEF Unwatched, ReadWatched, RollBackWatched, alarmVars
<1>9. AlarmsTypeOK'
  BY <1>1, <1>2, <1>7, <1>8 DEF AlarmsTypeOK
<1>10. /\ \A m \in watching'[g] : g \in Locking' /\ AlarmOf[m].purse \in LockedBy(g)
       /\ \A m \in Alarms : g \in Locking' /\ alarm[m] = "live" /\ AlarmOf[m].purse \in LockedBy(g) => m \in watching'[g]
  <2>0. DOMAIN task = Groups /\ DOMAIN watching = Groups /\ task[g] \in TaskOf(g)
    BY <1>1 DEF BatchInv, BatchTypeOK, AlarmsTypeOK
  <2>1. CASE ReadWatched(g)
    <3>1. watching'[g] = {m \in Alarms : alarm[m] = "live" /\ AlarmOf[m].purse \in LockedBy(g)}
      BY <2>0, <2>1 DEF ReadWatched
    <3>2. task'[g].step = "external"
      BY <2>0, <2>1 DEF ReadWatched, ReadRows, TaskOf
    <3> QED BY <3>1, <3>2 DEF Locking
  <2>2. CASE CommitWatched(g) \/ RollBackWatched(g)
    <3>1. watching'[g] = {}
      BY <2>0, <2>2 DEF CommitWatched, RollBackWatched
    <3>2. task[g].step = "write"
      BY <2>2 DEF CommitWatched, RollBackWatched, CommitGroup, AbortGroup, RetryGroup
    <3>3. task'[g].step \notin {"external", "write"}
      BY <1>1, <1>3, <3>2, BatchMoves
    <3> QED BY <3>1, <3>3 DEF Locking
  <2>3. CASE Unwatched(g)
    <3>1. watching' = watching
      BY <2>3 DEF Unwatched, alarmVars
    <3>2. g \in Locking' <=> g \in Locking
      <4>1. CASE ReadExternals(g)
        <5>1. task[g].step = "external"
          BY <4>1 DEF ReadExternals
        <5>2. task'[g].step = "write"
          BY <2>0, <4>1 DEF ReadExternals, TaskOf
        <5> QED BY <5>1, <5>2 DEF Locking
      <4>2. CASE Validate(g) \/ TakeSlot(g) \/ SlotCanceled(g)
        <5>1. task[g].step \in {"new", "slot"}
          BY <4>2 DEF Validate, TakeSlot, SlotCanceled
        <5>2. task'[g].step \notin {"external", "write"}
          BY <1>1, <1>3, <5>1, BatchMoves DEF CommitGroup
        <5> QED BY <5>1, <5>2 DEF Locking
      <4> QED BY <2>3, <4>1, <4>2 DEF Unwatched
    <3> QED BY <1>1, <3>1, <3>2 DEF WatchesLive
  <2> QED BY <2>1, <2>2, <2>3
<1>11. WatchesLive'
  <2>1. ASSUME NEW h \in Groups, NEW m \in watching'[h] PROVE h \in Locking' /\ AlarmOf[m].purse \in LockedBy(h)
    BY <1>1, <1>5, <1>6, <1>10, <2>1 DEF WatchesLive
  <2>2. ASSUME NEW h \in Locking', NEW m \in Alarms, alarm'[m] = "live", AlarmOf[m].purse \in LockedBy(h)
        PROVE  m \in watching'[h]
    <3>1. h \in Groups
      BY DEF Locking
    <3> QED BY <1>1, <1>2, <1>5, <1>6, <1>10, <2>2, <3>1 DEF WatchesLive
  <2>3. Locking' \subseteq Groups
    BY DEF Locking
  <2> QED BY <2>1, <2>2, <2>3, LockedStays DEF WatchesLive
<1> QED BY <1>9, <1>11

\* The monitors' part of the invariant, when the batches stand still.
LEMMA WatchesKept ==
    ASSUME MonitorsInv, UNCHANGED <<batchVars, watching, alerts>>, DOMAIN alarm' = Alarms,
           \A g \in Locking, m \in Alarms : alarm'[m] = "live" /\ AlarmOf[m].purse \in LockedBy(g) => m \in watching[g]
    PROVE  AlarmsTypeOK' /\ WatchesLive'
<1>1. AlarmsTypeOK /\ WatchesLive /\ task' = task /\ watching' = watching /\ alerts' = alerts
  BY DEF MonitorsInv, batchVars
<1>2. Locking' = Locking
  BY <1>1 DEF Locking
<1>3. AlarmsTypeOK'
  BY <1>1 DEF AlarmsTypeOK
<1>4. \A g \in Locking : g \in Groups
  BY DEF Locking
<1>5. WatchesLive'
  BY <1>1, <1>2, <1>4, LockedStays DEF WatchesLive
<1> QED BY <1>3, <1>5

\* The invariant of the monitors holds after every step: a monitor comes to live only when no
\* batch has its account locked.
LEMMA MonitorsNextInv == MonitorsInv /\ [MonitorsStep]_monitorVars => MonitorsInv'
<1> SUFFICES ASSUME MonitorsInv, [MonitorsStep]_monitorVars PROVE MonitorsInv'
  OBVIOUS
<1>1. BatchInv'
  BY BatchNextInv DEF MonitorsInv
<1>2. AlarmsTypeOK /\ WatchesLive
  BY DEF MonitorsInv
<1>3. ASSUME NEW g \in Groups, Unwatched(g) \/ ReadWatched(g) \/ CommitWatched(g) \/ RollBackWatched(g)
      PROVE  AlarmsTypeOK' /\ WatchesLive'
  BY <1>3, WatchesStep
<1>4. ASSUME NEW m \in Alarms, ReadBalance(m) \/ InsertMonitor(m) \/ DeleteMonitor(m)
      PROVE  AlarmsTypeOK' /\ WatchesLive'
  <2>1. UNCHANGED <<batchVars, watching, alerts>>
    BY <1>4 DEF ReadBalance, InsertMonitor, DeleteMonitor
  <2>2. PICK s \in {"creating", "live", "deleted"} :
            /\ alarm' = [alarm EXCEPT ![m] = s]
            /\ s = "live" => InsertWaits(m)
    BY <1>4 DEF ReadBalance, InsertMonitor, DeleteMonitor
  <2>3. DOMAIN alarm' = Alarms
    BY <1>2, <2>2 DEF AlarmsTypeOK
  <2>4. ASSUME NEW g \in Locking, NEW n \in Alarms, alarm'[n] = "live", AlarmOf[n].purse \in LockedBy(g)
        PROVE  n \in watching[g]
    <3>1. CASE n # m
      BY <1>2, <2>2, <2>4, <3>1 DEF AlarmsTypeOK, WatchesLive
    <3>2. CASE n = m
      <4>1. s = "live"
        BY <1>2, <2>2, <2>4, <3>2 DEF AlarmsTypeOK
      <4> QED BY <2>2, <2>4, <3>2, <4>1 DEF InsertWaits
    <3> QED BY <3>1, <3>2
  <2> QED BY <2>1, <2>3, <2>4, WatchesKept
<1>5. ASSUME UNCHANGED monitorVars PROVE AlarmsTypeOK' /\ WatchesLive'
  <2>1. UNCHANGED <<batchVars, watching, alerts>> /\ alarm' = alarm
    BY <1>5 DEF monitorVars, alarmVars
  <2>2. DOMAIN alarm' = Alarms
    BY <1>2, <2>1 DEF AlarmsTypeOK
  <2>3. \A g \in Locking, m \in Alarms : alarm'[m] = "live" /\ AlarmOf[m].purse \in LockedBy(g) => m \in watching[g]
    BY <1>2, <2>1 DEF WatchesLive
  <2> QED BY <2>1, <2>2, <2>3, WatchesKept
<1>6. AlarmsTypeOK' /\ WatchesLive'
  <2>1. ASSUME MonitorsStep PROVE AlarmsTypeOK' /\ WatchesLive'
    BY <1>3, <1>4, <2>1 DEF MonitorsStep
  <2> QED BY <1>5, <2>1
<1> QED BY <1>1, <1>6 DEF MonitorsInv

\* It holds at first.
LEMMA MonitorsInitInv == ASSUME MonitorsInit PROVE MonitorsInv
<1>1. BatchInv /\ Locking = {}
  <2>1. \A g \in Groups : task[g].step = "new"
    BY EmptyIs DEF MonitorsInit, BatchInit
  <2> QED BY <2>1, BatchInvInit DEF MonitorsInit, Locking
<1> QED BY <1>1 DEF MonitorsInit, MonitorsInv, AlarmsTypeOK, WatchesLive

\* What AlertsAreCrossings says of one monitor.
Tells(m) ==
    LET crosses == ~Holds(m, books.balance) /\ Holds(m, books'.balance)
    IN  /\ alerts'[m] # alerts[m] => crosses /\ alerts'[m] = alerts[m] + 1
        /\ alarm[m] = "live" /\ crosses => alerts'[m] = alerts[m] + 1

\* A condition is about the balance of one account.
LEMMA HoldsOf ==
    ASSUME NEW m \in Alarms, NEW b, NEW c, b[AlarmOf[m].purse] = c[AlarmOf[m].purse]
    PROVE  Holds(m, b) <=> Holds(m, c)
BY DEF Holds

\* A step tells of what it makes come to hold: a commit changes accounts it has locked, and has
\* read their balances as they still are.
LEMMA TellsStep ==
    ASSUME MonitorsInv, MonitorsStep, NEW m \in Alarms
    PROVE  Tells(m)
<1>1. AlarmsTypeOK /\ WatchesLive /\ BatchInv /\ ReadsCurrent /\ AlarmOf[m].purse \in Purses
  BY AlarmAssumption DEF MonitorsInv, BatchInv
<1>2. CASE books' = books /\ alerts' = alerts
  BY <1>2 DEF Tells
<1>3. ASSUME NEW g \in Groups, CommitWatched(g) PROVE Tells(m)
  <2> DEFINE C == Crossed(g, task[g].seen.balance, books'.balance)
  <2>1. CommitGroup(g) /\ g \in Locking /\ Current(g, task[g].seen, books)
    BY <1>1, <1>3 DEF CommitWatched, CommitGroup, Locking, ReadsCurrent
  <2>2. alerts'[m] = IF m \in C THEN alerts[m] + 1 ELSE alerts[m]
    BY <1>3 DEF CommitWatched
  <2>3. CASE m \in watching[g]
    <3>1. task[g].seen.balance[AlarmOf[m].purse] = books.balance[AlarmOf[m].purse]
      BY <1>1, <2>1, <2>3 DEF WatchesLive, Current
    <3>2. Holds(m, task[g].seen.balance) <=> Holds(m, books.balance)
      BY <3>1, HoldsOf
    <3>3. m \in C <=> ~Holds(m, books.balance) /\ Holds(m, books'.balance)
      BY <2>3, <3>2 DEF Crossed
    <3> HIDE DEF C
    <3> QED BY <2>2, <3>3 DEF Tells
  <2>4. CASE m \notin watching[g]
    <3>1. alerts'[m] = alerts[m]
      BY <2>2, <2>4 DEF Crossed
    <3>2. CASE alarm[m] # "live"
      BY <3>1, <3>2 DEF Tells
    <3>3. CASE alarm[m] = "live"
      <4>1. AlarmOf[m].purse \in Purses \ LockedBy(g)
        BY <1>1, <2>1, <2>4, <3>3 DEF WatchesLive
      <4>2. books'.balance[AlarmOf[m].purse] = books.balance[AlarmOf[m].purse]
        BY <1>1, <2>1, <4>1, CommitKeeps
      <4>3. Holds(m, books'.balance) <=> Holds(m, books.balance)
        BY <4>2, HoldsOf
      <4> QED BY <3>1, <4>3 DEF Tells
    <3> QED BY <3>2, <3>3
  <2> QED BY <2>3, <2>4
<1>4. ASSUME NEW g \in Groups, Unwatched(g) \/ ReadWatched(g) \/ RollBackWatched(g) PROVE books' = books /\ alerts' = alerts
  BY <1>4 DEF Unwatched, ReadWatched, RollBackWatched, alarmVars, Validate, TakeSlot, SlotCanceled, ReadRows, ReadExternals,
              AbortGroup, RetryGroup
<1>5. ASSUME NEW n \in Alarms, ReadBalance(n) \/ InsertMonitor(n) \/ DeleteMonitor(n) PROVE books' = books /\ alerts' = alerts
  BY <1>5 DEF ReadBalance, InsertMonitor, DeleteMonitor, batchVars
<1> QED BY <1>2, <1>3, <1>4, <1>5 DEF MonitorsStep

\* The invariant of the batches and the monitors holds in the composition.
THEOREM MonitorsInvHolds == Spec => []MonitorsInv
<1>1. Init => MonitorsInv
  BY MonitorsInitInv DEF Init
<1>2. MonitorsInv /\ [Next]_vars => MonitorsInv'
  BY MonitorsNextInv, StepOfEach
<1> QED BY <1>1, <1>2, PTL DEF Spec

\* A batch writes and answers what its requests would, posted one at a time, for any requests,
\* any number of them in a batch and any number of batches at once (applyRequests,
\* resolveRequest, runRequests).
THEOREM BatchIsSerialHolds == Spec => BatchIsSerial
<1> DEFINE All == \A g \in Groups : Serial(g)
<1>1. MonitorsInv /\ [Next]_vars => [All]_batchVars
  <2> SUFFICES ASSUME MonitorsInv, [Next]_vars, ~UNCHANGED batchVars PROVE All
    OBVIOUS
  <2>1. MonitorsStep
    BY StepOfEach DEF monitorVars
  <2>2. PICK g \in Groups : BatchStep(g)
    BY <2>1, BatchesMove
  <2> QED BY <2>2, SerialStep DEF MonitorsInv
<1> HIDE DEF All
<1>2. Spec => [][All]_batchVars
  BY <1>1, MonitorsInvHolds, PTL DEF Spec
<1> QED BY <1>2, PTL DEF BatchIsSerial, All, Serial

\* A live monitor has one event when its condition comes to hold and none otherwise, for any
\* number of monitors and batches (crossed, createMonitor, queueWriteAccounts).
THEOREM AlertsAreCrossingsHolds == Spec => AlertsAreCrossings
<1> DEFINE All == \A m \in Alarms : Tells(m)
<1>1. MonitorsInv /\ [Next]_vars => [All]_monitorVars
  BY StepOfEach, TellsStep
<1> HIDE DEF All
<1>2. Spec => [][All]_monitorVars
  BY <1>1, MonitorsInvHolds, PTL DEF Spec
<1> QED BY <1>2 DEF AlertsAreCrossings, All, Tells

-------------------------------------------------------------------------------
(***************************************************************************)
(* Amounts.  A number of two words is a high part with a sign times Word,  *)
(* and a low part without; what wraps around is off by Word * Word.        *)
(***************************************************************************)

\* A product with a number that is not negative keeps an order, and keeps whole steps apart.
LEMMA Mono ==
    ASSUME NEW a \in Int, NEW b \in Int, NEW w \in Nat, a <= b
    PROVE  a * w <= b * w
OBVIOUS

LEMMA MonoUp ==
    ASSUME NEW a \in Int, NEW b \in Int, NEW w \in Nat, a < b
    PROVE  a * w + w <= b * w
<1>1. a + 1 <= b /\ a + 1 \in Int
  OBVIOUS
<1>2. (a + 1) * w <= b * w
  BY <1>1, Mono
<1>3. (a + 1) * w = a * w + w
  OBVIOUS
<1> QED BY <1>2, <1>3

\* Quotient and remainder, and that no other two numbers are.
LEMMA DivMod ==
    ASSUME NEW n \in Int, NEW w \in Nat, w > 0
    PROVE  n \div w \in Int /\ n % w \in 0 .. w - 1 /\ n = w * (n \div w) + (n % w)
OBVIOUS

LEMMA DivModIs ==
    ASSUME NEW n \in Int, NEW w \in Nat, w > 0, NEW q \in Int, NEW r \in 0 .. w - 1, n = q * w + r
    PROVE  n \div w = q /\ n % w = r
<1>1. n \div w \in Int /\ n % w \in 0 .. w - 1 /\ n = w * (n \div w) + (n % w)
  BY DivMod
<1>2. PICK p \in Int, s \in 0 .. w - 1 : p = n \div w /\ s = n % w
  BY <1>1
<1>3. q * w + r = p * w + s
  <2>1. n = w * p + s
    BY <1>1, <1>2
  <2> QED BY <2>1
<1>4. ~(q < p)
  <2> SUFFICES ASSUME q < p PROVE FALSE
    OBVIOUS
  <2>1. q * w + w <= p * w
    BY MonoUp
  <2>2. q * w \in Int /\ p * w \in Int
    OBVIOUS
  <2> QED BY <1>3, <2>1, <2>2
<1>5. ~(p < q)
  <2> SUFFICES ASSUME p < q PROVE FALSE
    OBVIOUS
  <2>1. p * w + w <= q * w
    BY MonoUp
  <2>2. q * w \in Int /\ p * w \in Int
    OBVIOUS
  <2> QED BY <1>3, <2>1, <2>2
<1>6. p = q
  BY <1>4, <1>5
<1> QED BY <1>2, <1>3, <1>6

\* The word with the sign bit alone.
Half == Word \div 2

\* The bounds of the powers: an amount is well within two words.
LEMMA WordIs ==
    /\ Word \in Nat /\ Word > 0 /\ Half \in Nat /\ Half > 0 /\ Word = 2 * Half
    /\ MaxValue \in Nat /\ MaxValue < Half * Word /\ MaxValue = Pow * Pow - 1 /\ Pow \in Nat /\ Half * Word \in Nat
    /\ Least = -(Half * Word)
<1>1. Word \in Nat /\ Pow \in Nat /\ Word % 2 = 0 /\ Radix \in Nat
  BY MoneyAssumption, PowerAssumption
<1>2. Pow < Word /\ Word < Pow * Radix /\ 2 * MaxValue < Word * Word
  BY MoneyAssumption
<1>3. MaxValue = Pow * Pow - 1
  BY PowerAssumption DEF MaxValue
<1> HIDE DEF MaxValue
<1>4. PICK w \in Nat, p \in Nat : w = Word /\ p = Pow
  BY <1>1
<1>5. p > 0
  <2> SUFFICES ASSUME p = 0 PROVE FALSE
    BY <1>4
  <2>1. p * Radix = 0
    BY <1>1
  <2> QED BY <1>2, <1>4, <2>1
<1>6. p * p \in Nat /\ p * p > 0
  BY <1>5
<1>7. MaxValue \in Nat
  BY <1>3, <1>4, <1>6
<1>8. w > 0 /\ w % 2 = 0
  BY <1>1, <1>2, <1>4
<1>9. PICK h \in Nat : h = w \div 2 /\ w = 2 * h /\ h > 0
  BY <1>8
<1>10. w * w = 2 * (h * w) /\ h * w \in Nat
  BY <1>9
<1>11. MaxValue < h * w
  BY <1>2, <1>4, <1>7, <1>10
<1>12. Least = -(h * w)
  <2>1. (w * w) \div 2 = h * w
    <3>1. PICK x \in Nat : x = h * w
      BY <1>10
    <3>2. (2 * x) \div 2 = x
      OBVIOUS
    <3> QED BY <1>10, <3>1, <3>2
  <2> QED BY <1>4, <2>1 DEF Least
<1>13. Half = h
  BY <1>4, <1>9 DEF Half
<1> QED BY <1>1, <1>3, <1>4, <1>7, <1>8, <1>9, <1>10, <1>11, <1>12, <1>13

\* The word that a signed number of one word is written as.
Word2(q) == IF q < 0 THEN q + Word ELSE q

\* The numbers of one word, with and without a sign.
Signs == -Half .. Half - 1
Words == 0 .. Word - 1

\* int64 reads the number back, and only 0 is written as 0.
LEMMA Word2Is ==
    ASSUME NEW q \in Signs
    PROVE  Word2(q) \in Words /\ Signed(Word2(q)) = q /\ (Word2(q) = 0 <=> q = 0)
BY WordIs DEF Word2, Signs, Words, Signed, Half

\* What a sum of words wraps around to.
LEMMA WrapIs ==
    ASSUME NEW q \in Signs, NEW j \in Int, NEW k \in Int, k = j * Word + q
    PROVE  k % Word = Word2(q)
<1>1. Word \in Nat /\ Word > 0 /\ q \in Int /\ j * Word \in Int
  BY WordIs DEF Signs
<1>2. CASE q < 0
  <2>1. q + Word \in 0 .. Word - 1 /\ j - 1 \in Int
    BY <1>2, WordIs DEF Signs
  <2>2. (j - 1) * Word = j * Word - Word
    BY <1>1
  <2>3. k = (j - 1) * Word + (q + Word)
    BY <1>1, <2>2
  <2>4. k % Word = q + Word
    BY <1>1, <2>1, <2>3, DivModIs
  <2> QED BY <1>2, <2>4 DEF Word2
<1>3. CASE ~(q < 0)
  <2>1. q \in 0 .. Word - 1
    BY <1>3, WordIs DEF Signs
  <2>2. k % Word = q
    BY <1>1, <2>1, DivModIs
  <2> QED BY <1>3, <2>2 DEF Word2
<1> QED BY <1>2, <1>3

\* An amount of a high and a low part.
Two(q, r) == Amount(Word2(q), r)

\* Numbers of two words.
Doubles == -(Half * Word) .. Half * Word - 1

\* A number is one of two words when its high part is one of one word.
LEMMA DoubleIs ==
    ASSUME NEW q \in Int, NEW r \in Words
    PROVE  q * Word + r \in Int /\ (q \in Signs <=> q * Word + r \in Doubles)
<1>1. Word \in Nat /\ Word > 0 /\ Half \in Nat /\ r \in Int /\ q * Word \in Int /\ Half * Word \in Nat /\ 0 <= r /\ r < Word
  BY WordIs DEF Words
<1>2. q < Half => q * Word + Word <= Half * Word
  BY <1>1, MonoUp
<1>3. ~(q < Half) => Half * Word <= q * Word
  BY <1>1, Mono
<1>4. q < -Half => q * Word + Word <= (-Half) * Word
  <2>1. -Half \in Int
    BY <1>1
  <2> QED BY <1>1, <2>1, MonoUp
<1>5. ~(q < -Half) => (-Half) * Word <= q * Word
  <2>1. -Half \in Int
    BY <1>1
  <2> QED BY <1>1, <2>1, Mono
<1>6. (-Half) * Word = -(Half * Word)
  BY <1>1
<1>7. PICK x \in Int, y \in Int : x = q * Word /\ y = Half * Word
  BY <1>1
<1>8. q \in Signs <=> ~(q < -Half) /\ q < Half
  BY <1>1 DEF Signs
<1>9. x + r \in Doubles <=> -y <= x + r /\ x + r < y
  BY <1>1, <1>7 DEF Doubles
<1> QED BY <1>1, <1>2, <1>3, <1>4, <1>5, <1>6, <1>7, <1>8, <1>9

\* Encoded writes a high and a low part as they are.
LEMMA TwoIs ==
    ASSUME NEW q \in Signs, NEW r \in Words
    PROVE  Encoded(q * Word + r) = Two(q, r)
<1>1. Word \in Nat /\ Word > 0 /\ q \in Int /\ r \in 0 .. Word - 1 /\ q * Word + r \in Int
  BY WordIs DEF Signs, Words
<1>2. (q * Word + r) \div Word = q /\ (q * Word + r) % Word = r
  BY <1>1, DivModIs
<1>3. q % Word = Word2(q)
  <2>1. PICK j \in Int : q = j * Word + q
    <3>1. q = 0 * Word + q
      BY <1>1
    <3> QED BY <3>1
  <2> QED BY <1>1, <2>1, WrapIs
<1> QED BY <1>2, <1>3 DEF Encoded, Two

\* Every number of two words has its parts.
LEMMA PartsOf ==
    ASSUME NEW n \in Doubles
    PROVE  \E q \in Signs, r \in Words : n = q * Word + r /\ Encoded(n) = Two(q, r)
<1>1. n \in Int /\ Word \in Nat /\ Word > 0
  BY WordIs DEF Doubles
<1>2. n \div Word \in Int /\ n % Word \in Words /\ n = Word * (n \div Word) + (n % Word)
  BY <1>1, DivMod DEF Words
<1>3. PICK q \in Int, r \in Words : n = Word * q + r
  BY <1>2
<1>4. n = q * Word + r
  BY <1>1, <1>3 DEF Words
<1>5. q \in Signs
  BY <1>4, DoubleIs
<1> QED BY <1>4, <1>5, TwoIs

\* Sign is the sign of the number.
LEMMA SignIs ==
    ASSUME NEW n \in Doubles
    PROVE  Sign(Encoded(n)) = IF n < 0 THEN -1 ELSE IF n = 0 THEN 0 ELSE 1
<1>1. PICK q \in Signs, r \in Words : n = q * Word + r /\ Encoded(n) = Two(q, r)
  BY PartsOf
<1>2. /\ q \in Int /\ r \in Int /\ 0 <= r /\ r < Word /\ Word \in Nat /\ Word > 0 /\ q * Word \in Int
  BY WordIs DEF Signs, Words
<1>3. /\ q < 0 => q * Word + Word <= 0 * Word
      /\ 0 <= q => 0 * Word <= q * Word
      /\ 0 < q => 0 * Word + Word <= q * Word
  BY <1>2, Mono, MonoUp
<1>4. 0 * Word = 0
  BY <1>2
<1>5. PICK x \in Int : x = q * Word
  BY <1>2
<1>6. (n < 0 <=> q < 0) /\ (n = 0 <=> q = 0 /\ r = 0)
  BY <1>1, <1>2, <1>3, <1>4, <1>5
<1>7. Sign(Two(q, r)) = IF q < 0 THEN -1 ELSE IF q = 0 /\ r = 0 THEN 0 ELSE 1
  BY Word2Is DEF Sign, Two, Amount
<1> QED BY <1>1, <1>6, <1>7

\* Cmp is the order of the numbers.
LEMMA CmpIs ==
    ASSUME NEW n \in Doubles, NEW k \in Doubles
    PROVE  Cmp(Encoded(n), Encoded(k)) = IF n < k THEN -1 ELSE IF n > k THEN 1 ELSE 0
<1>1. PICK q \in Signs, r \in Words : n = q * Word + r /\ Encoded(n) = Two(q, r)
  BY PartsOf
<1>2. PICK p \in Signs, s \in Words : k = p * Word + s /\ Encoded(k) = Two(p, s)
  BY PartsOf
<1>3. /\ q \in Int /\ r \in Int /\ 0 <= r /\ r < Word /\ Word \in Nat /\ Word > 0 /\ q * Word \in Int
      /\ p \in Int /\ s \in Int /\ 0 <= s /\ s < Word /\ p * Word \in Int
  BY WordIs DEF Signs, Words
<1>4. (q < p => q * Word + Word <= p * Word) /\ (p < q => p * Word + Word <= q * Word)
  BY <1>3, MonoUp
<1>5. PICK x \in Int, y \in Int : x = q * Word /\ y = p * Word
  BY <1>3
<1>6. Cmp(Two(q, r), Two(p, s)) =
          IF q < p THEN -1 ELSE IF q > p THEN 1 ELSE IF r < s THEN -1 ELSE IF r > s THEN 1 ELSE 0
  BY <1>3, Word2Is DEF Cmp, Two, Amount
<1>7. q = p => x = y
  BY <1>5
<1>8. /\ q < p => n < k
      /\ q > p => n > k
      /\ q = p => (n < k <=> r < s) /\ (n > k <=> r > s)
  BY <1>1, <1>2, <1>3, <1>4, <1>5, <1>7
<1> QED BY <1>1, <1>2, <1>3, <1>6, <1>8

\* Neg is the negation, but of Least.
LEMMA NegIs ==
    ASSUME NEW n \in Doubles, n # Least
    PROVE  -n \in Doubles /\ Neg(Encoded(n)) = Encoded(-n)
<1>1. PICK q \in Signs, r \in Words : n = q * Word + r /\ Encoded(n) = Two(q, r)
  BY PartsOf
<1>2. /\ q \in Int /\ r \in Int /\ 0 <= r /\ r < Word /\ Word \in Nat /\ Word > 0 /\ q * Word \in Int
      /\ Half \in Nat /\ Half * Word \in Nat /\ Least = -(Half * Word) /\ n \in Int
  BY WordIs DEF Signs, Words, Doubles
<1>3. -n \in Doubles
  <2>1. PICK y \in Nat : y = Half * Word
    BY <1>2
  <2> QED BY <1>2, <2>1 DEF Doubles
<1> DEFINE p == IF r = 0 THEN -q ELSE -q - 1
           s == IF r = 0 THEN 0 ELSE Word - r
<1>4. p \in Int /\ s \in Words
  BY <1>2 DEF Words
<1>5. -n = p * Word + s
  <2>1. (-q) * Word = -(q * Word) /\ (-q - 1) * Word = -(q * Word) - Word
    BY <1>2
  <2>2. PICK x \in Int : x = q * Word
    BY <1>2
  <2> QED BY <1>1, <1>2, <2>1, <2>2
<1>6. p \in Signs
  BY <1>3, <1>4, <1>5, DoubleIs
<1>7. (0 - r) % Word = s
  <2>1. CASE r = 0
    <3>1. 0 - r = 0 * Word + 0 /\ 0 \in 0 .. Word - 1
      BY <1>2, <2>1
    <3>2. PICK j \in Int, i \in 0 .. Word - 1 : 0 - r = j * Word + i /\ i = s
      BY <2>1, <3>1
    <3> QED BY <1>2, <3>2, DivModIs
  <2>2. CASE r # 0
    <3>1. 0 - r = (-1) * Word + (Word - r) /\ Word - r \in 0 .. Word - 1
      BY <1>2, <2>2
    <3>2. PICK j \in Int, i \in 0 .. Word - 1 : 0 - r = j * Word + i /\ i = s
      BY <2>2, <3>1
    <3> QED BY <1>2, <3>2, DivModIs
  <2> QED BY <2>1, <2>2
<1>8. (0 - Word2(q) - (IF r > 0 THEN 1 ELSE 0)) % Word = Word2(p)
  <2> DEFINE k == 0 - Word2(q) - (IF r > 0 THEN 1 ELSE 0)
  <2>1. k \in Int
    BY <1>2 DEF Word2
  <2>2. PICK j \in Int : k = j * Word + p
    <3>1. CASE q < 0
      <4>1. k = (-1) * Word + p
        BY <1>2, <3>1 DEF Word2
      <4> HIDE DEF k, p
      <4> QED BY <4>1
    <3>2. CASE ~(q < 0)
      <4>1. k = 0 * Word + p
        BY <1>2, <3>2 DEF Word2
      <4> HIDE DEF k, p
      <4> QED BY <4>1
    <3> QED BY <3>1, <3>2
  <2> HIDE DEF k, p
  <2>3. k % Word = Word2(p)
    BY <1>6, <2>1, <2>2, WrapIs
  <2> QED BY <2>3 DEF k
<1>9. Neg(Two(q, r)) = Two(p, s)
  <2> HIDE DEF p, s
  <2> QED BY <1>7, <1>8 DEF Neg, Two, Amount
<1>10. Encoded(-n) = Two(p, s)
  <2> HIDE DEF p, s
  <2> QED BY <1>4, <1>5, <1>6, TwoIs
<1> QED BY <1>1, <1>3, <1>9, <1>10

\* Abs is the magnitude, but of Least.
LEMMA AbsIs ==
    ASSUME NEW n \in Doubles, n # Least
    PROVE  Abs(Encoded(n)) = Encoded(IF n < 0 THEN -n ELSE n) /\ (IF n < 0 THEN -n ELSE n) \in Doubles
<1>1. n \in Int
  BY WordIs DEF Doubles
<1> QED BY <1>1, SignIs, NegIs DEF Abs

\* MaxAmt is the greatest value, and no value is Least.
LEMMA MaxIs == MaxAmt = Encoded(MaxValue) /\ MaxValue \in Doubles /\ Values \subseteq Doubles /\ Least \notin Values
<1>1. /\ Word \in Nat /\ Word > 0 /\ Pow \in Nat /\ MaxValue \in Nat /\ MaxValue < Half * Word
      /\ MaxValue = Pow * Pow - 1 /\ Half * Word \in Nat /\ Least = -(Half * Word)
  BY WordIs
<1>2. PICK y \in Nat : y = Half * Word
  BY <1>1
<1>3. MaxValue \in Doubles /\ Values \subseteq Doubles /\ Least \notin Values
  BY <1>1, <1>2 DEF Doubles, Values
<1>4. PICK c \in Int : c = Pow * Pow /\ c > 0 /\ MaxValue = c - 1
  BY <1>1
<1>5. c \div Word \in Int /\ c % Word \in 0 .. Word - 1 /\ c = Word * (c \div Word) + (c % Word)
  BY <1>1, DivMod
<1>6. PICK h \in Int, l \in Words : h = c \div Word /\ l = c % Word /\ c = h * Word + l
  <2>1. PICK h \in Int, l \in Words : h = c \div Word /\ l = c % Word /\ c = Word * h + l
    BY <1>5 DEF Words
  <2>2. Word * h = h * Word
    BY <1>1
  <2> QED BY <2>1, <2>2
<1>7. MaxAmt = Amount((h - (IF l < 1 THEN 1 ELSE 0)) % Word, (l - 1) % Word)
  BY <1>4, <1>6 DEF MaxAmt
<1> DEFINE p == h - (IF l < 1 THEN 1 ELSE 0)
           s == IF l < 1 THEN Word - 1 ELSE l - 1
<1>8. p \in Int /\ s \in Words /\ MaxValue = p * Word + s
  <2>1. (h - 1) * Word = h * Word - Word /\ h * Word \in Int
    BY <1>1
  <2> QED BY <1>1, <1>4, <1>6, <2>1 DEF Words
<1>9. (l - 1) % Word = s
  <2>1. PICK j \in Int : l - 1 = j * Word + s
    <3>1. CASE l < 1
      <4>1. l - 1 = (-1) * Word + s
        BY <1>1, <3>1 DEF Words
      <4> HIDE DEF s
      <4> QED BY <4>1
    <3>2. CASE ~(l < 1)
      <4>1. l - 1 = 0 * Word + s
        BY <1>1, <3>2 DEF Words
      <4> HIDE DEF s
      <4> QED BY <4>1
    <3> QED BY <3>1, <3>2
  <2>2. l - 1 \in Int /\ s \in 0 .. Word - 1
    BY <1>8 DEF Words
  <2> HIDE DEF s
  <2> QED BY <1>1, <2>1, <2>2, DivModIs
<1> HIDE DEF p, s
<1>10. p \in Signs
  BY <1>3, <1>8, DoubleIs
<1>11. p % Word = Word2(p)
  <2>1. PICK j \in Int : p = j * Word + p
    <3>1. p = 0 * Word + p
      BY <1>1, <1>8
    <3> QED BY <3>1
  <2> QED BY <1>8, <1>10, <2>1, WrapIs
<1>12. MaxAmt = Two(p, s)
  BY <1>7, <1>9, <1>11 DEF Two, p
<1>13. Encoded(MaxValue) = Two(p, s)
  BY <1>8, <1>10, TwoIs
<1> QED BY <1>3, <1>12, <1>13

\* The sum that Add checks.
RawSum(a, b) == Amount((a.hi + b.hi + (a.lo + b.lo) \div Word) % Word, (a.lo + b.lo) % Word)

\* The sum of two words is a word and a carry.
LEMMA CarryIs ==
    ASSUME NEW r \in Words, NEW s \in Words
    PROVE  \E c \in Int, l \in Words : r + s = c * Word + l /\ (r + s) \div Word = c /\ (r + s) % Word = l
<1>1. Word \in Nat /\ Word > 0 /\ r + s \in Int
  BY WordIs DEF Words
<1>2. (r + s) \div Word \in Int /\ (r + s) % Word \in Words /\ r + s = Word * ((r + s) \div Word) + ((r + s) % Word)
  BY <1>1, DivMod DEF Words
<1>3. PICK c \in Int, l \in Words : r + s = Word * c + l /\ (r + s) \div Word = c /\ (r + s) % Word = l
  BY <1>2
<1>4. Word * c = c * Word
  BY <1>1
<1> QED BY <1>3, <1>4

\* The high words add up to the sum of what they stand for, up to a multiple of Word.
LEMMA HighIs ==
    ASSUME NEW q \in Signs, NEW p \in Signs, NEW c \in Int
    PROVE  \E j \in Int : Word2(q) + Word2(p) + c = j * Word + (q + p + c)
<1>1. Word \in Nat /\ q \in Int /\ p \in Int
  BY WordIs DEF Signs
<1> DEFINE i(a) == IF a < 0 THEN 1 ELSE 0
<1>2. Word2(q) = i(q) * Word + q /\ Word2(p) = i(p) * Word + p
  BY <1>1 DEF Word2
<1>3. i(q) \in Int /\ i(p) \in Int
  OBVIOUS
<1>4. PICK e \in Int, d \in Int : e = i(q) /\ d = i(p)
  BY <1>3
<1> HIDE DEF i
<1>5. Word2(q) = e * Word + q /\ Word2(p) = d * Word + p
  BY <1>2, <1>4
<1>6. (e + d) * Word = e * Word + d * Word /\ e * Word \in Int /\ d * Word \in Int
  BY <1>1, <1>4
<1>7. Word2(q) + Word2(p) + c = (e + d) * Word + (q + p + c)
  BY <1>1, <1>5, <1>6
<1> QED BY <1>7

\* Add's sum is the sum of the values, wrapped around into two words.
LEMMA RawSumIs ==
    ASSUME NEW x \in Doubles, NEW y \in Doubles, NEW m \in Int, x + y + m * (Word * Word) \in Doubles
    PROVE  RawSum(Encoded(x), Encoded(y)) = Encoded(x + y + m * (Word * Word))
<1>1. PICK q \in Signs, r \in Words : x = q * Word + r /\ Encoded(x) = Two(q, r)
  BY PartsOf
<1>2. PICK p \in Signs, s \in Words : y = p * Word + s /\ Encoded(y) = Two(p, s)
  BY PartsOf
<1>3. PICK c \in Int, l \in Words : r + s = c * Word + l /\ (r + s) \div Word = c /\ (r + s) % Word = l
  BY CarryIs
<1>4. PICK j \in Int : Word2(q) + Word2(p) + c = j * Word + (q + p + c)
  BY HighIs
<1>5. /\ q \in Int /\ p \in Int /\ r \in Int /\ s \in Int /\ l \in Int /\ Word \in Nat
      /\ q * Word \in Int /\ p * Word \in Int /\ c * Word \in Int
  BY WordIs DEF Signs, Words
<1>6. PICK t \in Int : t = q + p + c + m * Word
  BY <1>5
<1>7. x + y + m * (Word * Word) = t * Word + l
  <2>1. t * Word = q * Word + p * Word + c * Word + m * (Word * Word) /\ m * (Word * Word) \in Int
    BY <1>5, <1>6
  <2> QED BY <1>1, <1>2, <1>3, <1>5, <2>1
<1>8. t \in Signs
  BY <1>7, DoubleIs
<1>9. PICK k \in Int : k = Word2(q) + Word2(p) + c
  BY <1>4, <1>5
<1>10. k % Word = Word2(t)
  <2>1. k = (j - m) * Word + t
    <3>1. (j - m) * Word = j * Word - m * Word /\ j * Word \in Int /\ m * Word \in Int
      BY <1>5
    <3> QED BY <1>4, <1>5, <1>6, <1>9, <3>1
  <2>2. PICK i \in Int : k = i * Word + t
    BY <2>1
  <2> QED BY <1>8, <2>2, WrapIs
<1>11. RawSum(Two(q, r), Two(p, s)) = Two(t, l)
  BY <1>3, <1>9, <1>10 DEF RawSum, Two, Amount
<1>12. Encoded(t * Word + l) = Two(t, l)
  BY <1>8, TwoIs
<1> QED BY <1>1, <1>2, <1>7, <1>11, <1>12

\* What an exact result is: the amount, or that it is none.
Exact(n) == IF n \in Values THEN Encoded(n) ELSE Overflow

\* Add of two amounts: exact, or refused.
LEMMA AddIs ==
    ASSUME NEW x \in Values, NEW y \in Values, x + y # Least
    PROVE  Add(Encoded(x), Encoded(y)) = Exact(x + y)
<1>1. /\ MaxValue \in Nat /\ MaxValue < Half * Word /\ Half * Word \in Nat /\ Least = -(Half * Word)
      /\ Word * Word = 2 * (Half * Word)
  <2>1. (2 * Half) * Word = 2 * (Half * Word)
    BY WordIs
  <2> QED BY <2>1, WordIs
<1>2. PICK h \in Nat, w \in Nat : h = Half * Word /\ w = Word * Word /\ w = 2 * h
  BY <1>1
<1>3. /\ x \in Int /\ -MaxValue <= x /\ x <= MaxValue
      /\ y \in Int /\ -MaxValue <= y /\ y <= MaxValue
      /\ x \in Doubles /\ y \in Doubles
  BY <1>1, MaxIs DEF Values
<1>4. Add(Encoded(x), Encoded(y)) = Checked(Encoded(x), Encoded(y), RawSum(Encoded(x), Encoded(y)))
  BY DEF Add, RawSum
<1>5. \A z \in Int : z \in Doubles <=> -h <= z /\ z < h
  BY <1>2 DEF Doubles
<1>6. \A z \in Int : z \in Values <=> -MaxValue <= z /\ z <= MaxValue
  BY <1>1 DEF Values
<1>7. PICK u \in Int : u = x + y
  BY <1>3
<1>8. /\ Sign(Encoded(x)) = IF x < 0 THEN -1 ELSE IF x = 0 THEN 0 ELSE 1
      /\ Sign(Encoded(y)) = IF y < 0 THEN -1 ELSE IF y = 0 THEN 0 ELSE 1
  BY <1>3, SignIs
<1>9. ASSUME u \in Doubles PROVE Add(Encoded(x), Encoded(y)) = Exact(u)
  <2>1. RawSum(Encoded(x), Encoded(y)) = Encoded(u)
    <3>1. PICK m \in Int : m = 0
      OBVIOUS
    <3>2. x + y + m * (Word * Word) = u
      BY <1>2, <1>3, <1>7, <3>1
    <3> QED BY <1>3, <1>9, <3>2, RawSumIs
  <2>2. Sign(Encoded(u)) = IF u < 0 THEN -1 ELSE IF u = 0 THEN 0 ELSE 1
    BY <1>9, SignIs
  <2>3. ~(Sign(Encoded(x)) = Sign(Encoded(y)) /\ Sign(Encoded(x)) # 0 /\ Sign(Encoded(u)) # Sign(Encoded(x)))
    BY <1>3, <1>7, <1>8, <2>2
  <2>4. u # Least
    BY <1>7
  <2>5. PICK v \in Doubles : v = (IF u < 0 THEN -u ELSE u) /\ Abs(Encoded(u)) = Encoded(v)
    BY <1>9, <2>4, AbsIs
  <2>6. Cmp(Encoded(v), MaxAmt) = IF v < MaxValue THEN -1 ELSE IF v > MaxValue THEN 1 ELSE 0
    BY MaxIs, CmpIs
  <2>7. Cmp(Encoded(v), MaxAmt) > 0 <=> u \notin Values
    <3>1. v > MaxValue <=> u \notin Values
      BY <1>1, <1>6, <1>7, <2>5
    <3>2. v \in Int
      BY <1>7, <2>5
    <3> QED BY <1>1, <2>6, <3>1, <3>2
  <2> QED BY <1>4, <2>1, <2>3, <2>5, <2>7 DEF Checked, Exact
<1>10. ASSUME u \notin Doubles PROVE Add(Encoded(x), Encoded(y)) = Exact(u)
  <2>1. u \notin Values
    BY <1>10, MaxIs
  <2>2. PICK m \in Int : m = IF u >= h THEN -1 ELSE 1
    OBVIOUS
  <2>3. PICK z \in Int : z = u + m * w
    BY <1>2, <1>7, <2>2
  <2>4. z = IF u >= h THEN u - w ELSE u + w
    <3>1. (-1) * w = -w /\ 1 * w = w
      BY <1>2
    <3> QED BY <1>2, <2>2, <2>3, <3>1
  <2>5. u >= h \/ u < -h
    BY <1>5, <1>7, <1>10
  <2>6. z \in Doubles
    BY <1>1, <1>2, <1>3, <1>5, <1>7, <2>3, <2>4, <2>5
  <2>7. RawSum(Encoded(x), Encoded(y)) = Encoded(z)
    <3>1. x + y + m * (Word * Word) = z
      BY <1>2, <1>7, <2>3
    <3> QED BY <1>3, <2>6, <3>1, RawSumIs
  <2>8. Sign(Encoded(z)) = IF z < 0 THEN -1 ELSE IF z = 0 THEN 0 ELSE 1
    BY <2>6, SignIs
  <2>9. CASE u >= h
    <3>1. x > 0 /\ y > 0 /\ z < 0
      BY <1>1, <1>2, <1>3, <1>7, <2>4, <2>9
    <3>2. Sign(Encoded(x)) = 1 /\ Sign(Encoded(y)) = 1 /\ Sign(Encoded(z)) = -1
      BY <1>3, <1>8, <2>3, <2>8, <3>1
    <3> QED BY <1>4, <2>1, <2>7, <3>2 DEF Checked, Exact
  <2>10. CASE u < -h
    <3>1. x < 0 /\ y < 0 /\ ~(z < 0)
      BY <1>1, <1>2, <1>3, <1>7, <2>4, <2>10
    <3>2. Sign(Encoded(x)) = -1 /\ Sign(Encoded(y)) = -1 /\ Sign(Encoded(z)) # -1
      BY <1>3, <1>8, <2>3, <2>8, <3>1
    <3> QED BY <1>4, <2>1, <2>7, <3>2 DEF Checked, Exact
  <2> QED BY <2>5, <2>9, <2>10
<1> QED BY <1>7, <1>9, <1>10

\* Sub of two amounts: the same.
LEMMA SubIs ==
    ASSUME NEW x \in Values, NEW y \in Values, x - y # Least
    PROVE  Sub(Encoded(x), Encoded(y)) = Exact(x - y)
<1>1. MaxValue \in Nat /\ x \in Int /\ y \in Int /\ -MaxValue <= y /\ y <= MaxValue
  BY WordIs DEF Values
<1>2. -y \in Values
  BY <1>1 DEF Values
<1>3. PICK k \in Values : k = -y
  BY <1>2
<1>4. Neg(Encoded(y)) = Encoded(k)
  BY <1>3, MaxIs, NegIs
<1>5. x + k = x - y
  BY <1>1, <1>3
<1>6. Add(Encoded(x), Encoded(k)) = Exact(x + k)
  BY <1>5, AddIs
<1> QED BY <1>4, <1>5, <1>6 DEF Sub

\* MaxAmt is the greatest amount, sums and differences of amounts are exact or refused for
\* their size, and amounts compare as their values do, for words and digits of any size
\* (Add, Sub, checked, Cmp, Neg).
THEOREM ArithmeticIsExactHolds == Spec => []ArithmeticIsExact
<1> DEFINE Typed == operands \in Values \X Values
<1>1. 0 \in Values
  <2>1. MaxValue \in Nat
    BY WordIs
  <2> QED BY <2>1 DEF Values
<1>2. Init => Typed
  BY <1>1 DEF Init, MoneyInit
<1>3. Typed /\ [Next]_vars => Typed'
  BY <1>1, StepOfEach DEF MoneyStep
<1>4. Typed => ArithmeticIsExact
  <2> SUFFICES ASSUME NEW x \in Values, NEW y \in Values, operands = <<x, y>> PROVE ArithmeticIsExact
    OBVIOUS
  <2>1. operands[1] = x /\ operands[2] = y
    OBVIOUS
  <2>2. Cmp(Encoded(x), Encoded(y)) = IF x < y THEN -1 ELSE IF x > y THEN 1 ELSE 0
    BY MaxIs, CmpIs
  <2> QED BY <2>1, <2>2, MaxIs, AddIs, SubIs DEF ArithmeticIsExact, Exact
<1> QED BY <1>2, <1>3, <1>4, PTL DEF Spec

\* Big of a number of two words is the number, but of Least.
LEMMA BigIs ==
    ASSUME NEW n \in Doubles, n # Least
    PROVE  Big(Encoded(n)) = n
<1>1. PICK q \in Signs, r \in Words : n = q * Word + r /\ Encoded(n) = Two(q, r)
  BY PartsOf
<1>2. /\ q \in Int /\ -Half <= q /\ q < Half /\ r \in Int /\ 0 <= r /\ r < Word
      /\ Word \in Nat /\ Half \in Nat /\ Half > 0 /\ Word = 2 * Half /\ q * Word \in Int /\ n \in Int
  BY WordIs DEF Signs, Words, Doubles
<1>3. Signed(r) = IF r >= Half THEN r - Word ELSE r
  BY DEF Signed, Half
<1>4. Int64(Two(q, r)).n = Signed(r) /\ Int64(Two(q, r)).ok = (Word2(q) = (IF Signed(r) < 0 THEN Word - 1 ELSE 0))
  BY DEF Int64, Two, Amount
<1>5. CASE Int64(Two(q, r)).ok
  <2>1. Word2(q) = (IF Signed(r) < 0 THEN Word - 1 ELSE 0)
    BY <1>4, <1>5
  <2>2. q = IF r >= Half THEN -1 ELSE 0
    BY <1>2, <1>3, <2>1 DEF Word2
  <2>3. q * Word = IF r >= Half THEN -Word ELSE 0
    <3>1. (-1) * Word = -Word /\ 0 * Word = 0
      BY <1>2
    <3> QED BY <2>2, <3>1
  <2>4. n = Signed(r)
    BY <1>1, <1>2, <1>3, <2>3
  <2> QED BY <1>1, <1>4, <1>5, <2>4 DEF Big
<1>6. CASE ~Int64(Two(q, r)).ok
  <2>1. PICK v \in Doubles : v = (IF n < 0 THEN -n ELSE n) /\ Abs(Encoded(n)) = Encoded(v)
    BY AbsIs
  <2>2. PICK p \in Signs, s \in Words : v = p * Word + s /\ Encoded(v) = Two(p, s)
    BY PartsOf
  <2>3. v >= 0 /\ v \in Int
    BY <1>2, <2>1
  <2>4. /\ p \in Int /\ s \in Int /\ s < Word /\ p * Word \in Int
    BY <1>2, <2>2 DEF Signs, Words
  <2>5. ~(p < 0)
    <3> SUFFICES ASSUME p < 0 PROVE FALSE
      OBVIOUS
    <3>1. p * Word + Word <= 0 * Word /\ 0 * Word = 0
      BY <1>2, <2>4, MonoUp
    <3> QED BY <1>2, <2>2, <2>3, <2>4, <3>1
  <2>6. Word2(p) = p
    BY <2>5 DEF Word2
  <2>7. Abs(Two(q, r)).hi * Word + Abs(Two(q, r)).lo = v
    BY <1>1, <2>1, <2>2, <2>6 DEF Two, Amount
  <2>8. Big(Two(q, r)) = Sign(Two(q, r)) * v
    BY <1>6, <2>7 DEF Big
  <2>9. Sign(Two(q, r)) = IF n < 0 THEN -1 ELSE IF n = 0 THEN 0 ELSE 1
    BY <1>1, SignIs
  <2>10. (-1) * v = -v /\ 0 * v = 0 /\ 1 * v = v
    BY <2>3
  <2>11. Sign(Two(q, r)) * v = n
    <3>1. CASE n < 0
      BY <1>2, <2>1, <2>9, <2>10, <3>1
    <3>2. CASE n = 0
      BY <1>2, <2>1, <2>9, <2>10, <3>2
    <3>3. CASE n > 0
      BY <1>2, <2>1, <2>9, <2>10, <3>3
    <3> QED BY <1>2, <3>1, <3>2, <3>3
  <2> QED BY <1>1, <2>8, <2>11
<1> QED BY <1>5, <1>6

\* A number of one word is an amount, and NewAmount is its two words.
LEMMA NewAmountIs ==
    ASSUME NEW n \in -Half .. Half - 1
    PROVE  NewAmount(n) = Encoded(n) /\ n \in Values
<1>1. /\ n \in Int /\ -Half <= n /\ n < Half
      /\ Word \in Nat /\ Half \in Nat /\ Half > 0 /\ Word = 2 * Half
  BY WordIs
<1> DEFINE q == IF n < 0 THEN -1 ELSE 0
           r == IF n < 0 THEN n + Word ELSE n
<1>2. q \in Signs /\ r \in Words /\ q \in Int
  BY <1>1 DEF Signs, Words
<1>3. n = q * Word + r
  <2>1. (-1) * Word = -Word /\ 0 * Word = 0
    BY <1>1
  <2> QED BY <1>1, <2>1
<1>4. n % Word = r
  <2> HIDE DEF q, r
  <2> QED BY <1>1, <1>2, <1>3, DivModIs DEF Words
<1>5. Word2(q) = IF n < 0 THEN Word - 1 ELSE 0
  BY <1>1 DEF Word2
<1>6. Encoded(n) = Two(q, r)
  <2> HIDE DEF q, r
  <2> QED BY <1>2, <1>3, TwoIs
<1>7. NewAmount(n) = Encoded(n)
  <2> HIDE DEF q, r
  <2> QED BY <1>4, <1>5, <1>6 DEF NewAmount, Two
<1>8. Half <= MaxValue /\ MaxValue \in Nat
  <2>1. MaxValue = Pow * Pow - 1 /\ Pow \in Nat /\ Radix \in Nat /\ Radix <= Pow /\ Word < Pow * Radix
    BY WordIs, MoneyAssumption, PowerAssumption
  <2>2. Radix * Pow <= Pow * Pow
    BY <2>1, Mono
  <2>3. PICK a \in Int, b \in Int : a = Radix * Pow /\ b = Pow * Pow
    BY <2>1
  <2>4. Pow * Radix = a
    BY <2>1, <2>3
  <2> QED BY <1>1, <2>1, <2>2, <2>3, <2>4, WordIs
<1> QED BY <1>1, <1>7, <1>8 DEF Values

\* Every integer becomes the amount of its value, or ErrOverflow when it is none, and an
\* amount becomes the integer it stands for (AmountFromBig, Big).
THEOREM NumericsAreExact ==
    \A n \in Int : /\ AmountFromBig(n) = Exact(n)
                   /\ n \in Values => Big(Encoded(n)) = n
<1> SUFFICES ASSUME NEW n \in Int
             PROVE  AmountFromBig(n) = Exact(n) /\ (n \in Values => Big(Encoded(n)) = n)
  OBVIOUS
<1>1. n \in Values => Big(Encoded(n)) = n
  BY MaxIs, BigIs
<1>2. MaxValue \in Nat
  BY WordIs
<1>3. MaxValue \in Values
  BY <1>2 DEF Values
<1>4. Big(MaxAmt) = MaxValue
  BY <1>3, MaxIs, BigIs
<1>5. PICK v \in Int : v = IF n < 0 THEN -n ELSE n
  OBVIOUS
<1>6. v > MaxValue <=> n \notin Values
  BY <1>2, <1>5 DEF Values
<1>7. AmountFromBig(n) = IF n \in -Half .. Half - 1 THEN NewAmount(n)
                         ELSE IF v > MaxValue THEN Overflow
                         ELSE IF n < 0 THEN Neg(Encoded(v)) ELSE Encoded(v)
  BY <1>4, <1>5 DEF AmountFromBig, Encoded, Half
<1>8. CASE n \in -Half .. Half - 1
  BY <1>1, <1>7, <1>8, NewAmountIs DEF Exact
<1>9. CASE n \notin -Half .. Half - 1 /\ n \notin Values
  BY <1>1, <1>6, <1>7, <1>9 DEF Exact
<1>10. CASE n \notin -Half .. Half - 1 /\ n \in Values
  <2>1. v \in Values /\ n = IF n < 0 THEN -v ELSE v
    BY <1>2, <1>5, <1>10 DEF Values
  <2>2. v \in Doubles /\ v # Least
    BY <2>1, MaxIs
  <2>3. n < 0 => Neg(Encoded(v)) = Encoded(n)
    BY <2>1, <2>2, NegIs
  <2>4. ~(n < 0) => Encoded(v) = Encoded(n)
    BY <2>1
  <2> QED BY <1>1, <1>6, <1>7, <1>10, <2>3, <2>4 DEF Exact
<1> QED BY <1>8, <1>9, <1>10
===============================================================================
