------------------------------ MODULE JobsProofs ------------------------------
(***************************************************************************)
(* What the background jobs report, for any bulk requests, schedules,      *)
(* clients, workers and sweepers, any chunks and batches.  Fairness has no *)
(* part in it.                                                             *)
(***************************************************************************)
EXTENDS Jobs, FiniteSetTheorems, TLAPS

JournalTypeOK == journal \in [Keys -> Requests \cup {NoRequest}]

BulkRow == [status : {"absent", "pending", "processing", "completed"},
            processed : Nat, succeeded : Nat, failed : Nat, lapsed : BOOLEAN]

BulkTypeOK ==
    /\ bulk \in [Bulks -> BulkRow]
    /\ DOMAIN result = Bulks
    /\ \A b \in Bulks : result[b] \in [Items(b) -> {"pending", "succeeded", "failed"}]
    /\ announced \in [Bulks -> Nat]

\* A worker is idle, or has a chunk of a bulk request that was not completed then.
HasChunk(x) ==
    /\ x \in [bulk : Bulks, at : Nat, phase : {"post", "record"}, ok : SUBSET Nat]
    /\ x.at < Total[x.bulk]
    /\ x.ok \subseteq ChunkFrom(x.bulk, x.at)

WorkSound ==
    /\ DOMAIN work = Instances
    /\ \A w \in Instances : work[w] = Idle \/ HasChunk(work[w])

\* A bulk request is completed when all of its items are processed.
CompletedIsAll ==
    \A b \in Bulks : /\ bulk[b].processed <= Total[b]
                     /\ bulk[b].processed = Total[b] <=> bulk[b].status = "completed"

CountsInv == BulkTypeOK /\ WorkSound /\ CompletedIsAll /\ CountsAgree

\* What a worker is about to record as succeeded is posted.
WorkIsPosted ==
    \A w \in Instances : work[w] # Idle => \A i \in work[w].ok : Posted(ItemOf[work[w].bulk][i])

\* Unless two workers have worked on a bulk request at once, one of them does, and from
\* where the request is.
AloneAndCurrent ==
    \A w \in Instances : work[w] # Idle /\ work[w].bulk \notin overtaken =>
        /\ work[w].at = bulk[work[w].bulk].processed
        /\ \A v \in Instances : work[v].bulk = work[w].bulk => v = w

\* What it is about to record as failed is then not posted.
RefusedIsNotPosted ==
    \A w \in Instances : work[w].phase = "record" /\ work[w].bulk \notin overtaken =>
        \A i \in ChunkFrom(work[w].bulk, work[w].at) \ work[w].ok :
            journal[KeyOf[ItemOf[work[w].bulk][i]]] # ItemOf[work[w].bulk][i]

TruthInv == WorkIsPosted /\ AloneAndCurrent /\ RefusedIsNotPosted /\ ResultsAreTrue

SchedulesTypeOK ==
    /\ schedule \in [Scheduled -> {"absent", "scheduled"} \cup Resolved]
    /\ locked \in [Sweepers -> SUBSET Scheduled]

\* A schedule that a sweep has locked is still to be executed, and no other sweep has it.
LocksHold ==
    /\ \A i \in Sweepers : \A s \in locked[i] : schedule[s] = "scheduled"
    /\ \A i, j \in Sweepers : i # j => locked[i] \cap locked[j] = {}

SchedulesInv == SchedulesTypeOK /\ LocksHold /\ StatusIsTrue

(***************************************************************************)
(* The inductive invariant.                                                *)
(***************************************************************************)
JobsInv == JournalTypeOK /\ CountsInv /\ TruthInv /\ SchedulesInv

-------------------------------------------------------------------------------
(***************************************************************************)
(* The journal.                                                            *)
(***************************************************************************)

\* A step that posts nothing but requests of S, and replaces nothing.
PostsOnly(S) ==
    /\ JournalTypeOK'
    /\ \A k \in Keys : journal[k] # NoRequest => journal'[k] = journal[k]
    /\ \A k \in Keys : journal'[k] = journal[k] \/ journal'[k] \in S

\* What After returns: a key that is taken stays as it is, a request that succeeds is
\* posted and one that does not is not.
LEMMA AfterPosts ==
    ASSUME JournalTypeOK,
           NEW S \in SUBSET Requests, \A r, t \in S : KeyOf[r] = KeyOf[t] => r = t,
           NEW bad, journal' = After(S, bad)
    PROVE  /\ PostsOnly(S)
           /\ \A r \in S : Succeeds(r, bad) => Posted(r)'
           /\ \A r \in S : ~Succeeds(r, bad) => journal'[KeyOf[r]] # r
<1> DEFINE accepted == {r \in S : Free(r) /\ r \notin bad}
           Has(k) == \E r \in accepted : KeyOf[r] = k
           Chosen(k) == CHOOSE r \in accepted : KeyOf[r] = k
<1>1. journal' = [k \in Keys |-> IF Has(k) THEN Chosen(k) ELSE journal[k]]
  BY DEF After
<1>2. \A k \in Keys : Has(k) => Chosen(k) \in accepted /\ KeyOf[Chosen(k)] = k
  OBVIOUS
<1>3. \A r \in S : KeyOf[r] \in Keys
  BY DEF Keys
<1>4. \A k \in Keys : Has(k) => Chosen(k) \in S /\ KeyOf[Chosen(k)] = k /\ Free(Chosen(k)) /\ Chosen(k) \notin bad
  BY <1>2
<1>5. \A r \in S : Free(r) /\ r \notin bad => Has(KeyOf[r])
  OBVIOUS
<1>6. \A k \in Keys : journal'[k] = IF Has(k) THEN Chosen(k) ELSE journal[k]
  BY <1>1
<1> HIDE DEF accepted, Has, Chosen
<1>7. \A k \in Keys : Has(k) => journal[k] = NoRequest
  BY <1>4 DEF Free
<1>8. JournalTypeOK'
  <2>1. \A k \in Keys : (IF Has(k) THEN Chosen(k) ELSE journal[k]) \in Requests \cup {NoRequest}
    BY <1>4 DEF JournalTypeOK
  <2> QED BY <1>1, <2>1 DEF JournalTypeOK
<1>9. PostsOnly(S)
  BY <1>4, <1>6, <1>7, <1>8 DEF PostsOnly
<1>10. ASSUME NEW r \in S, Succeeds(r, bad) PROVE Posted(r)'
  <2>1. CASE Posted(r)
    <3>1. journal[KeyOf[r]] # NoRequest
      BY <2>1 DEF Posted, Free
    <3>2. journal'[KeyOf[r]] = journal[KeyOf[r]]
      BY <1>3, <1>9, <3>1 DEF PostsOnly
    <3> QED BY <2>1, <3>2 DEF Posted, Free
  <2>2. CASE Free(r) /\ r \notin bad
    <3>1. Chosen(KeyOf[r]) = r
      BY <1>3, <1>4, <1>5, <2>2
    <3>2. journal'[KeyOf[r]] = r
      BY <1>3, <1>5, <1>6, <2>2, <3>1
    <3>3. r # NoRequest
      BY JournalAssumption
    <3> QED BY <3>2, <3>3 DEF Posted, Free
  <2> QED BY <1>10, <2>1, <2>2 DEF Succeeds
<1>11. ASSUME NEW r \in S, ~Succeeds(r, bad) PROVE journal'[KeyOf[r]] # r
  <2>1. CASE Free(r)
    <3>1. r \in bad
      BY <1>11, <2>1 DEF Succeeds
    <3>2. ~Has(KeyOf[r])
      BY <1>3, <1>4, <3>1
    <3>3. journal'[KeyOf[r]] = NoRequest
      BY <1>3, <1>6, <2>1, <3>2 DEF Free
    <3> QED BY <3>3, JournalAssumption
  <2>2. CASE ~Free(r)
    <3>1. journal[KeyOf[r]] # r
      BY <1>11, <2>2 DEF Succeeds, Posted
    <3>2. journal'[KeyOf[r]] = journal[KeyOf[r]]
      BY <1>3, <1>9, <2>2 DEF PostsOnly, Free
    <3> QED BY <3>1, <3>2
  <2> QED BY <2>1, <2>2
<1> QED BY <1>9, <1>10, <1>11

\* What is posted stays posted, and what others post is another request.
LEMMA PostedStays ==
    ASSUME NEW S, PostsOnly(S), NEW r \in Requests
    PROVE  /\ Posted(r) => Posted(r)'
           /\ r \notin S /\ journal[KeyOf[r]] # r => journal'[KeyOf[r]] # r
<1>1. KeyOf[r] \in Keys
  BY DEF Keys
<1>2. Posted(r) => Posted(r)'
  <2> SUFFICES ASSUME Posted(r) PROVE Posted(r)'
    OBVIOUS
  <2>1. journal'[KeyOf[r]] = journal[KeyOf[r]]
    BY <1>1 DEF PostsOnly, Posted, Free
  <2> QED BY <2>1 DEF Posted, Free
<1>3. r \notin S /\ journal[KeyOf[r]] # r => journal'[KeyOf[r]] # r
  BY <1>1 DEF PostsOnly
<1> QED BY <1>2, <1>3

\* A step that leaves the journal alone posts nothing.
LEMMA NothingPosted ==
    ASSUME JournalTypeOK, UNCHANGED journal, NEW S
    PROVE  PostsOnly(S)
BY DEF JournalTypeOK, PostsOnly

-------------------------------------------------------------------------------
(***************************************************************************)
(* Bulk requests.                                                          *)
(***************************************************************************)

\* A chunk is the interval from what is processed to what will be.
LEMMA ChunkIsInterval ==
    ASSUME NEW b \in Bulks, NEW n \in Nat, n < Total[b]
    PROVE  /\ IsFiniteSet(ChunkFrom(b, n))
           /\ NextAfter(b, n) \in Nat
           /\ n < NextAfter(b, n) /\ NextAfter(b, n) <= Total[b]
           /\ \A i \in Items(b) : i \in ChunkFrom(b, n) <=> n <= i /\ i < NextAfter(b, n)
<1> DEFINE m == IF n + Chunk <= Total[b] THEN n + Chunk ELSE Total[b]
<1>1. Total[b] \in Nat /\ Chunk \in Nat /\ Chunk > 0
  BY BulkAssumption
<1>2. m \in Nat /\ n < m /\ m <= Total[b]
  BY <1>1
<1>3. ChunkFrom(b, n) = n .. m - 1
  BY <1>1 DEF ChunkFrom, Items
<1> HIDE DEF m
<1>4. IsFiniteSet(n .. m - 1) /\ Cardinality(n .. m - 1) = m - n
  <2>1. n \in Int /\ m - 1 \in Int /\ n <= m - 1
    BY <1>2
  <2>2. IsFiniteSet(n .. m - 1) /\ Cardinality(n .. m - 1) = (m - 1) - n + 1
    BY <2>1, FS_Interval
  <2> QED BY <1>2, <2>2
<1>5. NextAfter(b, n) = m
  BY <1>2, <1>3, <1>4 DEF NextAfter
<1>6. \A i \in Items(b) : i \in n .. m - 1 <=> n <= i /\ i < m
  BY <1>1, <1>2 DEF Items
<1> QED BY <1>2, <1>3, <1>4, <1>5, <1>6

\* A worker that is not idle has a chunk.
LEMMA WorkerHasChunk ==
    ASSUME CountsInv, NEW w \in Instances, work[w].phase # "idle"
    PROVE  work[w] # Idle /\ HasChunk(work[w])
BY DEF CountsInv, WorkSound, Idle

\* Items that get a verdict are added to those that have it.
LEMMA TallyGrows ==
    ASSUME NEW b \in Bulks, NEW A \in SUBSET Items(b), NEW B \in SUBSET Items(b), A \cap B = {}
    PROVE  /\ Cardinality(A) \in Nat /\ Cardinality(B) \in Nat
           /\ Cardinality(A \cup B) = Cardinality(A) + Cardinality(B)
<1>1. IsFiniteSet(Items(b))
  BY BulkAssumption, FS_Interval DEF Items
<1>2. IsFiniteSet(A) /\ IsFiniteSet(B)
  BY <1>1, FS_Subset
<1>3. Cardinality(A) \in Nat /\ Cardinality(B) \in Nat
  BY <1>2, FS_CardinalityType
<1>4. Cardinality(A \cup B) = Cardinality(A) + Cardinality(B) - Cardinality(A \cap B)
  BY <1>2, FS_Union
<1>5. Cardinality(A \cap B) = 0
  BY FS_EmptySet
<1> QED BY <1>3, <1>4, <1>5

\* The record of a chunk keeps the counts true: none of its items had a result.
LEMMA RecordedCounts ==
    ASSUME CountsInv, NEW w \in Instances, work[w].phase = "record", Current(w), Recorded(w)
    PROVE  BulkTypeOK' /\ CompletedIsAll' /\ CountsAgree'
<1>1. PICK b \in Bulks, n \in Nat, ok \in SUBSET Nat :
         b = work[w].bulk /\ n = work[w].at /\ ok = work[w].ok
  BY WorkerHasChunk DEF HasChunk
<1>2. PICK next : next = NextAfter(b, n)
  OBVIOUS
<1>3. PICK chunk : chunk = ChunkFrom(b, n)
  OBVIOUS
<1>4. n < Total[b] /\ ok \subseteq chunk /\ chunk \subseteq Items(b)
  BY <1>1, <1>3, WorkerHasChunk DEF HasChunk, ChunkFrom
<1>5. /\ next \in Nat /\ n < next /\ next <= Total[b]
      /\ \A i \in Items(b) : i \in chunk <=> n <= i /\ i < next
  BY <1>2, <1>3, <1>4, ChunkIsInterval
<1>6. bulk[b].processed = n
  BY <1>1 DEF Current
<1>7. /\ bulk' = [bulk EXCEPT ![b] =
                    [status    |-> IF next = Total[b] THEN "completed" ELSE @.status,
                     processed |-> next,
                     succeeded |-> @.succeeded + Cardinality(ok),
                     failed    |-> @.failed + Cardinality(chunk \ ok),
                     lapsed    |-> FALSE]]
      /\ result' = [result EXCEPT ![b] =
                      [i \in Items(b) |-> IF i \notin chunk THEN @[i]
                                          ELSE IF i \in ok THEN "succeeded" ELSE "failed"]]
      /\ announced' = IF next = Total[b] THEN [announced EXCEPT ![b] = @ + 1] ELSE announced
  BY <1>1, <1>2, <1>3 DEF Recorded, Completes
<1>8. /\ BulkTypeOK
      /\ CompletedIsAll
      /\ \A c \in Bulks : Tallied(c)
  BY DEF CountsInv, CountsAgree
<1>9. Total[b] \in Nat
  BY BulkAssumption
<1>10. /\ Cardinality(ok) \in Nat /\ Cardinality(chunk \ ok) \in Nat
  <2>1. ok \in SUBSET Items(b) /\ chunk \ ok \in SUBSET Items(b) /\ ok \cap (chunk \ ok) = {}
    BY <1>4
  <2> QED BY <2>1, TallyGrows
<1>11. /\ bulk'[b].processed = next
       /\ bulk'[b].succeeded = bulk[b].succeeded + Cardinality(ok)
       /\ bulk'[b].failed = bulk[b].failed + Cardinality(chunk \ ok)
       /\ bulk'[b].status = IF next = Total[b] THEN "completed" ELSE bulk[b].status
  BY <1>7, <1>8 DEF BulkTypeOK, BulkRow
<1>12. \A i \in Items(b) : result'[b][i] = IF i \notin chunk THEN result[b][i]
                                           ELSE IF i \in ok THEN "succeeded" ELSE "failed"
  BY <1>7, <1>8 DEF BulkTypeOK
<1>13. announced'[b] = IF next = Total[b] THEN announced[b] + 1 ELSE announced[b]
  BY <1>7, <1>8 DEF BulkTypeOK
<1>14. \A c \in Bulks : c # b => bulk'[c] = bulk[c] /\ result'[c] = result[c] /\ announced'[c] = announced[c]
  BY <1>7, <1>8 DEF BulkTypeOK
<1>15. BulkTypeOK'
  <2>1. bulk' \in [Bulks -> BulkRow]
    BY <1>5, <1>7, <1>8, <1>10 DEF BulkTypeOK, BulkRow
  <2>2. DOMAIN result' = Bulks
    BY <1>7, <1>8 DEF BulkTypeOK
  <2>3. result'[b] \in [Items(b) -> {"pending", "succeeded", "failed"}]
    BY <1>7, <1>8 DEF BulkTypeOK
  <2>4. \A c \in Bulks : result'[c] \in [Items(c) -> {"pending", "succeeded", "failed"}]
    BY <1>8, <1>14, <2>3 DEF BulkTypeOK
  <2>5. announced' \in [Bulks -> Nat]
    BY <1>7, <1>8 DEF BulkTypeOK
  <2> QED BY <2>1, <2>2, <2>4, <2>5 DEF BulkTypeOK
<1>16. CompletedIsAll'
  <2> SUFFICES ASSUME NEW c \in Bulks
               PROVE  /\ bulk'[c].processed <= Total[c]
                      /\ bulk'[c].processed = Total[c] <=> bulk'[c].status = "completed"
    BY DEF CompletedIsAll
  <2>1. CASE c # b
    BY <1>8, <1>14, <2>1 DEF CompletedIsAll
  <2>2. CASE c = b
    <3>1. bulk[b].status # "completed"
      BY <1>4, <1>6, <1>8, <1>9 DEF CompletedIsAll
    <3> QED BY <1>5, <1>11, <2>2, <3>1
  <2> QED BY <2>1, <2>2
<1>17. Tallied(b)'
  <2>1. Tallied(b)
    BY <1>8
  <2>2. \A i \in chunk : result[b][i] = "pending"
    <3> SUFFICES ASSUME NEW i \in chunk PROVE result[b][i] = "pending"
      OBVIOUS
    <3>1. i \in Items(b) /\ i \in Nat /\ n <= i
      BY <1>4, <1>5 DEF Items
    <3>2. ~(i < n)
      BY <3>1
    <3> QED BY <1>6, <2>1, <3>1, <3>2 DEF Tallied
  <2>3. ASSUME NEW v \in {"succeeded", "failed"}, NEW B \in SUBSET chunk,
               \A i \in chunk : result'[b][i] = v <=> i \in B
        PROVE  Cardinality({i \in Items(b) : result'[b][i] = v})
                  = Cardinality({i \in Items(b) : result[b][i] = v}) + Cardinality(B)
    <3>1. {i \in Items(b) : result'[b][i] = v} = {i \in Items(b) : result[b][i] = v} \cup B
      BY <1>4, <1>12, <2>2, <2>3
    <3>2. {i \in Items(b) : result[b][i] = v} \cap B = {}
      BY <2>2, <2>3
    <3>3. B \in SUBSET Items(b) /\ {i \in Items(b) : result[b][i] = v} \in SUBSET Items(b)
      BY <1>4
    <3> QED BY <3>1, <3>2, <3>3, TallyGrows
  <2>4. \A i \in chunk : result'[b][i] = "succeeded" <=> i \in ok
    BY <1>4, <1>12
  <2>5. \A i \in chunk : result'[b][i] = "failed" <=> i \in chunk \ ok
    BY <1>4, <1>12
  <2>6. Cardinality({i \in Items(b) : result'[b][i] = "succeeded"})
           = Cardinality({i \in Items(b) : result[b][i] = "succeeded"}) + Cardinality(ok)
    BY <1>4, <2>3, <2>4
  <2>7. Cardinality({i \in Items(b) : result'[b][i] = "failed"})
           = Cardinality({i \in Items(b) : result[b][i] = "failed"}) + Cardinality(chunk \ ok)
    BY <2>3, <2>5
  <2>8. \A i \in Items(b) : result'[b][i] # "pending" <=> i < next
    <3> SUFFICES ASSUME NEW i \in Items(b) PROVE result'[b][i] # "pending" <=> i < next
      OBVIOUS
    <3>1. i \in Nat
      BY DEF Items
    <3>2. CASE i \in chunk
      BY <1>5, <1>12, <3>2
    <3>3. CASE i \notin chunk
      <4>1. result'[b][i] = result[b][i]
        BY <1>12, <3>3
      <4>2. i < n <=> i < next
        BY <1>5, <3>1, <3>3
      <4> QED BY <1>6, <2>1, <4>1, <4>2 DEF Tallied
    <3> QED BY <3>2, <3>3
  <2>9. announced[b] = 0
    BY <1>4, <1>6, <1>9, <2>1 DEF Tallied
  <2>10. announced'[b] = IF next = Total[b] THEN 1 ELSE 0
    BY <1>13, <2>9
  <2> QED BY <1>11, <2>1, <2>6, <2>7, <2>8, <2>10 DEF Tallied
<1>18. CountsAgree'
  <2>1. ASSUME NEW c \in Bulks, c # b PROVE Tallied(c)'
    <3>1. bulk'[c] = bulk[c] /\ result'[c] = result[c] /\ announced'[c] = announced[c] /\ Tallied(c)
      BY <1>8, <1>14, <2>1
    <3>2. \A v : {i \in Items(c) : result'[c][i] = v} = {i \in Items(c) : result[c][i] = v}
      BY <3>1
    <3> QED BY <3>1, <3>2 DEF Tallied
  <2> QED BY <1>17, <2>1 DEF CountsAgree
<1> QED BY <1>15, <1>16, <1>18

\* A step that changes the status or the lease alone keeps the counts true.
LEMMA CountsKept ==
    ASSUME CountsInv, UNCHANGED <<result, announced>>, bulk' \in [Bulks -> BulkRow],
           \A c \in Bulks : /\ bulk'[c].processed = bulk[c].processed
                            /\ bulk'[c].succeeded = bulk[c].succeeded
                            /\ bulk'[c].failed = bulk[c].failed
                            /\ bulk'[c].status = "completed" <=> bulk[c].status = "completed"
    PROVE  BulkTypeOK' /\ CompletedIsAll' /\ CountsAgree'
<1>1. BulkTypeOK' /\ CompletedIsAll'
  BY DEF CountsInv, BulkTypeOK, CompletedIsAll
<1>2. ASSUME NEW c \in Bulks PROVE Tallied(c)'
  <2>1. Tallied(c)
    BY DEF CountsInv, CountsAgree
  <2>2. \A v : {i \in Items(c) : result'[c][i] = v} = {i \in Items(c) : result[c][i] = v}
    OBVIOUS
  <2> QED BY <2>1, <2>2 DEF Tallied
<1> QED BY <1>1, <1>2 DEF CountsAgree

\* The step of one worker keeps the others as they are.
LEMMA OneWorks ==
    ASSUME WorkSound, NEW w \in Instances, NEW x, work' = [work EXCEPT ![w] = x], x = Idle \/ HasChunk(x)
    PROVE  /\ WorkSound'
           /\ work'[w] = x
           /\ \A v \in Instances : v # w => work'[v] = work[v]
BY DEF WorkSound

\* A worker that goes on does so with the next chunk.
LEMMA OnwardHasChunk ==
    ASSUME CountsInv, NEW w \in Instances, work[w].phase = "record"
    PROVE  /\ Onward(w) = Idle \/ HasChunk(Onward(w))
           /\ Onward(w) # Idle => /\ Current(w)
                                  /\ Onward(w) = [bulk |-> work[w].bulk, at |-> NextAfter(work[w].bulk, work[w].at),
                                                  phase |-> "post", ok |-> {}]
<1>1. work[w].bulk \in Bulks /\ work[w].at \in Nat /\ work[w].at < Total[work[w].bulk]
  BY WorkerHasChunk DEF HasChunk
<1>2. NextAfter(work[w].bulk, work[w].at) \in Nat
  BY <1>1, ChunkIsInterval
<1>3. \/ Onward(w) = Idle
      \/ /\ Current(w)
         /\ Onward(w) = [bulk |-> work[w].bulk, at |-> NextAfter(work[w].bulk, work[w].at), phase |-> "post", ok |-> {}]
         /\ NextAfter(work[w].bulk, work[w].at) < Total[work[w].bulk]
  BY DEF Onward
<1> QED BY <1>1, <1>2, <1>3 DEF HasChunk

\* The counts agree after every step of bulk requests.
LEMMA BulkStepCounts ==
    ASSUME CountsInv, BulkStep
    PROVE  CountsInv'
<1>1. BulkTypeOK /\ WorkSound /\ CompletedIsAll /\ CountsAgree
  BY DEF CountsInv
<1>2. UNCHANGED <<bulk, result, announced>> => BulkTypeOK' /\ CompletedIsAll' /\ CountsAgree'
  <2> SUFFICES ASSUME UNCHANGED <<bulk, result, announced>> PROVE BulkTypeOK' /\ CompletedIsAll' /\ CountsAgree'
    OBVIOUS
  <2>1. bulk' \in [Bulks -> BulkRow]
    BY <1>1 DEF BulkTypeOK
  <2> QED BY <2>1, CountsKept
<1>3. UNCHANGED work => WorkSound'
  BY <1>1 DEF WorkSound
<1>4. ASSUME NEW b \in Bulks, CreateBulk(b) PROVE CountsInv'
  <2>1. bulk' = [bulk EXCEPT ![b].status = "pending"] /\ bulk[b].status = "absent"
    BY <1>4 DEF CreateBulk
  <2>2. bulk' \in [Bulks -> BulkRow]
    BY <1>1, <2>1 DEF BulkTypeOK, BulkRow
  <2>3. \A c \in Bulks : /\ bulk'[c].processed = bulk[c].processed
                         /\ bulk'[c].succeeded = bulk[c].succeeded
                         /\ bulk'[c].failed = bulk[c].failed
                         /\ bulk'[c].status = "completed" <=> bulk[c].status = "completed"
    BY <1>1, <2>1 DEF BulkTypeOK, BulkRow
  <2>4. UNCHANGED <<result, announced>> /\ UNCHANGED work
    BY <1>4 DEF CreateBulk
  <2>5. BulkTypeOK' /\ CompletedIsAll' /\ CountsAgree'
    BY <2>2, <2>3, <2>4, CountsKept
  <2> QED BY <1>3, <2>4, <2>5 DEF CountsInv
<1>5. ASSUME NEW b \in Bulks, LeaseLapses(b) PROVE CountsInv'
  <2>1. bulk' = [bulk EXCEPT ![b].lapsed = TRUE]
    BY <1>5 DEF LeaseLapses
  <2>2. bulk' \in [Bulks -> BulkRow]
    BY <1>1, <2>1 DEF BulkTypeOK, BulkRow
  <2>3. \A c \in Bulks : /\ bulk'[c].processed = bulk[c].processed
                         /\ bulk'[c].succeeded = bulk[c].succeeded
                         /\ bulk'[c].failed = bulk[c].failed
                         /\ bulk'[c].status = "completed" <=> bulk[c].status = "completed"
    BY <1>1, <2>1 DEF BulkTypeOK, BulkRow
  <2>4. UNCHANGED <<result, announced>> /\ UNCHANGED work
    BY <1>5 DEF LeaseLapses
  <2>5. BulkTypeOK' /\ CompletedIsAll' /\ CountsAgree'
    BY <2>2, <2>3, <2>4, CountsKept
  <2> QED BY <1>3, <2>4, <2>5 DEF CountsInv
<1>6. ASSUME NEW w \in Instances, NEW b \in Bulks, ClaimBulk(w, b) PROVE CountsInv'
  <2>1. bulk' = [bulk EXCEPT ![b].status = "processing", ![b].lapsed = FALSE]
    BY <1>6 DEF ClaimBulk
  <2>2. bulk[b].status # "completed"
    BY <1>6 DEF ClaimBulk, Claimable
  <2>3. bulk' \in [Bulks -> BulkRow]
    BY <1>1, <2>1 DEF BulkTypeOK, BulkRow
  <2>4. \A c \in Bulks : /\ bulk'[c].processed = bulk[c].processed
                         /\ bulk'[c].succeeded = bulk[c].succeeded
                         /\ bulk'[c].failed = bulk[c].failed
                         /\ bulk'[c].status = "completed" <=> bulk[c].status = "completed"
    BY <1>1, <2>1, <2>2 DEF BulkTypeOK, BulkRow
  <2>5. UNCHANGED <<result, announced>>
    BY <1>6 DEF ClaimBulk
  <2>6. BulkTypeOK' /\ CompletedIsAll' /\ CountsAgree'
    BY <2>3, <2>4, <2>5, CountsKept
  <2>7. PICK n \in Nat : n = bulk[b].processed
    BY <1>1 DEF BulkTypeOK, BulkRow
  <2>8. n < Total[b]
    BY <1>1, <2>2, <2>7, BulkAssumption DEF CompletedIsAll
  <2>9. HasChunk([bulk |-> b, at |-> n, phase |-> "post", ok |-> {}])
    BY <2>8 DEF HasChunk
  <2>10. work' = [work EXCEPT ![w] = [bulk |-> b, at |-> n, phase |-> "post", ok |-> {}]]
    BY <1>6, <2>7 DEF ClaimBulk
  <2>11. WorkSound'
    BY <1>1, <2>9, <2>10, OneWorks
  <2> QED BY <2>6, <2>11 DEF CountsInv
<1>7. ASSUME NEW w \in Instances, NEW bad, PostChunk(w, bad) PROVE CountsInv'
  <2>1. work[w].phase = "post" /\ HasChunk(work[w])
    BY <1>7, WorkerHasChunk DEF PostChunk
  <2>2. PICK ok : ok = {i \in ChunkFrom(work[w].bulk, work[w].at) : Succeeds(ItemOf[work[w].bulk][i], bad)}
    OBVIOUS
  <2>3. work' = [work EXCEPT ![w].phase = "record", ![w].ok = ok]
    BY <1>7, <2>2 DEF PostChunk
  <2>4. PICK x : x = [work[w] EXCEPT !.phase = "record", !.ok = ok]
    OBVIOUS
  <2>5. work' = [work EXCEPT ![w] = x]
    BY <1>1, <2>1, <2>3, <2>4 DEF WorkSound, HasChunk
  <2>6. ok \subseteq ChunkFrom(work[w].bulk, work[w].at) /\ ok \in SUBSET Nat
    BY <2>2 DEF ChunkFrom, Items
  <2>7. HasChunk(x)
    BY <2>1, <2>4, <2>6 DEF HasChunk
  <2>8. WorkSound'
    BY <1>1, <2>5, <2>7, OneWorks
  <2> QED BY <1>2, <1>7, <2>8 DEF CountsInv, PostChunk
<1>8. ASSUME NEW w \in Instances, work' = [work EXCEPT ![w] = Idle] PROVE WorkSound'
  BY <1>1, <1>8, OneWorks
<1>9. ASSUME NEW w \in Instances, NEW bad, PostChunkLost(w, bad) PROVE CountsInv'
  BY <1>2, <1>8, <1>9 DEF CountsInv, PostChunkLost
<1>10. ASSUME NEW w \in Instances, DropBulk(w) PROVE CountsInv'
  BY <1>2, <1>8, <1>10 DEF CountsInv, DropBulk
<1>11. ASSUME NEW w \in Instances, RecordChunkLost(w) PROVE CountsInv'
  BY <1>8, <1>11, RecordedCounts DEF CountsInv, RecordChunkLost
<1>12. ASSUME NEW w \in Instances, RecordChunk(w) PROVE CountsInv'
  <2>1. work[w].phase = "record" /\ work' = [work EXCEPT ![w] = Onward(w)]
    BY <1>12 DEF RecordChunk
  <2>2. PICK x : x = Onward(w)
    OBVIOUS
  <2>3. x = Idle \/ HasChunk(x)
    BY <2>1, <2>2, OnwardHasChunk
  <2>4. WorkSound'
    BY <1>1, <2>1, <2>2, <2>3, OneWorks
  <2>5. BulkTypeOK' /\ CompletedIsAll' /\ CountsAgree'
    BY <1>2, <1>12, RecordedCounts DEF RecordChunk
  <2> QED BY <2>4, <2>5 DEF CountsInv
<1> QED BY <1>4, <1>5, <1>6, <1>7, <1>9, <1>10, <1>11, <1>12 DEF BulkStep

\* The items of bulk requests are requests, and each is one item of one bulk request.
LEMMA ItemsDiffer ==
    /\ \A b \in Bulks : \A i \in Items(b) : ItemOf[b][i] \in Requests
    /\ \A b, c \in Bulks : \A i \in Items(b), j \in Items(c) : ItemOf[b][i] = ItemOf[c][j] => b = c /\ i = j
    /\ \A b \in Bulks : \A i, j \in Items(b) : KeyOf[ItemOf[b][i]] = KeyOf[ItemOf[b][j]] => i = j
<1>1. \A b \in Bulks : \A i \in Items(b) : ItemOf[b][i] \in Requests
  BY BulkAssumption DEF Items
<1>2. \A b \in Bulks : \A i, j \in Items(b) : KeyOf[ItemOf[b][i]] = KeyOf[ItemOf[b][j]] => i = j
  BY BulkAssumption DEF Items
<1>3. \A b, c \in Bulks : \A i \in Items(b), j \in Items(c) : ItemOf[b][i] = ItemOf[c][j] => b = c
  BY BulkAssumption DEF Items
<1> QED BY <1>1, <1>2, <1>3

OfItems == UNION {{ItemOf[b][i] : i \in Items(b)} : b \in Bulks}

\* What others post does not touch the results of bulk requests.
LEMMA OthersPost ==
    ASSUME CountsInv, TruthInv, UNCHANGED bulkVars, NEW S, PostsOnly(S),
           \A b \in Bulks : \A i \in Items(b) : ItemOf[b][i] \notin S
    PROVE  TruthInv'
<1>1. \A b \in Bulks : \A i \in Items(b) :
         /\ Posted(ItemOf[b][i]) => Posted(ItemOf[b][i])'
         /\ journal[KeyOf[ItemOf[b][i]]] # ItemOf[b][i] => journal'[KeyOf[ItemOf[b][i]]] # ItemOf[b][i]
  BY ItemsDiffer, PostedStays
<1>2. \A w \in Instances : work[w] # Idle =>
         /\ work[w].bulk \in Bulks
         /\ ChunkFrom(work[w].bulk, work[w].at) \subseteq Items(work[w].bulk)
         /\ work[w].ok \subseteq ChunkFrom(work[w].bulk, work[w].at)
  BY DEF CountsInv, WorkSound, HasChunk, ChunkFrom
<1>3. UNCHANGED <<bulk, result, work, announced, overtaken>>
  BY DEF bulkVars
<1>4. WorkIsPosted'
  <2> SUFFICES ASSUME NEW w \in Instances, work'[w] # Idle, NEW i \in work'[w].ok
               PROVE  Posted(ItemOf[work[w].bulk][i])'
    BY <1>3 DEF WorkIsPosted
  <2> QED BY <1>1, <1>2, <1>3 DEF TruthInv, WorkIsPosted
<1>5. AloneAndCurrent'
  BY <1>3 DEF TruthInv, AloneAndCurrent
<1>6. RefusedIsNotPosted'
  BY <1>1, <1>2, <1>3 DEF TruthInv, RefusedIsNotPosted, Idle
<1>7. ResultsAreTrue'
  BY <1>1, <1>3 DEF TruthInv, ResultsAreTrue
<1> QED BY <1>4, <1>5, <1>6, <1>7 DEF TruthInv

\* A request that is claimed while another worker has it is overtaken from then on.
LEMMA ClaimTruth ==
    ASSUME CountsInv, TruthInv, NEW w \in Instances, NEW b \in Bulks, ClaimBulk(w, b)
    PROVE  TruthInv'
<1>1. PICK n, x : n = bulk[b].processed /\ x = [bulk |-> b, at |-> n, phase |-> "post", ok |-> {}]
  OBVIOUS
<1>2. work' = [work EXCEPT ![w] = x] /\ work[w] = Idle
  BY <1>1 DEF ClaimBulk
<1>3. DOMAIN work = Instances
  BY DEF CountsInv, WorkSound
<1>4. work'[w] = x /\ \A v \in Instances : v # w => work'[v] = work[v]
  BY <1>2, <1>3
<1>5. /\ UNCHANGED <<journal, result>>
      /\ overtaken \subseteq overtaken'
      /\ (\E v \in Instances : work[v].bulk = b) => b \in overtaken'
  BY DEF ClaimBulk
<1>6. \A c \in Bulks : bulk'[c].processed = bulk[c].processed
  BY DEF ClaimBulk, CountsInv, BulkTypeOK, BulkRow
<1>7. \A v \in Instances : work[v] # Idle => work[v].bulk \in Bulks
  BY DEF CountsInv, WorkSound, HasChunk
<1>8. WorkIsPosted'
  <2> SUFFICES ASSUME NEW v \in Instances, work'[v] # Idle, NEW i \in work'[v].ok
               PROVE  Posted(ItemOf[work[v].bulk][i])'
    BY DEF WorkIsPosted
  <2>1. work'[v] = work[v]
    BY <1>1, <1>4
  <2>2. Posted(ItemOf[work[v].bulk][i])
    BY <2>1 DEF TruthInv, WorkIsPosted
  <2> QED BY <1>5, <2>1, <2>2 DEF Posted, Free
<1>9. AloneAndCurrent'
  <2> SUFFICES ASSUME NEW v \in Instances, work'[v] # Idle, work'[v].bulk \notin overtaken'
               PROVE  /\ work'[v].at = bulk'[work'[v].bulk].processed
                      /\ \A u \in Instances : work'[u].bulk = work'[v].bulk => u = v
    BY DEF AloneAndCurrent
  <2>1. CASE v = w
    <3>1. work'[v].bulk = b /\ work'[v].at = n
      BY <1>1, <1>4, <2>1
    <3> QED BY <1>1, <1>4, <1>5, <1>6, <2>1, <3>1
  <2>2. CASE v # w
    <3>1. work'[v] = work[v] /\ work[v] # Idle /\ work[v].bulk \notin overtaken /\ work[v].bulk \in Bulks
      BY <1>4, <1>5, <1>7, <2>2
    <3>2. work[v].bulk # b
      BY <1>5, <3>1
    <3>3. work[v].at = bulk[work[v].bulk].processed /\ \A u \in Instances : work[u].bulk = work[v].bulk => u = v
      BY <3>1 DEF TruthInv, AloneAndCurrent
    <3>4. work'[w].bulk = b
      BY <1>1, <1>4
    <3> QED BY <1>4, <1>6, <3>1, <3>2, <3>3, <3>4
  <2> QED BY <2>1, <2>2
<1>10. RefusedIsNotPosted'
  BY <1>1, <1>4, <1>5 DEF TruthInv, RefusedIsNotPosted
<1>11. ResultsAreTrue'
  BY <1>5 DEF TruthInv, ResultsAreTrue, Posted, Free
<1> QED BY <1>8, <1>9, <1>10, <1>11 DEF TruthInv

\* A worker that stops leaves the results as they are.
LEMMA DropTruth ==
    ASSUME CountsInv, TruthInv, NEW w \in Instances, work' = [work EXCEPT ![w] = Idle],
           UNCHANGED <<journal, bulk, result, overtaken>>
    PROVE  TruthInv'
<1>1. work'[w] = Idle /\ \A v \in Instances : v # w => work'[v] = work[v]
  BY DEF CountsInv, WorkSound
<1>2. \A v \in Instances : work[v] # Idle => work[v].bulk \in Bulks
  BY DEF CountsInv, WorkSound, HasChunk
<1>3. Idle.bulk \notin Bulks /\ Idle.phase = "idle"
  BY BulkAssumption DEF Idle
<1>4. WorkIsPosted'
  <2> SUFFICES ASSUME NEW v \in Instances, work'[v] # Idle, NEW i \in work'[v].ok
               PROVE  Posted(ItemOf[work[v].bulk][i])'
    BY DEF WorkIsPosted
  <2>1. work'[v] = work[v]
    BY <1>1
  <2>2. Posted(ItemOf[work[v].bulk][i])
    BY <2>1 DEF TruthInv, WorkIsPosted
  <2> QED BY <2>1, <2>2 DEF Posted, Free
<1>5. AloneAndCurrent'
  BY <1>1, <1>2, <1>3 DEF TruthInv, AloneAndCurrent
<1>6. RefusedIsNotPosted'
  <2> SUFFICES ASSUME NEW v \in Instances, work'[v].phase = "record", work'[v].bulk \notin overtaken',
                      NEW i \in ChunkFrom(work'[v].bulk, work'[v].at) \ work'[v].ok
               PROVE  journal'[KeyOf[ItemOf[work'[v].bulk][i]]] # ItemOf[work'[v].bulk][i]
    BY DEF RefusedIsNotPosted, ChunkFrom
  <2>1. work'[v] = work[v]
    BY <1>1, <1>3
  <2>2. /\ work[v].phase = "record" /\ work[v].bulk \notin overtaken
        /\ i \in ChunkFrom(work[v].bulk, work[v].at) \ work[v].ok
    BY <2>1
  <2>3. journal[KeyOf[ItemOf[work[v].bulk][i]]] # ItemOf[work[v].bulk][i]
    BY <2>2 DEF TruthInv, RefusedIsNotPosted
  <2> QED BY <2>1, <2>3
<1>7. ResultsAreTrue'
  BY DEF TruthInv, ResultsAreTrue, Posted, Free
<1> QED BY <1>4, <1>5, <1>6, <1>7 DEF TruthInv

\* What PostChunk posts: the chunk of one worker, whose items have keys of their own.
LEMMA ChunkPosts ==
    ASSUME JournalTypeOK, CountsInv, NEW w \in Instances, work[w].phase = "post",
           NEW bad, journal' = After(ChunkOf(w), bad),
           NEW b \in Bulks, NEW n \in Nat, b = work[w].bulk, n = work[w].at
    PROVE  /\ PostsOnly({ItemOf[b][i] : i \in ChunkFrom(b, n)})
           /\ \A i \in ChunkFrom(b, n) : Succeeds(ItemOf[b][i], bad) => Posted(ItemOf[b][i])'
           /\ \A i \in ChunkFrom(b, n) : ~Succeeds(ItemOf[b][i], bad) => journal'[KeyOf[ItemOf[b][i]]] # ItemOf[b][i]
<1>1. PICK S : S = {ItemOf[b][i] : i \in ChunkFrom(b, n)}
  OBVIOUS
<1>2. work[w] # Idle
  BY DEF Idle
<1>3. journal' = After(S, bad)
  BY <1>1, <1>2 DEF ChunkOf
<1>4. ChunkFrom(b, n) \subseteq Items(b)
  BY DEF ChunkFrom
<1>5. S \in SUBSET Requests /\ \A r, t \in S : KeyOf[r] = KeyOf[t] => r = t
  BY <1>1, <1>4, ItemsDiffer
<1>6. \A i \in ChunkFrom(b, n) : ItemOf[b][i] \in S
  BY <1>1
<1>7. /\ PostsOnly(S)
      /\ \A r \in S : Succeeds(r, bad) => Posted(r)'
      /\ \A r \in S : ~Succeeds(r, bad) => journal'[KeyOf[r]] # r
  BY <1>3, <1>5, AfterPosts
<1> QED BY <1>1, <1>6, <1>7

\* What PostChunk leaves for the record of its chunk.
Recording(x, w, bad) ==
    /\ x.bulk = work[w].bulk /\ x.at = work[w].at /\ x.phase = "record"
    /\ x.ok = {i \in ChunkFrom(work[w].bulk, work[w].at) : Succeeds(ItemOf[work[w].bulk][i], bad)}

\* A chunk that is posted is recorded as it went, by the worker that is alone with it, or
\* lost with its worker.
LEMMA PostChunkTruth ==
    ASSUME JournalTypeOK, CountsInv, TruthInv, NEW w \in Instances, work[w].phase = "post",
           NEW bad, journal' = After(ChunkOf(w), bad), UNCHANGED <<bulk, result, overtaken>>,
           NEW x, work' = [work EXCEPT ![w] = x],
           x = Idle \/ Recording(x, w, bad)
    PROVE  TruthInv'
<1>1. PICK b \in Bulks, n \in Nat : b = work[w].bulk /\ n = work[w].at /\ n < Total[b] /\ work[w] # Idle
  BY WorkerHasChunk DEF HasChunk
<1>2. PICK good : good = {i \in ChunkFrom(b, n) : Succeeds(ItemOf[b][i], bad)}
  OBVIOUS
<1>3. x = Idle \/ (x.bulk = b /\ x.at = n /\ x.phase = "record" /\ x.ok = good)
  BY <1>1, <1>2 DEF Recording
<1>4. PICK S : S = {ItemOf[b][i] : i \in ChunkFrom(b, n)}
  OBVIOUS
<1>5. /\ PostsOnly(S)
      /\ \A i \in ChunkFrom(b, n) : Succeeds(ItemOf[b][i], bad) => Posted(ItemOf[b][i])'
      /\ \A i \in ChunkFrom(b, n) : ~Succeeds(ItemOf[b][i], bad) => journal'[KeyOf[ItemOf[b][i]]] # ItemOf[b][i]
  BY <1>1, <1>4, ChunkPosts
<1>6. /\ \A i \in good : Posted(ItemOf[b][i])'
      /\ \A i \in ChunkFrom(b, n) \ good : journal'[KeyOf[ItemOf[b][i]]] # ItemOf[b][i]
  BY <1>2, <1>5
<1>7. \A c \in Bulks : \A i \in Items(c) : Posted(ItemOf[c][i]) => Posted(ItemOf[c][i])'
  BY <1>5, ItemsDiffer, PostedStays
<1>8. ChunkFrom(b, n) \subseteq Items(b)
  BY DEF ChunkFrom
<1>9. \A c \in Bulks : \A i \in Items(c) : c # b \/ i \notin ChunkFrom(b, n) => ItemOf[c][i] \notin S
  BY <1>4, <1>8, ItemsDiffer
<1>10. \A c \in Bulks : \A i \in Items(c) :
          (c # b \/ i \notin ChunkFrom(b, n)) /\ journal[KeyOf[ItemOf[c][i]]] # ItemOf[c][i]
             => journal'[KeyOf[ItemOf[c][i]]] # ItemOf[c][i]
  BY <1>5, <1>9, ItemsDiffer, PostedStays
<1>11. work'[w] = x /\ \A v \in Instances : v # w => work'[v] = work[v]
  BY DEF CountsInv, WorkSound
<1>12. \A v \in Instances : work[v] # Idle => HasChunk(work[v])
  BY DEF CountsInv, WorkSound
<1>13. Idle.bulk \notin Bulks /\ Idle.phase = "idle"
  BY BulkAssumption DEF Idle
<1>14. b \notin overtaken => /\ n = bulk[b].processed
                             /\ \A v \in Instances : work[v].bulk = b => v = w
  BY <1>1 DEF TruthInv, AloneAndCurrent
<1>15. WorkIsPosted'
  <2> SUFFICES ASSUME NEW v \in Instances, work'[v] # Idle, NEW i \in work'[v].ok
               PROVE  Posted(ItemOf[work[v].bulk][i])'
    BY DEF WorkIsPosted
  <2>1. CASE v = w
    <3>1. work'[v].bulk = b /\ work'[v].ok = good
      BY <1>3, <1>11, <2>1
    <3>2. Posted(ItemOf[b][i])'
      BY <1>6, <3>1
    <3> QED BY <3>1, <3>2 DEF Posted, Free
  <2>2. CASE v # w
    <3>1. work'[v] = work[v]
      BY <1>11, <2>2
    <3>2. PICK c \in Bulks : c = work[v].bulk /\ i \in Items(c)
      BY <1>12, <3>1 DEF HasChunk, ChunkFrom
    <3>3. Posted(ItemOf[c][i])
      BY <3>1, <3>2 DEF TruthInv, WorkIsPosted
    <3>4. Posted(ItemOf[c][i])'
      BY <1>7, <3>2, <3>3
    <3> QED BY <3>1, <3>2, <3>4 DEF Posted, Free
  <2> QED BY <2>1, <2>2
<1>16. AloneAndCurrent'
  <2> SUFFICES ASSUME NEW v \in Instances, work'[v] # Idle, work'[v].bulk \notin overtaken
               PROVE  /\ work'[v].at = bulk[work'[v].bulk].processed
                      /\ \A u \in Instances : work'[u].bulk = work'[v].bulk => u = v
    BY DEF AloneAndCurrent
  <2>1. work'[v].bulk = work[v].bulk /\ work'[v].at = work[v].at /\ work[v] # Idle /\ work[v].bulk \in Bulks
    BY <1>1, <1>3, <1>11, <1>12 DEF HasChunk
  <2>2. work[v].at = bulk[work[v].bulk].processed /\ \A u \in Instances : work[u].bulk = work[v].bulk => u = v
    BY <2>1 DEF TruthInv, AloneAndCurrent
  <2>3. \A u \in Instances : work'[u].bulk = work[u].bulk \/ work'[u].bulk \notin Bulks
    BY <1>1, <1>3, <1>11, <1>13
  <2> QED BY <2>1, <2>2, <2>3
<1>17. RefusedIsNotPosted'
  <2> SUFFICES ASSUME NEW v \in Instances, work'[v].phase = "record", work'[v].bulk \notin overtaken,
                      NEW i \in ChunkFrom(work'[v].bulk, work'[v].at) \ work'[v].ok
               PROVE  journal'[KeyOf[ItemOf[work'[v].bulk][i]]] # ItemOf[work'[v].bulk][i]
    BY DEF RefusedIsNotPosted, ChunkFrom
  <2>1. CASE v = w
    <3>1. work'[v].bulk = b /\ work'[v].at = n /\ work'[v].ok = good
      BY <1>3, <1>11, <1>13, <2>1
    <3> QED BY <1>6, <3>1
  <2>2. CASE v # w
    <3>1. work'[v] = work[v] /\ work[v] # Idle
      BY <1>11, <1>13, <2>2
    <3>2. PICK c \in Bulks : c = work[v].bulk /\ i \in Items(c)
      BY <1>12, <3>1 DEF HasChunk, ChunkFrom
    <3>3. c # b
      BY <1>14, <2>2, <3>1, <3>2
    <3>4. i \in ChunkFrom(work[v].bulk, work[v].at) \ work[v].ok
      BY <3>1
    <3>5. journal[KeyOf[ItemOf[c][i]]] # ItemOf[c][i]
      BY <3>1, <3>2, <3>4 DEF TruthInv, RefusedIsNotPosted
    <3> QED BY <1>10, <3>1, <3>2, <3>3, <3>5
  <2> QED BY <2>1, <2>2
<1>18. ResultsAreTrue'
  <2> SUFFICES ASSUME NEW c \in Bulks, NEW i \in Items(c)
               PROVE  /\ result[c][i] = "succeeded" => Posted(ItemOf[c][i])'
                      /\ result[c][i] = "failed" /\ c \notin overtaken => journal'[KeyOf[ItemOf[c][i]]] # ItemOf[c][i]
    BY DEF ResultsAreTrue
  <2>1. /\ result[c][i] = "succeeded" => Posted(ItemOf[c][i])
        /\ result[c][i] = "failed" /\ c \notin overtaken => journal[KeyOf[ItemOf[c][i]]] # ItemOf[c][i]
    BY DEF TruthInv, ResultsAreTrue
  <2>2. result[c][i] = "failed" /\ c \notin overtaken => c # b \/ i \notin ChunkFrom(b, n)
    <3> SUFFICES ASSUME result[b][i] = "failed", b \notin overtaken, i \in Items(b) PROVE i \notin ChunkFrom(b, n)
      OBVIOUS
    <3>1. i < bulk[b].processed
      BY DEF CountsInv, CountsAgree, Tallied
    <3>2. i < n /\ i \in Nat
      BY <1>14, <3>1 DEF Items
    <3> QED BY <3>2 DEF ChunkFrom
  <2> QED BY <1>7, <1>10, <2>1, <2>2
<1> QED BY <1>15, <1>16, <1>17, <1>18 DEF TruthInv

\* What is recorded is what was posted and what was refused.
LEMMA RecordedTruth ==
    ASSUME CountsInv, TruthInv, NEW w \in Instances, work[w].phase = "record", Current(w), Recorded(w),
           UNCHANGED <<journal, overtaken>>, NEW x, work' = [work EXCEPT ![w] = x],
           \/ x = Idle
           \/ x = [bulk |-> work[w].bulk, at |-> NextAfter(work[w].bulk, work[w].at), phase |-> "post", ok |-> {}]
    PROVE  TruthInv'
<1>1. PICK b \in Bulks, n \in Nat, good \in SUBSET Nat :
         b = work[w].bulk /\ n = work[w].at /\ good = work[w].ok /\ work[w] # Idle
  BY WorkerHasChunk DEF HasChunk
<1>2. PICK chunk, next : chunk = ChunkFrom(b, n) /\ next = NextAfter(b, n)
  OBVIOUS
<1>3. x = Idle \/ x = [bulk |-> b, at |-> next, phase |-> "post", ok |-> {}]
  BY <1>1, <1>2
<1>4. BulkTypeOK
  BY DEF CountsInv
<1>5. bulk'[b].processed = next /\ \A c \in Bulks : c # b => bulk'[c] = bulk[c] /\ result'[c] = result[c]
  BY <1>1, <1>2, <1>4 DEF Recorded, BulkTypeOK
<1>6. \A i \in Items(b) : result'[b][i] = IF i \notin chunk THEN result[b][i]
                                          ELSE IF i \in good THEN "succeeded" ELSE "failed"
  BY <1>1, <1>2, <1>4 DEF Recorded, BulkTypeOK
<1>7. work'[w] = x /\ \A v \in Instances : v # w => work'[v] = work[v]
  BY DEF CountsInv, WorkSound
<1>8. Idle.bulk \notin Bulks /\ Idle.phase = "idle"
  BY BulkAssumption DEF Idle
<1>9. \A v \in Instances : work[v] # Idle => work[v].bulk \in Bulks
  BY DEF CountsInv, WorkSound, HasChunk
<1>10. \A i \in good : Posted(ItemOf[b][i])
  BY <1>1 DEF TruthInv, WorkIsPosted
<1>11. b \notin overtaken => \A i \in chunk \ good : journal[KeyOf[ItemOf[b][i]]] # ItemOf[b][i]
  BY <1>1, <1>2 DEF TruthInv, RefusedIsNotPosted
<1>12. b \notin overtaken => \A v \in Instances : work[v].bulk = b => v = w
  BY <1>1 DEF TruthInv, AloneAndCurrent
<1>13. WorkIsPosted'
  <2> SUFFICES ASSUME NEW v \in Instances, work'[v] # Idle, NEW i \in work'[v].ok
               PROVE  Posted(ItemOf[work[v].bulk][i])'
    BY DEF WorkIsPosted
  <2>1. work'[v] = work[v]
    BY <1>3, <1>7
  <2>2. Posted(ItemOf[work[v].bulk][i])
    BY <2>1 DEF TruthInv, WorkIsPosted
  <2> QED BY <2>1, <2>2 DEF Posted, Free
<1>14. AloneAndCurrent'
  <2> SUFFICES ASSUME NEW v \in Instances, work'[v] # Idle, work'[v].bulk \notin overtaken
               PROVE  /\ work'[v].at = bulk'[work'[v].bulk].processed
                      /\ \A u \in Instances : work'[u].bulk = work'[v].bulk => u = v
    BY DEF AloneAndCurrent
  <2>1. \A u \in Instances : work'[u].bulk = work[u].bulk \/ work'[u].bulk \notin Bulks
    BY <1>1, <1>3, <1>7, <1>8
  <2>2. CASE v = w
    <3>1. work'[v].bulk = b /\ work'[v].at = next
      BY <1>3, <1>7, <2>2
    <3> QED BY <1>5, <1>12, <2>1, <2>2, <3>1
  <2>3. CASE v # w
    <3>1. work'[v] = work[v] /\ work[v] # Idle /\ work[v].bulk \in Bulks
      BY <1>7, <1>9, <2>3
    <3>2. work[v].bulk # b
      BY <1>12, <2>3, <3>1
    <3>3. work[v].at = bulk[work[v].bulk].processed /\ \A u \in Instances : work[u].bulk = work[v].bulk => u = v
      BY <3>1 DEF TruthInv, AloneAndCurrent
    <3> QED BY <1>5, <2>1, <3>1, <3>2, <3>3
  <2> QED BY <2>2, <2>3
<1>15. RefusedIsNotPosted'
  <2> SUFFICES ASSUME NEW v \in Instances, work'[v].phase = "record", work'[v].bulk \notin overtaken,
                      NEW i \in ChunkFrom(work'[v].bulk, work'[v].at) \ work'[v].ok
               PROVE  journal[KeyOf[ItemOf[work'[v].bulk][i]]] # ItemOf[work'[v].bulk][i]
    BY DEF RefusedIsNotPosted, ChunkFrom
  <2>1. work'[v] = work[v]
    BY <1>3, <1>7, <1>8
  <2>2. /\ work[v].phase = "record" /\ work[v].bulk \notin overtaken
        /\ i \in ChunkFrom(work[v].bulk, work[v].at) \ work[v].ok
    BY <2>1
  <2>3. journal[KeyOf[ItemOf[work[v].bulk][i]]] # ItemOf[work[v].bulk][i]
    BY <2>2 DEF TruthInv, RefusedIsNotPosted
  <2> QED BY <2>1, <2>3
<1>16. ResultsAreTrue'
  <2> SUFFICES ASSUME NEW c \in Bulks, NEW i \in Items(c)
               PROVE  /\ result'[c][i] = "succeeded" => Posted(ItemOf[c][i])'
                      /\ result'[c][i] = "failed" /\ c \notin overtaken => journal[KeyOf[ItemOf[c][i]]] # ItemOf[c][i]
    BY DEF ResultsAreTrue
  <2>1. /\ result[c][i] = "succeeded" => Posted(ItemOf[c][i])
        /\ result[c][i] = "failed" /\ c \notin overtaken => journal[KeyOf[ItemOf[c][i]]] # ItemOf[c][i]
    BY DEF TruthInv, ResultsAreTrue
  <2>2. Posted(ItemOf[c][i])' <=> Posted(ItemOf[c][i])
    BY DEF Posted, Free
  <2>3. CASE c = b /\ i \in chunk
    BY <1>6, <1>10, <1>11, <2>2, <2>3
  <2>4. CASE ~(c = b /\ i \in chunk)
    <3>1. result'[c][i] = result[c][i]
      BY <1>5, <1>6, <2>4
    <3> QED BY <2>1, <2>2, <3>1
  <2> QED BY <2>3, <2>4
<1> QED BY <1>13, <1>14, <1>15, <1>16 DEF TruthInv

\* The results are true after every step of bulk requests, and these post items alone.
LEMMA BulkStepTruth ==
    ASSUME JournalTypeOK, CountsInv, TruthInv, BulkStep
    PROVE  /\ TruthInv'
           /\ PostsOnly(OfItems)
<1>1. UNCHANGED journal => PostsOnly(OfItems)
  BY NothingPosted
<1>2. BulkTypeOK
  BY DEF CountsInv
<1>3. ASSUME UNCHANGED <<journal, result, work, overtaken>>,
             \A c \in Bulks : bulk'[c].processed = bulk[c].processed
      PROVE  TruthInv'
  <2>1. WorkIsPosted' /\ ResultsAreTrue' /\ RefusedIsNotPosted'
    BY <1>3 DEF TruthInv, WorkIsPosted, ResultsAreTrue, RefusedIsNotPosted, Posted, Free
  <2>2. \A w \in Instances : work[w] # Idle => work[w].bulk \in Bulks
    BY DEF CountsInv, WorkSound, HasChunk
  <2>3. AloneAndCurrent'
    BY <1>3, <2>2 DEF TruthInv, AloneAndCurrent
  <2> QED BY <2>1, <2>3 DEF TruthInv
<1>4. ASSUME NEW b \in Bulks, CreateBulk(b) \/ LeaseLapses(b) PROVE TruthInv' /\ PostsOnly(OfItems)
  <2>1. UNCHANGED <<journal, result, work, overtaken>> /\ UNCHANGED journal
    BY <1>4 DEF CreateBulk, LeaseLapses
  <2>2. \A c \in Bulks : bulk'[c].processed = bulk[c].processed
    BY <1>2, <1>4 DEF CreateBulk, LeaseLapses, BulkTypeOK, BulkRow
  <2> QED BY <1>1, <1>3, <2>1, <2>2
<1>5. ASSUME NEW w \in Instances, NEW b \in Bulks, ClaimBulk(w, b) PROVE TruthInv' /\ PostsOnly(OfItems)
  BY <1>1, <1>5, ClaimTruth DEF ClaimBulk
<1>6. ASSUME NEW w \in Instances, DropBulk(w) PROVE TruthInv' /\ PostsOnly(OfItems)
  BY <1>1, <1>6, DropTruth DEF DropBulk
<1>7. ASSUME NEW w \in Instances, RecordChunkLost(w) PROVE TruthInv' /\ PostsOnly(OfItems)
  BY <1>1, <1>7, RecordedTruth DEF RecordChunkLost
<1>8. ASSUME NEW w \in Instances, RecordChunk(w) PROVE TruthInv' /\ PostsOnly(OfItems)
  <2>1. work[w].phase = "record" /\ work' = [work EXCEPT ![w] = Onward(w)] /\ UNCHANGED <<journal, overtaken>>
    BY <1>8 DEF RecordChunk
  <2>2. PICK x : x = Onward(w)
    OBVIOUS
  <2>3. \/ x = Idle
        \/ /\ Current(w)
           /\ x = [bulk |-> work[w].bulk, at |-> NextAfter(work[w].bulk, work[w].at), phase |-> "post", ok |-> {}]
    BY <2>1, <2>2, OnwardHasChunk
  <2>4. CASE Current(w)
    <3>1. Recorded(w)
      BY <1>8, <2>4 DEF RecordChunk
    <3>2. TruthInv'
      BY <2>1, <2>2, <2>3, <2>4, <3>1, RecordedTruth
    <3> QED BY <1>1, <2>1, <3>2
  <2>5. CASE ~Current(w)
    <3>1. work' = [work EXCEPT ![w] = Idle] /\ UNCHANGED <<journal, bulk, result, overtaken>>
      BY <1>8, <2>1, <2>2, <2>3, <2>5 DEF RecordChunk
    <3> QED BY <1>1, <3>1, DropTruth
  <2> QED BY <2>4, <2>5
<1>9. ASSUME NEW w \in Instances, NEW bad, work[w].phase = "post", journal' = After(ChunkOf(w), bad)
      PROVE  PostsOnly(OfItems)
  <2>1. PICK b \in Bulks, n \in Nat : b = work[w].bulk /\ n = work[w].at
    BY <1>9, WorkerHasChunk DEF HasChunk
  <2>2. PostsOnly({ItemOf[b][i] : i \in ChunkFrom(b, n)})
    BY <1>9, <2>1, ChunkPosts
  <2>3. {ItemOf[b][i] : i \in ChunkFrom(b, n)} \subseteq OfItems
    BY DEF ChunkFrom, OfItems
  <2> QED BY <2>2, <2>3 DEF PostsOnly
<1>10. ASSUME NEW w \in Instances, NEW bad, PostChunk(w, bad) PROVE TruthInv' /\ PostsOnly(OfItems)
  <2>1. work[w].phase = "post" /\ journal' = After(ChunkOf(w), bad) /\ UNCHANGED <<bulk, result, overtaken>>
    BY <1>10 DEF PostChunk
  <2>2. HasChunk(work[w]) /\ DOMAIN work = Instances
    BY <2>1, WorkerHasChunk DEF CountsInv, WorkSound
  <2>3. PICK good : good = {i \in ChunkFrom(work[w].bulk, work[w].at) : Succeeds(ItemOf[work[w].bulk][i], bad)}
    OBVIOUS
  <2>4. PICK x : x = [work[w] EXCEPT !.phase = "record", !.ok = good]
    OBVIOUS
  <2>5. work' = [work EXCEPT ![w] = x]
    BY <1>10, <2>2, <2>3, <2>4 DEF PostChunk, HasChunk
  <2>6. Recording(x, w, bad)
    BY <2>2, <2>3, <2>4 DEF HasChunk, Recording
  <2>7. TruthInv'
    BY <2>1, <2>5, <2>6, PostChunkTruth
  <2> QED BY <1>9, <2>1, <2>7
<1>11. ASSUME NEW w \in Instances, NEW bad, PostChunkLost(w, bad) PROVE TruthInv' /\ PostsOnly(OfItems)
  <2>1. work[w].phase = "post" /\ journal' = After(ChunkOf(w), bad) /\ UNCHANGED <<bulk, result, overtaken>>
    BY <1>11 DEF PostChunkLost
  <2>2. PICK x : x = Idle /\ work' = [work EXCEPT ![w] = x]
    BY <1>11 DEF PostChunkLost
  <2>3. TruthInv'
    BY <2>1, <2>2, PostChunkTruth
  <2> QED BY <1>9, <2>1, <2>3
<1> QED BY <1>4, <1>5, <1>6, <1>7, <1>8, <1>10, <1>11 DEF BulkStep

-------------------------------------------------------------------------------
(***************************************************************************)
(* Scheduled transactions.                                                 *)
(***************************************************************************)

\* What others post leaves the status of schedules true.
LEMMA OthersKeepStatus ==
    ASSUME SchedulesInv, UNCHANGED scheduleVars, NEW S, PostsOnly(S), S \cap Scheduled = {}
    PROVE  SchedulesInv'
<1>1. UNCHANGED <<schedule, due, locked>>
  BY DEF scheduleVars
<1>2. SchedulesTypeOK' /\ LocksHold'
  BY <1>1 DEF SchedulesInv, SchedulesTypeOK, LocksHold
<1>3. StatusIsTrue'
  <2> SUFFICES ASSUME NEW s \in Scheduled
               PROVE  IF schedule[s] = "executed" THEN Posted(s)' ELSE journal'[KeyOf[s]] # s
    BY <1>1 DEF StatusIsTrue
  <2>1. s \in Requests /\ s \notin S
    BY SchedulesAssumption
  <2>2. IF schedule[s] = "executed" THEN Posted(s) ELSE journal[KeyOf[s]] # s
    BY DEF SchedulesInv, StatusIsTrue
  <2> QED BY <2>1, <2>2, PostedStays
<1> QED BY <1>2, <1>3 DEF SchedulesInv

\* A sweep executes what it has locked: the status says what was posted.
LEMMA ExecuteDueInv ==
    ASSUME JournalTypeOK, SchedulesInv, NEW i \in Sweepers, NEW bad, ExecuteDue(i, bad)
    PROVE  /\ SchedulesInv'
           /\ PostsOnly(Scheduled)
           /\ \A s \in Scheduled : schedule[s] \in Resolved => schedule'[s] = schedule[s]
<1>1. SchedulesTypeOK /\ LocksHold /\ StatusIsTrue
  BY DEF SchedulesInv
<1>2. PICK S \in SUBSET Scheduled : S = locked[i]
  BY <1>1 DEF SchedulesTypeOK
<1>3. /\ journal' = After(S, bad)
      /\ schedule' = [s \in Scheduled |-> IF s \notin S THEN schedule[s]
                                          ELSE IF Succeeds(s, bad) THEN "executed" ELSE "failed"]
      /\ locked' = [locked EXCEPT ![i] = {}]
  BY <1>2 DEF ExecuteDue
<1>4. S \in SUBSET Requests /\ \A r, t \in S : KeyOf[r] = KeyOf[t] => r = t
  BY <1>2, SchedulesAssumption
<1>5. /\ PostsOnly(S)
      /\ \A r \in S : Succeeds(r, bad) => Posted(r)'
      /\ \A r \in S : ~Succeeds(r, bad) => journal'[KeyOf[r]] # r
  BY <1>3, <1>4, AfterPosts
<1>6. \A s \in S : schedule[s] = "scheduled"
  BY <1>1, <1>2 DEF LocksHold
<1>7. \A s \in Scheduled : schedule'[s] = IF s \notin S THEN schedule[s]
                                          ELSE IF Succeeds(s, bad) THEN "executed" ELSE "failed"
  BY <1>3
<1>8. SchedulesTypeOK'
  BY <1>1, <1>3 DEF SchedulesTypeOK, Resolved
<1>9. LocksHold'
  <2>1. locked'[i] = {} /\ \A j \in Sweepers : j # i => locked'[j] = locked[j] /\ locked[j] \cap S = {}
    BY <1>1, <1>2, <1>3 DEF SchedulesTypeOK, LocksHold
  <2>2. \A j \in Sweepers : \A s \in locked'[j] : schedule'[s] = "scheduled"
    <3> SUFFICES ASSUME NEW j \in Sweepers, NEW s \in locked'[j] PROVE schedule'[s] = "scheduled"
      OBVIOUS
    <3>1. s \in locked[j] /\ s \notin S /\ s \in Scheduled
      BY <1>1, <2>1 DEF SchedulesTypeOK
    <3> QED BY <1>1, <1>7, <3>1 DEF LocksHold
  <2>3. \A j, k \in Sweepers : j # k => locked'[j] \cap locked'[k] = {}
    BY <1>1, <2>1 DEF LocksHold
  <2> QED BY <2>2, <2>3 DEF LocksHold
<1>10. StatusIsTrue'
  <2> SUFFICES ASSUME NEW s \in Scheduled
               PROVE  IF schedule'[s] = "executed" THEN Posted(s)' ELSE journal'[KeyOf[s]] # s
    BY DEF StatusIsTrue
  <2>1. CASE s \in S
    BY <1>5, <1>7, <2>1
  <2>2. CASE s \notin S
    <3>1. schedule'[s] = schedule[s] /\ s \in Requests
      BY <1>7, <2>2, SchedulesAssumption
    <3>2. IF schedule[s] = "executed" THEN Posted(s) ELSE journal[KeyOf[s]] # s
      BY <1>1 DEF StatusIsTrue
    <3> QED BY <1>5, <2>2, <3>1, <3>2, PostedStays
  <2> QED BY <2>1, <2>2
<1>11. PostsOnly(Scheduled)
  BY <1>2, <1>5 DEF PostsOnly
<1>12. \A s \in Scheduled : schedule[s] \in Resolved => schedule'[s] = schedule[s]
  BY <1>6, <1>7 DEF Resolved
<1> QED BY <1>8, <1>9, <1>10, <1>11, <1>12 DEF SchedulesInv

\* A step that posts nothing and leaves a true status leaves the statuses true.
LEMMA StatusSet ==
    ASSUME SchedulesInv, UNCHANGED journal, NEW t \in Scheduled, NEW v \in {"scheduled", "canceled"},
           schedule[t] # "executed", schedule' = [schedule EXCEPT ![t] = v]
    PROVE  /\ \A s \in Scheduled : schedule'[s] = IF s = t THEN v ELSE schedule[s]
           /\ schedule' \in [Scheduled -> {"absent", "scheduled"} \cup Resolved]
           /\ StatusIsTrue'
<1>1. schedule \in [Scheduled -> {"absent", "scheduled"} \cup Resolved] /\ StatusIsTrue
  BY DEF SchedulesInv, SchedulesTypeOK
<1>2. \A s \in Scheduled : schedule'[s] = IF s = t THEN v ELSE schedule[s]
  BY <1>1
<1>3. schedule' \in [Scheduled -> {"absent", "scheduled"} \cup Resolved]
  BY <1>1 DEF Resolved
<1>4. StatusIsTrue'
  BY <1>1, <1>2 DEF StatusIsTrue, Posted, Free
<1> QED BY <1>2, <1>3, <1>4

\* The statuses are true and the locks hold after every step of schedules, what is
\* resolved stays, and they post schedules alone.
LEMMA SchedulesStepInv ==
    ASSUME JournalTypeOK, SchedulesInv, SchedulesStep
    PROVE  /\ SchedulesInv'
           /\ PostsOnly(Scheduled)
           /\ \A s \in Scheduled : schedule[s] \in Resolved => schedule'[s] = schedule[s]
<1> DEFINE Goal == /\ SchedulesInv'
                   /\ PostsOnly(Scheduled)
                   /\ \A s \in Scheduled : schedule[s] \in Resolved => schedule'[s] = schedule[s]
<1>1. SchedulesTypeOK /\ LocksHold /\ StatusIsTrue
  BY DEF SchedulesInv
<1>2. UNCHANGED journal => PostsOnly(Scheduled)
  BY NothingPosted
<1>3. UNCHANGED <<journal, schedule>> => StatusIsTrue'
  BY <1>1 DEF StatusIsTrue, Posted, Free
<1>4. ASSUME NEW s \in Scheduled, Schedule(s) PROVE Goal
  <2>1. /\ schedule[s] = "absent" /\ UNCHANGED <<journal, locked>>
        /\ schedule' = [schedule EXCEPT ![s] = "scheduled"]
    BY <1>4 DEF Schedule
  <2>2. /\ \A t \in Scheduled : schedule'[t] = IF t = s THEN "scheduled" ELSE schedule[t]
        /\ schedule' \in [Scheduled -> {"absent", "scheduled"} \cup Resolved]
        /\ StatusIsTrue'
    BY <2>1, StatusSet
  <2>3. SchedulesTypeOK' /\ LocksHold'
    BY <1>1, <2>1, <2>2 DEF SchedulesTypeOK, LocksHold
  <2> QED BY <1>2, <2>1, <2>2, <2>3 DEF SchedulesInv, Resolved
<1>5. ASSUME NEW s \in Scheduled, FallsDue(s) PROVE Goal
  <2>1. UNCHANGED <<journal, schedule>> /\ UNCHANGED <<schedule, locked>>
    BY <1>5 DEF FallsDue
  <2>2. SchedulesTypeOK' /\ LocksHold'
    BY <1>1, <2>1 DEF SchedulesTypeOK, LocksHold
  <2> QED BY <1>2, <1>3, <2>1, <2>2 DEF SchedulesInv
<1>6. ASSUME NEW s \in Scheduled, CancelSchedule(s) PROVE Goal
  <2>1. /\ schedule[s] = "scheduled" /\ UNCHANGED <<journal, locked>> /\ s \notin Locked
        /\ schedule' = [schedule EXCEPT ![s] = "canceled"]
    BY <1>6 DEF CancelSchedule
  <2>2. /\ \A t \in Scheduled : schedule'[t] = IF t = s THEN "canceled" ELSE schedule[t]
        /\ schedule' \in [Scheduled -> {"absent", "scheduled"} \cup Resolved]
        /\ StatusIsTrue'
    BY <2>1, StatusSet
  <2>3. \A i \in Sweepers : s \notin locked[i] /\ locked[i] \subseteq Scheduled
    BY <1>1, <2>1 DEF Locked, SchedulesTypeOK
  <2>4. SchedulesTypeOK'
    BY <1>1, <2>1, <2>2 DEF SchedulesTypeOK
  <2>5. LocksHold'
    BY <1>1, <2>1, <2>2, <2>3 DEF LocksHold
  <2> QED BY <1>2, <2>1, <2>2, <2>4, <2>5 DEF SchedulesInv, Resolved
<1>7. ASSUME NEW i \in Sweepers, AbortDue(i) PROVE Goal
  <2>1. UNCHANGED <<journal, schedule>> /\ locked' = [locked EXCEPT ![i] = {}]
    BY <1>7 DEF AbortDue
  <2>2. SchedulesTypeOK' /\ LocksHold'
    BY <1>1, <2>1 DEF SchedulesTypeOK, LocksHold
  <2> QED BY <1>2, <1>3, <2>1, <2>2 DEF SchedulesInv
<1>8. ASSUME NEW i \in Sweepers, NEW S \in SUBSET Scheduled, LockDue(i, S) PROVE Goal
  <2>1. UNCHANGED <<journal, schedule>> /\ locked' = [locked EXCEPT ![i] = S]
    BY <1>8 DEF LockDue
  <2>2. \A s \in S : schedule[s] = "scheduled" /\ \A j \in Sweepers : s \notin locked[j]
    BY <1>8 DEF LockDue, Open, Locked
  <2>3. SchedulesTypeOK'
    BY <1>1, <2>1 DEF SchedulesTypeOK
  <2>4. \A j \in Sweepers : locked'[j] = IF j = i THEN S ELSE locked[j]
    BY <1>1, <2>1 DEF SchedulesTypeOK
  <2>5. LocksHold'
    BY <1>1, <2>1, <2>2, <2>4 DEF LocksHold
  <2> QED BY <1>2, <1>3, <2>1, <2>3, <2>5 DEF SchedulesInv
<1>9. ASSUME NEW i \in Sweepers, NEW bad, ExecuteDue(i, bad) PROVE Goal
  BY <1>9, ExecuteDueInv
<1> QED BY <1>4, <1>5, <1>6, <1>7, <1>8, <1>9 DEF SchedulesStep

-------------------------------------------------------------------------------
(***************************************************************************)
(* The jobs together.                                                      *)
(***************************************************************************)

\* No job has been given to the service at first.
LEMMA InitJobs == Init => JobsInv
<1> SUFFICES ASSUME Init PROVE JobsInv
  OBVIOUS
<1> USE DEF Init, BulkInit, SchedulesInit
<1>1. JournalTypeOK
  BY DEF JournalTypeOK
<1>2. BulkTypeOK /\ CompletedIsAll
  BY BulkAssumption DEF BulkTypeOK, BulkRow, CompletedIsAll
<1>3. WorkSound
  BY DEF WorkSound
<1>4. CountsAgree
  <2> SUFFICES ASSUME NEW b \in Bulks PROVE Tallied(b)
    BY DEF CountsAgree
  <2>1. \A v \in {"succeeded", "failed"} : {i \in Items(b) : result[b][i] = v} = {}
    OBVIOUS
  <2>2. \A i \in Items(b) : ~(i < 0)
    BY DEF Items
  <2>3. Total[b] # 0
    BY BulkAssumption
  <2> QED BY <2>1, <2>2, <2>3, FS_EmptySet DEF Tallied
<1>5. TruthInv
  BY DEF TruthInv, WorkIsPosted, AloneAndCurrent, RefusedIsNotPosted, ResultsAreTrue, Idle
<1>6. SchedulesInv
  <2>1. \A s \in Scheduled : KeyOf[s] \in Keys /\ s # NoRequest
    BY SchedulesAssumption, JournalAssumption DEF Keys
  <2> QED BY <2>1 DEF SchedulesInv, SchedulesTypeOK, LocksHold, StatusIsTrue, Resolved
<1> QED BY <1>1, <1>2, <1>3, <1>4, <1>5, <1>6 DEF JobsInv, CountsInv

\* The requests of items, of schedules and of clients are different ones.
LEMMA PostersDiffer ==
    /\ OfItems \cap Scheduled = {}
    /\ \A b \in Bulks : \A i \in Items(b) : ItemOf[b][i] \notin Scheduled /\ ItemOf[b][i] \notin Direct
    /\ Direct \cap Scheduled = {} /\ Direct \subseteq Requests
BY JobsAssumption DEF OfItems

\* The steps of one job leave the other's report true, and what is resolved stays.
LEMMA NextJobs ==
    ASSUME JobsInv, [Next]_vars
    PROVE  /\ JobsInv'
           /\ \A s \in Scheduled : schedule[s] \in Resolved => schedule'[s] = schedule[s]
<1>1. JournalTypeOK /\ CountsInv /\ TruthInv /\ SchedulesInv
  BY DEF JobsInv
<1>2. \A S : PostsOnly(S) => JournalTypeOK'
  BY DEF PostsOnly
<1>3. UNCHANGED bulkVars => CountsInv'
  <2> SUFFICES ASSUME UNCHANGED bulkVars PROVE CountsInv'
    OBVIOUS
  <2>1. UNCHANGED <<bulk, result, work, announced, overtaken>>
    BY DEF bulkVars
  <2>2. bulk' \in [Bulks -> BulkRow] /\ WorkSound'
    BY <1>1, <2>1 DEF CountsInv, BulkTypeOK, WorkSound
  <2>3. BulkTypeOK' /\ CompletedIsAll' /\ CountsAgree'
    BY <1>1, <2>1, <2>2, CountsKept
  <2> QED BY <2>2, <2>3 DEF CountsInv
<1>4. CASE BulkStep /\ UNCHANGED scheduleVars
  <2>1. CountsInv'
    BY <1>1, <1>4, BulkStepCounts
  <2>2. TruthInv' /\ PostsOnly(OfItems)
    BY <1>1, <1>4, BulkStepTruth
  <2>3. SchedulesInv'
    BY <1>1, <1>4, <2>2, OthersKeepStatus, PostersDiffer
  <2> QED BY <1>2, <1>4, <2>1, <2>2, <2>3 DEF JobsInv, scheduleVars
<1>5. CASE SchedulesStep /\ UNCHANGED bulkVars
  <2>1. /\ SchedulesInv'
        /\ PostsOnly(Scheduled)
        /\ \A s \in Scheduled : schedule[s] \in Resolved => schedule'[s] = schedule[s]
    BY <1>1, <1>5, SchedulesStepInv
  <2>2. TruthInv'
    BY <1>1, <1>5, <2>1, OthersPost, PostersDiffer
  <2> QED BY <1>2, <1>3, <1>5, <2>1, <2>2 DEF JobsInv
<1>6. ASSUME NEW r \in Direct, PostDirect(r)
      PROVE  /\ JobsInv'
             /\ \A s \in Scheduled : schedule[s] \in Resolved => schedule'[s] = schedule[s]
  <2>1. PICK S : S = {r}
    OBVIOUS
  <2>2. S \in SUBSET Requests /\ \A q, t \in S : KeyOf[q] = KeyOf[t] => q = t
    BY <2>1, PostersDiffer
  <2>3. journal' = After(S, {}) /\ UNCHANGED bulkVars /\ UNCHANGED scheduleVars
    BY <1>6, <2>1 DEF PostDirect
  <2>4. PostsOnly(S)
    BY <1>1, <2>2, <2>3, AfterPosts
  <2>5. S \cap Scheduled = {} /\ \A b \in Bulks : \A i \in Items(b) : ItemOf[b][i] \notin S
    BY <2>1, PostersDiffer
  <2>6. TruthInv'
    BY <1>1, <2>3, <2>4, <2>5, OthersPost
  <2>7. SchedulesInv'
    BY <1>1, <2>3, <2>4, <2>5, OthersKeepStatus
  <2> QED BY <1>2, <1>3, <2>3, <2>4, <2>6, <2>7 DEF JobsInv, scheduleVars
<1>7. CASE UNCHANGED vars
  <2>1. UNCHANGED journal /\ UNCHANGED bulkVars /\ UNCHANGED scheduleVars
    BY <1>7 DEF vars
  <2>2. PostsOnly({})
    BY <1>1, <2>1, NothingPosted
  <2>3. TruthInv'
    BY <1>1, <2>1, <2>2, OthersPost
  <2>4. SchedulesInv'
    BY <1>1, <2>1, <2>2, OthersKeepStatus
  <2> QED BY <1>2, <1>3, <2>1, <2>2, <2>3, <2>4 DEF JobsInv, scheduleVars
<1> QED BY <1>4, <1>5, <1>6, <1>7 DEF Next

\* The invariant holds in every behaviour of the jobs.
THEOREM JobsInvHolds == Spec => []JobsInv
<1>1. JobsInv /\ [Next]_vars => JobsInv'
  BY NextJobs
<1> QED BY <1>1, InitJobs, PTL DEF Spec

\* What a bulk request reports agrees with its results and these with the journal, however
\* often its chunks are posted again or recorded late (processChunk).
THEOREM ReportIsTrueHolds == Spec => []ReportIsTrue
<1>1. JobsInv => ReportIsTrue
  BY DEF JobsInv, CountsInv, TruthInv, ReportIsTrue
<1> QED BY <1>1, JobsInvHolds, PTL

\* What a client is told of a schedule is true and stays so, though sweeps, cancellations
\* and other posts under its key race for it (executeDue, cancelSchedule).
THEOREM StatusIsFinalHolds == Spec => StatusIsFinal
<1>1. JobsInv => StatusIsTrue
  BY DEF JobsInv, SchedulesInv
<1>2. JobsInv /\ [Next]_vars =>
         [\A s \in Scheduled : schedule[s] \in Resolved => schedule'[s] = schedule[s]]_scheduleVars
  BY NextJobs
<1>3. Spec => []StatusIsTrue
  BY <1>1, JobsInvHolds, PTL
<1>4. Spec => [][\A s \in Scheduled : schedule[s] \in Resolved => schedule'[s] = schedule[s]]_scheduleVars
  BY <1>2, JobsInvHolds, PTL DEF Spec
<1> QED BY <1>3, <1>4 DEF StatusIsFinal, ResolvedStays
===============================================================================
