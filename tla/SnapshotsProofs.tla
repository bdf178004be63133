---------------------------- MODULE SnapshotsProofs ----------------------------
(***************************************************************************)
(* What the parts of the ledger promise that go by the oldest transaction  *)
(* in progress: the seal chain is complete, ordered and linked, for any    *)
(* number of transactions and of instances, and a repeated request to      *)
(* close a period settles it, for any number of postings and of requests.  *)
(***************************************************************************)
EXTENDS Snapshots, SequenceTheorems, FiniteSetTheorems, TLAPS

-------------------------------------------------------------------------------
(***************************************************************************)
(* The seal chain.  What a sealer reads is older than whatever is in       *)
(* progress, and whatever starts later is newer still, so nothing can      *)
(* commit before the head of the chain; and the advisory lock keeps the    *)
(* head that a sealer has loaded the stored one until it commits.          *)
(***************************************************************************)

Busy(s) == pc[s] \in {"loaded", "chosen"}

\* Ids that were given out are below the next one.
XidBound == \A t \in Rows : xid[t] < nextXid

\* What is sealed is older than everything in progress.
SealedVisible == \A i \in 1 .. Len(seals) : Visible(seals[i].txn)

\* One sealer at a time, and the head it has loaded is the stored one.
OneSeals ==
    /\ \A r, s \in Sealers : Busy(r) /\ Busy(s) => r = s
    /\ \A s \in Sealers : Busy(s) => head[s] = StoredHead

\* No sealer is ahead of the chain.
HeadSeen == \A s \in Sealers : head[s].seq <= Len(seals)

\* What a sealer has chosen goes next: it is after the head, older than everything
\* in progress, and nothing posted comes before it.
ChosenNext ==
    \A s \in Sealers : pc[s] = "chosen" =>
        /\ IsFiniteSet(chosen[s]) /\ chosen[s] # {}
        /\ \A t \in chosen[s] : Visible(t) /\ AfterHead(t)
        /\ \A t \in chosen[s], u \in Rows :
               state[u] = "committed" /\ AfterHead(u) /\ Before(u, t) => u \in chosen[s]

Inv == /\ TypeOK /\ XidBound /\ SealedVisible /\ OneSeals /\ HeadSeen /\ ChosenNext
       /\ NoneSkipped /\ SealedInOrder /\ ChainVerifies /\ NeverRewound

\* Before is a strict total order.
LEMMA BeforeOrder ==
    ASSUME xid \in [Rows -> Nat]
    PROVE  /\ \A t \in Rows : ~Before(t, t)
           /\ \A t, u \in Rows : t # u => Before(t, u) \/ Before(u, t)
           /\ \A t, u, v \in Rows : Before(t, u) /\ Before(u, v) => Before(t, v)
BY SealAssumption DEF Before

\* The rows of the table have their type.
LEMMA RowTypes ==
    ASSUME TypeOK
    PROVE  /\ seals \in Seq([txn : Rows, chain : Hash]) /\ Len(seals) \in Nat
           /\ \A i \in 1 .. Len(seals) : seals[i].txn \in Rows /\ seals[i].chain \in Hash
           /\ seals # <<>> => Len(seals) \in 1 .. Len(seals)
<1> DEFINE Row == [txn : Rows, chain : Hash]
<1>1. seals \in Seq(Row)
  BY DEF TypeOK, JournalTypeOK
<1>2. \A i \in 1 .. Len(seals) : seals[i] \in Row
  BY <1>1, ElementOfSeq
<1>3. \A r \in Row : r.txn \in Rows /\ r.chain \in Hash
  OBVIOUS
<1>4. Len(seals) \in Nat /\ (seals # <<>> => Len(seals) \in Nat \ {0})
  BY <1>1, EmptySeq, LenProperties
<1> QED BY <1>1, <1>2, <1>3, <1>4

\* The hash of the stored head has its type.
LEMMA StoredHeadType ==
    ASSUME TypeOK
    PROVE  StoredHead \in [seq : Nat, hash : Hash] /\ StoredHead.seq = Len(seals)
<1>1. CASE seals = <<>>
  <2>1. <<>> \in Hash /\ Len(seals) = 0
    BY <1>1 DEF Hash
  <2> QED BY <1>1, <2>1 DEF StoredHead, Genesis
<1>2. CASE seals # <<>>
  BY <1>2, RowTypes DEF StoredHead
<1> QED BY <1>1, <1>2

\* The inductive invariant holds of the empty chain.
LEMMA InitInv == Init => Inv
<1> SUFFICES ASSUME Init PROVE Inv
  OBVIOUS
<1>1. seals = <<>> /\ Len(seals) = 0
  BY DEF Init, JournalInit
<1>2. TypeOK
  <2>1. Genesis \in [seq : Nat, hash : Hash]
    BY DEF Genesis, Hash
  <2>2. seals \in Seq([txn : Rows, chain : Hash])
    BY <1>1
  <2>3. head \in [Sealers -> [seq : Nat, hash : Hash]]
    BY <2>1 DEF Init, JournalInit
  <2> QED BY <2>2, <2>3, SealAssumption DEF Init, JournalInit, TypeOK, JournalTypeOK
<1>3. XidBound /\ SealedVisible /\ NoneSkipped /\ SealedInOrder /\ ChainVerifies
  BY <1>1 DEF Init, JournalInit, XidBound, SealedVisible, NoneSkipped, SealedInOrder, ChainVerifies
<1>4. OneSeals /\ HeadSeen /\ ChosenNext /\ NeverRewound
  BY <1>1 DEF Init, JournalInit, OneSeals, Busy, HeadSeen, ChosenNext, NeverRewound, Genesis
<1> QED BY <1>2, <1>3, <1>4 DEF Inv

\* A step of the journal leaves the chain as it is, and what is visible stays
\* visible.
LEMMA JournalInv ==
    ASSUME Inv, (\E S \in SUBSET Rows : BeginPosting(S)) \/ (\E x \in 1 .. nextXid : EndPosting(x))
    PROVE  Inv'
<1> USE SealAssumption
<1>1. UNCHANGED <<seals, pc, head, chosen, highest, crashes>>
  BY DEF BeginPosting, EndPosting, Write, End
<1>2. /\ nextXid' \in Nat \ {0} /\ nextXid <= nextXid' /\ xid' \in [Rows -> Nat]
      /\ state' \in [Rows -> {"new", "open", "committed", "aborted"}]
      /\ \A t \in Rows : xid'[t] < nextXid'
  <2>1. /\ nextXid \in Nat \ {0} /\ xid \in [Rows -> Nat]
        /\ state \in [Rows -> {"new", "open", "committed", "aborted"}]
        /\ \A t \in Rows : xid[t] < nextXid
    BY DEF Inv, TypeOK, JournalTypeOK, XidBound
  <2>2. ASSUME NEW S \in SUBSET Rows, BeginPosting(S)
        PROVE  <1>2!1 /\ <1>2!2 /\ <1>2!3
    BY <2>1, <2>2 DEF BeginPosting, Write
  <2>3. ASSUME NEW x \in 1 .. nextXid, EndPosting(x)
        PROVE  <1>2!1 /\ <1>2!2 /\ <1>2!3
    BY <2>1, <2>3 DEF EndPosting, End
  <2> QED BY <2>2, <2>3
<1>3. \A t \in Rows : state[t] # "new" => xid'[t] = xid[t]
  BY DEF BeginPosting, EndPosting, Write, End, Inv, TypeOK, JournalTypeOK
<1>4. \A t \in Rows : state[t] = "committed" <=> state'[t] = "committed" /\ state[t] # "open"
  BY DEF BeginPosting, EndPosting, Write, End, Inv, TypeOK, JournalTypeOK
<1>5. \A t \in Rows : state'[t] = "open" =>
          (state[t] = "open" /\ xid'[t] = xid[t]) \/ xid'[t] = nextXid
  BY DEF BeginPosting, EndPosting, Write, End, Inv, TypeOK, JournalTypeOK
<1>6. \A t \in Rows : Visible(t) => Visible(t)' /\ xid'[t] = xid[t]
  BY <1>2, <1>3, <1>4, <1>5 DEF Visible, Inv, TypeOK, JournalTypeOK, XidBound
<1>7. TypeOK' /\ XidBound'
  BY <1>1, <1>2 DEF Inv, TypeOK, JournalTypeOK, XidBound
<1>8. \A i \in 1 .. Len(seals) : seals[i].txn \in Rows
  BY RowTypes DEF Inv
<1>9. SealedVisible'
  BY <1>1, <1>6, <1>8 DEF Inv, SealedVisible
<1>10. \A t \in Rows : state[t] # "new" => (AfterHead(t)' <=> AfterHead(t))
  <2>1. CASE seals = <<>>
    BY <1>1, <2>1 DEF AfterHead
  <2>2. CASE seals # <<>>
    <3>1. Len(seals) \in 1 .. Len(seals)
      BY <2>2, RowTypes DEF Inv
    <3>2. xid'[seals[Len(seals)].txn] = xid[seals[Len(seals)].txn]
      BY <3>1, <1>6, <1>8 DEF Inv, SealedVisible
    <3> QED BY <1>1, <1>3, <3>2 DEF AfterHead, Before
  <2> QED BY <2>1, <2>2
<1>11. NoneSkipped'
  <2> SUFFICES ASSUME NEW t \in Rows, state'[t] = "committed", t \notin Sealed'
               PROVE  AfterHead(t)'
    BY DEF NoneSkipped
  <2>1. t \notin Sealed
    BY <1>1 DEF Sealed
  <2>2. CASE state[t] = "committed"
    BY <2>1, <2>2, <1>10 DEF Inv, NoneSkipped
  <2>3. CASE state[t] = "open"
    <3>1. CASE seals = <<>>
      BY <3>1, <1>1 DEF AfterHead
    <3>2. CASE seals # <<>>
      <4>1. Len(seals) \in 1 .. Len(seals)
        BY <3>2, RowTypes DEF Inv
      <4>2. xid[seals[Len(seals)].txn] < xid[t]
        BY <4>1, <2>3, <1>8 DEF Inv, SealedVisible, Visible
      <4>3. xid'[seals[Len(seals)].txn] = xid[seals[Len(seals)].txn] /\ xid'[t] = xid[t]
        BY <4>1, <2>3, <1>3, <1>6, <1>8 DEF Inv, SealedVisible
      <4> QED BY <1>1, <4>2, <4>3 DEF AfterHead, Before
    <3> QED BY <3>1, <3>2
  <2> QED BY <2>2, <2>3, <1>4
<1>12. SealedInOrder'
  <2>1. \A i \in 1 .. Len(seals) : /\ state'[seals[i].txn] = "committed"
                                   /\ xid'[seals[i].txn] = xid[seals[i].txn]
    BY <1>6, <1>8 DEF Inv, SealedVisible, Visible
  <2> QED BY <1>1, <2>1 DEF Inv, SealedInOrder, Before
<1>13. ChosenNext'
  <2> SUFFICES ASSUME NEW s \in Sealers, pc[s] = "chosen"
               PROVE  /\ \A t \in chosen[s] : Visible(t)' /\ AfterHead(t)'
                      /\ \A t \in chosen[s], u \in Rows :
                             state'[u] = "committed" /\ AfterHead(u)' /\ Before(u, t)' => u \in chosen[s]
    BY <1>1 DEF Inv, ChosenNext
  <2>1. chosen[s] \subseteq Rows
    BY DEF Inv, TypeOK, JournalTypeOK
  <2>2. \A t \in chosen[s] : Visible(t)' /\ AfterHead(t)' /\ xid'[t] = xid[t]
    BY <2>1, <1>6, <1>10 DEF Inv, ChosenNext, Visible
  <2>3. ASSUME NEW t \in chosen[s], NEW u \in Rows,
               state'[u] = "committed", AfterHead(u)', Before(u, t)'
        PROVE  u \in chosen[s]
    <3>1. CASE state[u] = "committed"
      BY <2>1, <2>2, <2>3, <3>1, <1>3, <1>10 DEF Inv, ChosenNext, Before
    <3>2. CASE state[u] = "open"
      <4>1. xid[t] < xid[u]
        BY <2>1, <3>2 DEF Inv, ChosenNext, Visible
      <4>2. xid'[t] = xid[t] /\ xid'[u] = xid[u]
        BY <2>2, <3>2, <1>3
      <4> QED BY <2>1, <2>3, <4>1, <4>2, <1>2 DEF Before, Inv, TypeOK, JournalTypeOK
    <3> QED BY <2>3, <3>1, <3>2, <1>4
  <2> QED BY <2>2, <2>3
<1>14. OneSeals' /\ HeadSeen' /\ ChainVerifies' /\ NeverRewound'
  BY <1>1 DEF Inv, OneSeals, Busy, StoredHead, HeadSeen, ChainVerifies, NeverRewound
<1> QED BY <1>7, <1>9, <1>11, <1>12, <1>13, <1>14 DEF Inv

\* Steps that only take the lock, or let go of it: the table and the journal stay.
LEMMA LockInv ==
    ASSUME Inv, NEW s \in Sealers, BeginSeal(s) \/ AbortSeal(s) \/ StoreHighest(s) \/ Crash(s)
    PROVE  Inv'
<1> USE SealAssumption
<1>1. UNCHANGED <<nextXid, xid, state, seals>>
  BY DEF BeginSeal, AbortSeal, StoreHighest, Crash, journal
<1>2. /\ TypeOK /\ StoredHead \in [seq : Nat, hash : Hash] /\ StoredHead.seq = Len(seals)
      /\ Len(seals) \in Nat
  BY StoredHeadType, RowTypes DEF Inv
<1>3. Genesis \in [seq : Nat, hash : Hash] /\ Genesis.seq = 0
  BY DEF Genesis, Hash
<1>4. /\ pc' \in [Sealers -> {"idle", "loaded", "chosen", "ended"}]
      /\ chosen' \in [Sealers -> SUBSET Rows] /\ crashes' \in 0 .. MaxCrashes
  <2>1. CASE BeginSeal(s)
    BY <1>2, <2>1 DEF TypeOK, JournalTypeOK, BeginSeal
  <2>2. CASE AbortSeal(s)
    BY <1>2, <2>2 DEF TypeOK, JournalTypeOK, AbortSeal
  <2>3. CASE StoreHighest(s)
    BY <1>2, <2>3 DEF TypeOK, JournalTypeOK, StoreHighest
  <2>4. CASE Crash(s)
    BY <1>2, <2>4 DEF TypeOK, JournalTypeOK, Crash
  <2> QED BY <2>1, <2>2, <2>3, <2>4
<1>5. head' \in [Sealers -> [seq : Nat, hash : Hash]]
  BY <1>2, <1>3 DEF TypeOK, JournalTypeOK, BeginSeal, AbortSeal, StoreHighest, Crash
<1>6. /\ \A r \in Sealers : head'[r].seq <= Len(seals)
      /\ highest' \in [Sealers -> Nat] /\ \A r \in Sealers : highest'[r] <= Len(seals)
  <2>0. /\ head \in [Sealers -> [seq : Nat, hash : Hash]] /\ highest \in [Sealers -> Nat]
        /\ \A r \in Sealers : head[r].seq \in Nat /\ head[r].seq <= Len(seals) /\ highest[r] <= Len(seals)
    BY <1>2 DEF Inv, TypeOK, JournalTypeOK, HeadSeen, NeverRewound
  <2>1. CASE BeginSeal(s)
    BY <1>2, <2>0, <2>1 DEF BeginSeal
  <2>2. CASE AbortSeal(s)
    BY <1>2, <2>0, <2>2 DEF AbortSeal
  <2>3. CASE StoreHighest(s)
    BY <1>2, <2>0, <2>3 DEF StoreHighest
  <2>4. CASE Crash(s)
    BY <1>2, <1>3, <2>0, <2>4 DEF Crash
  <2> QED BY <2>1, <2>2, <2>3, <2>4
<1>7. TypeOK' /\ HeadSeen' /\ NeverRewound'
  BY <1>1, <1>2, <1>4, <1>5, <1>6 DEF TypeOK, JournalTypeOK, HeadSeen, NeverRewound
<1>8. XidBound' /\ SealedVisible' /\ NoneSkipped' /\ SealedInOrder' /\ ChainVerifies'
  <2>1. XidBound' /\ ChainVerifies'
    BY <1>1 DEF Inv, XidBound, ChainVerifies
  <2>2. SealedVisible' /\ NoneSkipped' /\ SealedInOrder'
    BY <1>1 DEF Inv, SealedVisible, Visible, NoneSkipped, Sealed, AfterHead, Before, SealedInOrder
  <2> QED BY <2>1, <2>2
<1>9. OneSeals'
  <2>0. \A r \in Sealers : r # s => pc'[r] = pc[r] /\ head'[r] = head[r]
    BY <1>2 DEF TypeOK, JournalTypeOK, BeginSeal, AbortSeal, StoreHighest, Crash
  <2>1. CASE BeginSeal(s)
    <3>1. pc'[s] = "loaded" /\ head'[s] = StoredHead /\ \A r \in Sealers : ~Busy(r)
      BY <1>2, <2>1 DEF BeginSeal, TypeOK, JournalTypeOK, Busy
    <3> QED BY <1>1, <2>0, <3>1 DEF OneSeals, Busy, StoredHead
  <2>2. CASE AbortSeal(s) \/ StoreHighest(s) \/ Crash(s)
    <3>1. pc'[s] = "idle"
      BY <1>2, <2>2 DEF AbortSeal, StoreHighest, Crash, TypeOK, JournalTypeOK
    <3> QED BY <1>1, <2>0, <3>1 DEF Inv, OneSeals, Busy, StoredHead
  <2> QED BY <2>1, <2>2
<1>10. ChosenNext'
  <2>1. \A r \in Sealers : pc'[r] = "chosen" => pc[r] = "chosen" /\ chosen'[r] = chosen[r]
    BY <1>2 DEF TypeOK, JournalTypeOK, BeginSeal, AbortSeal, StoreHighest, Crash
  <2> QED BY <1>1, <2>1 DEF Inv, ChosenNext, Visible, AfterHead, Before
<1> QED BY <1>7, <1>8, <1>9, <1>10 DEF Inv

\* What unsealedSQL returns goes next.
LEMMA ChooseInv ==
    ASSUME Inv, NEW s \in Sealers, Choose(s)
    PROVE  Inv'
<1> USE SealAssumption
<1>1. UNCHANGED <<nextXid, xid, state, seals, head, highest, crashes>>
  BY DEF Choose, journal
<1>2. PICK B \in Batches : /\ chosen' = [chosen EXCEPT ![s] = B]
                           /\ pc' = [pc EXCEPT ![s] = IF B = {} THEN "ended" ELSE "chosen"]
  BY DEF Choose
<1>3. B \subseteq Rows /\ IsFiniteSet(B)
  BY FS_Subset DEF Batches, FirstOf, Unsealed
<1>4. TypeOK'
  BY <1>1, <1>2, <1>3 DEF Inv, TypeOK, JournalTypeOK
<1>5. /\ XidBound' /\ SealedVisible' /\ NoneSkipped' /\ SealedInOrder' /\ ChainVerifies'
      /\ HeadSeen' /\ NeverRewound'
  <2>1. XidBound' /\ HeadSeen' /\ NeverRewound' /\ ChainVerifies'
    BY <1>1 DEF Inv, XidBound, HeadSeen, NeverRewound, ChainVerifies
  <2>2. SealedVisible' /\ NoneSkipped' /\ SealedInOrder'
    BY <1>1 DEF Inv, SealedVisible, Visible, NoneSkipped, Sealed, AfterHead, Before, SealedInOrder
  <2> QED BY <2>1, <2>2
<1>6. \A r \in Sealers : (Busy(r)' => Busy(r)) /\ (r # s => pc'[r] = pc[r] /\ chosen'[r] = chosen[r])
  BY <1>2 DEF Inv, TypeOK, JournalTypeOK, Busy, Choose
<1>7. OneSeals'
  BY <1>1, <1>6 DEF Inv, OneSeals, StoredHead
<1>8. \A t \in B, u \in Rows : state[u] = "committed" /\ AfterHead(u) /\ Before(u, t) => u \in B
  <2> SUFFICES ASSUME NEW t \in B, NEW u \in Rows, state[u] = "committed", AfterHead(u), Before(u, t)
               PROVE  u \in B
    OBVIOUS
  <2>1. Visible(t)
    BY DEF Batches, FirstOf, Unsealed
  <2>2. \A v \in Rows : state[v] = "open" => xid[u] < xid[v]
    BY <1>3, <2>1 DEF Visible, Before, Inv, TypeOK, JournalTypeOK
  <2>3. u \in Unsealed
    BY <2>2 DEF Unsealed, Visible
  <2> QED BY <2>3 DEF Batches, FirstOf
<1>9. \A t \in B : Visible(t) /\ AfterHead(t)
  BY DEF Batches, FirstOf, Unsealed
<1>10. ChosenNext'
  <2> SUFFICES ASSUME NEW r \in Sealers, pc'[r] = "chosen"
               PROVE  /\ IsFiniteSet(chosen'[r]) /\ chosen'[r] # {}
                      /\ \A t \in chosen'[r] : Visible(t) /\ AfterHead(t)
                      /\ \A t \in chosen'[r], u \in Rows :
                             state[u] = "committed" /\ AfterHead(u) /\ Before(u, t) => u \in chosen'[r]
    BY <1>1 DEF ChosenNext, Visible, AfterHead, Before
  <2>1. CASE r # s
    BY <1>6, <2>1 DEF Inv, ChosenNext
  <2>2. CASE r = s
    <3>1. chosen'[r] = B /\ B # {}
      BY <1>2, <2>2 DEF Inv, TypeOK, JournalTypeOK
    <3> QED BY <1>3, <1>8, <1>9, <3>1
  <2> QED BY <2>1, <2>2
<1> QED BY <1>4, <1>5, <1>7, <1>10 DEF Inv

\* What i links add to a hash.
Pairs(n, f, i) == [j \in 1 .. i |-> <<n + j, f[j]>>]

\* i links on a hash make it i pairs longer: the chain after i transactions is the
\* link of the one after i - 1.
LEMMA HashLink ==
    ASSUME NEW h \in Hash, NEW n \in Nat, NEW k \in Nat, NEW f \in [1 .. k -> Rows], NEW i \in 1 .. k
    PROVE  /\ h \o Pairs(n, f, i) \in Hash
           /\ h \o Pairs(n, f, i) = Link(IF i = 1 THEN h ELSE h \o Pairs(n, f, i - 1), n + i, f[i])
<1> DEFINE Pair == Nat \X Rows
           G(m) == [j \in 1 .. m |-> <<n + j, f[j]>>]
           p == <<n + i, f[i]>>
<1>1. \A m \in 0 .. k : G(m) \in Seq(Pair) /\ Len(G(m)) = m
  <2> SUFFICES ASSUME NEW m \in 0 .. k PROVE G(m) \in Seq(Pair) /\ Len(G(m)) = m
    OBVIOUS
  <2>1. G(m) \in [1 .. m -> Pair]
    OBVIOUS
  <2> QED BY <2>1
<1>2. h \in Seq(Pair) /\ Len(h) \in Nat
  BY LenProperties DEF Hash
<1>3. p \in Pair
  OBVIOUS
<1> DEFINE a == h \o G(i)
           b == h \o G(i - 1)
<1>4. /\ a \in Seq(Pair) /\ Len(a) = Len(h) + i
      /\ \A x \in 1 .. Len(h) + i : a[x] = IF x <= Len(h) THEN h[x] ELSE G(i)[x - Len(h)]
  <2>1. i \in 0 .. k
    OBVIOUS
  <2>2. G(i) \in Seq(Pair) /\ Len(G(i)) = i
    BY <1>1, <2>1
  <2> HIDE DEF G, Pair
  <2> QED BY <1>2, <2>2, ConcatProperties
<1>5. /\ b \in Seq(Pair) /\ Len(b) = Len(h) + i - 1
      /\ \A x \in 1 .. Len(h) + i - 1 : b[x] = IF x <= Len(h) THEN h[x] ELSE G(i - 1)[x - Len(h)]
  <2>1. i - 1 \in 0 .. k /\ Len(h) + (i - 1) = Len(h) + i - 1
    BY <1>2
  <2>2. G(i - 1) \in Seq(Pair) /\ Len(G(i - 1)) = i - 1
    BY <1>1, <2>1
  <2> HIDE DEF G, Pair
  <2> QED BY <1>2, <2>1, <2>2, ConcatProperties
<1>6. \A x \in 1 .. Len(h) + i - 1 : a[x] = b[x]
  <2> SUFFICES ASSUME NEW x \in 1 .. Len(h) + i - 1 PROVE a[x] = b[x]
    OBVIOUS
  <2>1. x \in 1 .. Len(h) + i
    BY <1>2
  <2>2. CASE x <= Len(h)
    BY <1>4, <1>5, <2>1, <2>2
  <2>3. CASE ~(x <= Len(h))
    <3>1. x - Len(h) \in 1 .. i - 1 /\ x - Len(h) \in 1 .. i
      BY <1>2, <2>3
    <3>2. G(i)[x - Len(h)] = G(i - 1)[x - Len(h)]
      BY <3>1
    <3> QED BY <1>4, <1>5, <2>1, <2>3, <3>2
  <2> QED BY <2>2, <2>3
<1>7. a[Len(h) + i] = p
  <2>1. Len(h) + i \in 1 .. Len(h) + i /\ ~(Len(h) + i <= Len(h)) /\ (Len(h) + i) - Len(h) = i
    BY <1>2
  <2> QED BY <1>4, <2>1
<1>8. a = Append(b, p)
  <2> HIDE DEF a, b, p, Pair
  <2>1. /\ Append(b, p) \in Seq(Pair) /\ Len(Append(b, p)) = Len(h) + i
        /\ \A x \in 1 .. Len(h) + i - 1 : Append(b, p)[x] = b[x]
        /\ Append(b, p)[Len(h) + i] = p
    BY <1>2, <1>3, <1>5
  <2>2. \A x \in 1 .. Len(h) + i : x \in 1 .. Len(h) + i - 1 \/ x = Len(h) + i
    BY <1>2
  <2>3. \A x \in 1 .. Len(a) : a[x] = Append(b, p)[x]
    BY <1>4, <1>6, <1>7, <2>1, <2>2
  <2> QED BY <1>4, <2>1, <2>3, SeqEqual
<1>9. i = 1 => b = h
  <2>1. ASSUME i = 1 PROVE \A x \in 1 .. Len(h) : b[x] = h[x]
    BY <1>2, <1>5, <2>1
  <2> HIDE DEF b, Pair
  <2> QED BY <1>2, <1>5, <2>1, SeqEqual
<1> HIDE DEF G
<1> QED BY <1>4, <1>8, <1>9 DEF Link, Hash, G, Pairs

\* The table after s has committed f.
Appended(s, f) ==
    seals \o [i \in 1 .. Len(f) |-> [txn |-> f[i], chain |-> Heads(head[s], f)[i].hash]]

\* The rows that CommitSeal appends.
LEMMA AppendedRows ==
    ASSUME Inv, NEW s \in Sealers, pc[s] = "chosen", NEW f \in InOrder(chosen[s])
    PROVE  LET k   == Len(f)
               n   == Len(seals)
               res == Appended(s, f)
               top == Heads(head[s], f)[k]
           IN  /\ k \in Nat \ {0} /\ n \in Nat /\ k = Cardinality(chosen[s])
               /\ f \in [1 .. k -> chosen[s]]
               /\ res \in Seq([txn : Rows, chain : Hash]) /\ Len(res) = n + k
               /\ \A i \in 1 .. n : res[i] = seals[i]
               /\ \A i \in 1 .. k : res[n + i].txn = f[i]
               /\ \A i \in 1 .. k : res[n + i].chain =
                      Link(IF n + i = 1 THEN Genesis.hash ELSE res[n + i - 1].chain, n + i, f[i])
               /\ top \in [seq : Nat, hash : Hash] /\ top.seq = n + k
<1> DEFINE heads == Heads(head[s], f)
           k     == Len(f)
           n     == Len(seals)
           Row   == [txn : Rows, chain : Hash]
           new   == [i \in 1 .. k |-> [txn |-> f[i], chain |-> heads[i].hash]]
           res   == seals \o new
           h     == head[s].hash
           H     == [i \in 0 .. k |-> h \o Pairs(n, f, i)]
<1>1. TypeOK /\ seals \in Seq(Row) /\ n \in Nat /\ chosen[s] \subseteq Rows
  BY RowTypes DEF Inv, TypeOK, JournalTypeOK
<1>2. Cardinality(chosen[s]) \in Nat \ {0}
  BY FS_CardinalityType, FS_EmptySet DEF Inv, ChosenNext
<1>3. k = Cardinality(chosen[s]) /\ f \in [1 .. k -> chosen[s]] /\ f \in [1 .. k -> Rows]
  <2>1. f \in [1 .. Cardinality(chosen[s]) -> chosen[s]]
    BY DEF InOrder
  <2>2. Len(f) = Cardinality(chosen[s])
    BY <1>2, <2>1
  <2> QED BY <1>1, <2>1, <2>2
<1>4. head[s] = StoredHead /\ head[s].seq = n /\ h \in Hash
  BY <1>1, StoredHeadType DEF Inv, OneSeals, Busy
<1>5. \A i \in 1 .. k : H[i] \in Hash /\ H[i] = Link(IF i = 1 THEN h ELSE H[i - 1], n + i, f[i])
  <2> SUFFICES ASSUME NEW i \in 1 .. k
               PROVE  H[i] \in Hash /\ H[i] = Link(IF i = 1 THEN h ELSE H[i - 1], n + i, f[i])
    OBVIOUS
  <2> HIDE DEF h, n, k
  <2>1. i \in 0 .. k /\ i - 1 \in 0 .. k /\ k \in Nat
    BY <1>2, <1>3
  <2>2. H[i] = h \o Pairs(n, f, i) /\ H[i - 1] = h \o Pairs(n, f, i - 1)
    BY <2>1
  <2> HIDE DEF H
  <2>3. n \in Nat /\ h \in Hash /\ f \in [1 .. k -> Rows]
    BY <1>1, <1>3, <1>4
  <2>4. /\ h \o Pairs(n, f, i) \in Hash
        /\ h \o Pairs(n, f, i) = Link(IF i = 1 THEN h ELSE h \o Pairs(n, f, i - 1), n + i, f[i])
    BY <2>1, <2>3, HashLink
  <2> QED BY <2>2, <2>4
<1>6. \A i \in 1 .. k : i \in 0 .. k /\ heads[i].seq = n + i /\ heads[i].hash = H[i]
  <2>1. \A i \in 1 .. k : i \in 0 .. k
    BY <1>2, <1>3
  <2>2. \A i \in 0 .. k : /\ heads[i].seq = head[s].seq + i
                           /\ heads[i].hash = h \o Pairs(head[s].seq, f, i)
    BY DEF Heads, Pairs
  <2> QED BY <1>4, <2>1, <2>2
<1>7. new \in Seq(Row) /\ Len(new) = k /\ \A i \in 1 .. k : new[i].txn = f[i] /\ new[i].chain = H[i]
  <2> HIDE DEF H, heads
  <2>0. \A i \in 1 .. k : f[i] \in Rows /\ H[i] \in Hash /\ heads[i].hash = H[i]
    BY <1>3, <1>5, <1>6
  <2>1. \A i \in 1 .. k : new[i].txn = f[i] /\ new[i].chain = H[i] /\ new[i] \in Row
    BY <2>0
  <2>2. new \in [1 .. k -> Row]
    BY <2>1
  <2> HIDE DEF new, k, Row
  <2> QED BY <1>2, <1>3, <2>1, <2>2
<1>8. /\ res \in Seq(Row) /\ Len(res) = n + k
      /\ \A i \in 1 .. n : res[i] = seals[i]
      /\ \A i \in 1 .. k : res[n + i].txn = f[i] /\ res[n + i].chain = H[i]
  <2> HIDE DEF new, k, Row, H
  <2>1. /\ res \in Seq(Row) /\ Len(res) = n + k
        /\ \A i \in 1 .. n + k : res[i] = IF i <= n THEN seals[i] ELSE new[i - n]
    BY <1>1, <1>7, ConcatProperties
  <2> HIDE DEF res, n
  <2>2. \A i \in 1 .. k : n + i \in 1 .. n + k /\ ~(n + i <= n) /\ (n + i) - n = i
    BY <1>1, <1>2, <1>3
  <2>3. \A i \in 1 .. n : i \in 1 .. n + k /\ i <= n
    BY <1>1, <1>2, <1>3
  <2> QED BY <1>7, <2>1, <2>2, <2>3
<1>9. ASSUME NEW i \in 1 .. k
      PROVE  res[n + i].chain =
                 Link(IF n + i = 1 THEN Genesis.hash ELSE res[n + i - 1].chain, n + i, f[i])
  <2> HIDE DEF res, H
  <2>0. \A j \in 1 .. k : res[n + j].chain = H[j]
    BY <1>8
  <2>1. res[n + i].chain = Link(IF i = 1 THEN h ELSE H[i - 1], n + i, f[i])
    BY <1>5, <2>0
  <2>2. CASE i # 1
    <3>1. i - 1 \in 1 .. k /\ n + (i - 1) = n + i - 1 /\ n + i # 1
      BY <1>1, <1>2, <1>3, <2>2
    <3>2. res[n + (i - 1)].chain = H[i - 1]
      BY <2>0, <3>1
    <3> QED BY <2>1, <2>2, <3>1, <3>2
  <2>3. CASE i = 1 /\ n = 0
    <3>1. seals = <<>>
      BY <1>1, <2>3
    <3>2. h = Genesis.hash
      BY <1>4, <3>1 DEF StoredHead
    <3> QED BY <2>1, <2>3, <3>2
  <2>4. CASE i = 1 /\ n # 0
    <3>1. seals # <<>> /\ n + i # 1 /\ n + i - 1 = n /\ n \in 1 .. n
      BY <1>1, <2>4
    <3>2. h = seals[n].chain
      BY <1>4, <3>1 DEF StoredHead
    <3>3. res[n + i - 1].chain = h
      BY <1>8, <3>1, <3>2
    <3> QED BY <2>1, <2>4, <3>1, <3>3
  <2> QED BY <2>2, <2>3, <2>4
<1>10. heads[k] \in [seq : Nat, hash : Hash] /\ heads[k].seq = n + k
  <2>1. k \in 1 .. k /\ k \in 0 .. k /\ n + k \in Nat
    BY <1>1, <1>2, <1>3
  <2>2. heads[k] = [seq |-> head[s].seq + k, hash |-> h \o Pairs(head[s].seq, f, k)]
    BY <2>1 DEF Heads, Pairs
  <2>3. heads[k].hash \in Hash /\ heads[k].seq = n + k
    BY <1>5, <1>6, <2>1
  <2> QED BY <2>1, <2>2, <2>3
<1>11. Appended(s, f) = res
  BY DEF Appended
<1> HIDE DEF res
<1> QED BY <1>1, <1>2, <1>3, <1>8, <1>9, <1>10, <1>11

\* Committing a batch extends the chain: nothing posted lies before the new head that
\* was not sealed, and every new row is linked to the one before.
LEMMA CommitInv ==
    ASSUME Inv, NEW s \in Sealers, CommitSeal(s)
    PROVE  Inv'
<1> USE SealAssumption
<1> DEFINE n == Len(seals)
<1>1. pc[s] = "chosen" /\ UNCHANGED <<nextXid, xid, state, highest, crashes>>
  BY DEF CommitSeal, journal
<1>2. PICK f \in InOrder(chosen[s]) : /\ seals' = Appended(s, f)
                                      /\ head' = [head EXCEPT ![s] = Heads(head[s], f)[Len(f)]]
  BY DEF CommitSeal, Appended
<1> DEFINE k == Len(f)
           top == Heads(head[s], f)[k]
<1>3. /\ k \in Nat \ {0} /\ n \in Nat /\ k = Cardinality(chosen[s]) /\ f \in [1 .. k -> chosen[s]]
      /\ seals' \in Seq([txn : Rows, chain : Hash]) /\ Len(seals') = n + k
      /\ \A i \in 1 .. n : seals'[i] = seals[i]
      /\ \A i \in 1 .. k : seals'[n + i].txn = f[i]
      /\ \A i \in 1 .. k : seals'[n + i].chain =
             Link(IF n + i = 1 THEN Genesis.hash ELSE seals'[n + i - 1].chain, n + i, f[i])
      /\ top \in [seq : Nat, hash : Hash] /\ top.seq = n + k
  <2>1. pc[s] = "chosen"
    BY <1>1
  <2> DEFINE res == Appended(s, f)
  <2>2. /\ k \in Nat \ {0} /\ n \in Nat /\ k = Cardinality(chosen[s]) /\ f \in [1 .. k -> chosen[s]]
        /\ res \in Seq([txn : Rows, chain : Hash]) /\ Len(res) = n + k
        /\ \A i \in 1 .. n : res[i] = seals[i]
        /\ \A i \in 1 .. k : res[n + i].txn = f[i]
        /\ \A i \in 1 .. k : res[n + i].chain =
               Link(IF n + i = 1 THEN Genesis.hash ELSE res[n + i - 1].chain, n + i, f[i])
        /\ top \in [seq : Nat, hash : Hash] /\ top.seq = n + k
    BY <2>1, AppendedRows, Zenon
  <2>3. seals' = res
    BY <1>2
  <2> HIDE DEF res, k, n, top
  <2> QED BY <2>2, <2>3
<1>4. head' = [head EXCEPT ![s] = top]
  BY <1>2
<1> HIDE DEF top, k, n
<1>5. /\ chosen' = [chosen EXCEPT ![s] = {}] /\ pc' = [pc EXCEPT ![s] = "ended"]
      /\ chosen[s] \subseteq Rows /\ xid \in [Rows -> Nat]
      /\ \A r \in Sealers : r # s => ~Busy(r)
  BY <1>1 DEF CommitSeal, Inv, TypeOK, JournalTypeOK, OneSeals, Busy
<1>6. TypeOK'
  BY <1>1, <1>3, <1>4, <1>5 DEF Inv, TypeOK, JournalTypeOK
<1>7. \A i \in 1 .. n + k : i \in 1 .. n \/ \E j \in 1 .. k : i = n + j
  <2> SUFFICES ASSUME NEW i \in 1 .. n + k, i \notin 1 .. n
               PROVE  \E j \in 1 .. k : i = n + j
    OBVIOUS
  <2>1. i - n \in 1 .. k /\ i = n + (i - n)
    BY <1>3
  <2> QED BY <2>1
<1>8. \A i \in 1 .. n : seals[i].txn \in Rows /\ Visible(seals[i].txn)
  BY RowTypes DEF Inv, SealedVisible, n
<1>9. \A i \in 1 .. k : f[i] \in Rows /\ Visible(f[i]) /\ AfterHead(f[i])
  BY <1>1, <1>3, <1>5 DEF Inv, ChosenNext
<1>10. \A i \in 1 .. n + k : seals'[i].txn \in Rows /\ Visible(seals'[i].txn)
  BY <1>3, <1>7, <1>8, <1>9
<1>11. SealedVisible'
  BY <1>1, <1>3, <1>10 DEF SealedVisible, Visible
<1>12. SealedInOrder'
  <2>1. \A i \in 1 .. n + k : state[seals'[i].txn] = "committed"
    BY <1>10 DEF Visible
  <2>2. ASSUME NEW i \in 1 .. n + k, NEW j \in 1 .. n + k, i < j
        PROVE  Before(seals'[i].txn, seals'[j].txn)
    <3>1. CASE i \in 1 .. n /\ j \in 1 .. n
      BY <1>3, <2>2, <3>1 DEF Inv, SealedInOrder, n
    <3>2. ASSUME NEW b \in 1 .. k, j = n + b, i \in 1 .. n
          PROVE  Before(seals'[i].txn, seals'[j].txn)
      <4>1. n \in 1 .. n /\ seals # <<>> /\ n = Len(seals)
        <5>1. n \in 1 .. n
          BY <1>3, <3>2
        <5>2. n = Len(seals)
          BY DEF n
        <5>3. seals # <<>>
          BY <5>1, <5>2
        <5> QED BY <5>1, <5>2, <5>3
      <4>2. Before(seals[n].txn, f[b])
        BY <1>9, <4>1 DEF AfterHead
      <4>3. i = n \/ Before(seals[i].txn, seals[n].txn)
        <5>1. i = n \/ i < n
          BY <1>3, <3>2
        <5>2. \A x, y \in 1 .. n : x < y => Before(seals[x].txn, seals[y].txn)
          BY <4>1 DEF Inv, SealedInOrder
        <5> QED BY <3>2, <4>1, <5>1, <5>2
      <4>4. seals'[i].txn = seals[i].txn /\ seals'[j].txn = f[b]
        BY <1>3, <3>2
      <4> QED BY <1>5, <1>8, <1>9, <3>2, <4>1, <4>2, <4>3, <4>4, BeforeOrder
    <3>3. ASSUME NEW a \in 1 .. k, NEW b \in 1 .. k, i = n + a, j = n + b
          PROVE  Before(seals'[i].txn, seals'[j].txn)
      <4>1. a < b
        BY <1>3, <2>2, <3>3
      <4>2. Before(f[a], f[b])
        BY <1>3, <4>1 DEF InOrder
      <4> QED BY <1>3, <3>3, <4>2
    <3>4. CASE i \notin 1 .. n /\ j \in 1 .. n
      BY <1>3, <2>2, <3>4
    <3> QED BY <1>7, <3>1, <3>2, <3>3, <3>4
  <2> QED BY <1>1, <1>3, <2>1, <2>2 DEF SealedInOrder, Before
<1>13. NoneSkipped'
  <2> SUFFICES ASSUME NEW t \in Rows, state[t] = "committed", t \notin Sealed'
               PROVE  AfterHead(t)'
    BY <1>1 DEF NoneSkipped
  <2>1. \A i \in 1 .. n + k : t # seals'[i].txn
    BY <1>3 DEF Sealed
  <2>2. t \notin Sealed
    <3>1. \A i \in 1 .. n : i \in 1 .. n + k /\ t # seals[i].txn
      BY <1>3, <2>1
    <3> QED BY <3>1 DEF Sealed, n
  <2>3. AfterHead(t)
    BY <2>2 DEF Inv, NoneSkipped
  <2>4. t \notin chosen[s]
    <3>1. \A i \in 1 .. k : t # f[i]
      <4>1. \A i \in 1 .. k : n + i \in 1 .. n + k
        BY <1>3
      <4> QED BY <1>3, <2>1, <4>1
    <3> QED BY <1>3, <3>1 DEF InOrder
  <2>5. k \in 1 .. k /\ f[k] \in chosen[s] /\ f[k] # t
    BY <1>3, <2>4
  <2>6. ~Before(t, f[k])
    BY <1>1, <2>3, <2>4, <2>5 DEF Inv, ChosenNext
  <2>7. Before(f[k], t)
    BY <1>5, <1>9, <2>5, <2>6, BeforeOrder
  <2>8. seals'[Len(seals')].txn = f[k]
    BY <1>3, <2>5
  <2> QED BY <1>1, <2>7, <2>8 DEF AfterHead, Before
<1>14. ChainVerifies'
  <2> SUFFICES ASSUME NEW i \in 1 .. n + k
               PROVE  seals'[i].chain =
                          Link(IF i = 1 THEN Genesis.hash ELSE seals'[i - 1].chain, i, seals'[i].txn)
    BY <1>3 DEF ChainVerifies, Genesis
  <2>1. CASE i \in 1 .. n
    <3>1. i # 1 => i - 1 \in 1 .. n
      BY <1>3, <2>1
    <3> QED BY <1>3, <2>1, <3>1 DEF Inv, ChainVerifies, n
  <2>2. ASSUME NEW j \in 1 .. k, i = n + j
        PROVE  seals'[i].chain =
                   Link(IF i = 1 THEN Genesis.hash ELSE seals'[i - 1].chain, i, seals'[i].txn)
    <3>1. seals'[i].txn = f[j] /\ n + j = i /\ n + j - 1 = i - 1
      BY <1>3, <2>2
    <3>2. seals'[n + j].chain =
              Link(IF n + j = 1 THEN Genesis.hash ELSE seals'[n + j - 1].chain, n + j, f[j])
      BY <1>3
    <3> QED BY <3>1, <3>2
  <2> QED BY <1>7, <2>1, <2>2
<1>15. OneSeals' /\ ChosenNext'
  <2>1. \A r \in Sealers : pc'[r] \notin {"loaded", "chosen"}
    BY <1>5 DEF Busy, Inv, TypeOK, JournalTypeOK
  <2> QED BY <2>1 DEF OneSeals, Busy, ChosenNext
<1>16. HeadSeen' /\ NeverRewound'
  <2>1. \A r \in Sealers : /\ head[r].seq \in Nat /\ head[r].seq <= n
                           /\ highest[r] \in Nat /\ highest[r] <= n
    BY DEF Inv, TypeOK, JournalTypeOK, HeadSeen, NeverRewound, n
  <2>2. \A r \in Sealers : head'[r] = IF r = s THEN top ELSE head[r]
    BY <1>4 DEF Inv, TypeOK, JournalTypeOK
  <2>3. HeadSeen'
    BY <1>3, <2>1, <2>2 DEF HeadSeen
  <2>4. NeverRewound'
    BY <1>1, <1>3, <2>1 DEF NeverRewound
  <2> QED BY <2>3, <2>4
<1>17. XidBound'
  BY <1>1 DEF Inv, XidBound
<1> QED BY <1>6, <1>11, <1>12, <1>13, <1>14, <1>15, <1>16, <1>17 DEF Inv

\* The inductive invariant, for every step.
LEMMA NextInv == Inv /\ [Next]_vars => Inv'
<1> SUFFICES ASSUME Inv, [Next]_vars PROVE Inv'
  OBVIOUS
<1>1. CASE (\E S \in SUBSET Rows : BeginPosting(S)) \/ (\E x \in 1 .. nextXid : EndPosting(x))
  BY <1>1, JournalInv
<1>2. ASSUME NEW s \in Sealers, Seal(s) \/ AbortSeal(s) \/ Crash(s)
      PROVE  Inv'
  BY <1>2, LockInv, ChooseInv, CommitInv DEF Seal
<1>3. CASE UNCHANGED vars
  <2>1. TypeOK' /\ XidBound' /\ HeadSeen' /\ NeverRewound' /\ ChainVerifies'
    BY <1>3 DEF vars, Inv, TypeOK, JournalTypeOK, XidBound, HeadSeen, NeverRewound, ChainVerifies
  <2>2. SealedVisible' /\ NoneSkipped' /\ SealedInOrder'
    BY <1>3 DEF vars, Inv, SealedVisible, Visible, NoneSkipped, Sealed, AfterHead, Before, SealedInOrder
  <2>3. OneSeals' /\ ChosenNext'
    BY <1>3 DEF vars, Inv, OneSeals, Busy, StoredHead, ChosenNext, Visible, AfterHead, Before
  <2> QED BY <2>1, <2>2, <2>3 DEF Inv
<1> QED BY <1>1, <1>2, <1>3 DEF Next

\* The inductive invariant holds always.
THEOREM InvHolds == Spec => []Inv
BY InitInv, NextInv, PTL DEF Spec

\* The type invariant of the chain and of its sealers.
THEOREM TypeCorrect == Spec => []TypeOK
<1>1. Inv => TypeOK
  BY DEF Inv
<1> QED BY <1>1, InvHolds, PTL

\* No transaction that commits late is left behind the head of the chain, and the
\* chain follows (posted_xid, id), whatever the sealers and their failures
\* (unsealedSQL and its bound on posted_xid).
THEOREM SealedIsPrefixHolds == Spec => []SealedIsPrefix
<1>1. Inv => SealedIsPrefix
  BY DEF Inv, SealedIsPrefix
<1> QED BY <1>1, InvHolds, PTL

\* Every seal is linked to the one before, across batches, instances and restarts.
THEOREM ChainVerifiesHolds == Spec => []ChainVerifies
<1>1. Inv => ChainVerifies
  BY DEF Inv
<1> QED BY <1>1, InvHolds, PTL

\* No instance takes its own chain for a rewound one.
THEOREM NeverRewoundHolds == Spec => []NeverRewound
<1>1. Inv => NeverRewound
  BY DEF Inv
<1> QED BY <1>1, InvHolds, PTL

\* The chain raises no alarm.
THEOREM ChainIsTrustedHolds == Spec => []ChainIsTrusted
<1>1. ChainVerifies /\ NeverRewound => ChainIsTrusted
  BY DEF ChainIsTrusted
<1> QED BY <1>1, ChainVerifiesHolds, NeverRewoundHolds, PTL

-------------------------------------------------------------------------------
(***************************************************************************)
(* Period close.  A request that finds the period closed gets its id when  *)
(* nothing new can be inserted, so that whatever is still inserted and not *)
(* committed has an older id, and the request waits for those.             *)
(***************************************************************************)

\* One request at a time has the row of the ledger, and nothing changes under it.
RowLock ==
    /\ \A c, d \in Closers : stage[c] = "updating" /\ stage[d] = "updating" => c = d
    /\ \A c \in Closers : stage[c] = "updating" => found[c] = (closed = target[c])

\* The requests in kept have committed and asked for what is.
KeptAgree ==
    \A c \in kept : target[c] = closed /\ stage[c] \in {"waiting", "responded", "failed"}

\* What is inserted is older than a request that found the period closed.
InsertedIsOlder ==
    \A c \in Closers :
        closed /\ found[c] /\ target[c] /\ (stage[c] = "updating" \/ c \in kept) =>
            \A p \in Posters : stage[p] = "inserted" => txid[p] < txid[c]

\* Once such a request has its response, nothing is inserted and uncommitted.
NothingInserted ==
    \A c \in Closers :
        Confirmed(c) /\ found[c] => \A p \in Posters : stage[p] # "inserted"

PeriodInv == PeriodTypeOK /\ RowLock /\ KeptAgree /\ InsertedIsOlder /\ NothingInserted

\* The inductive invariant holds before any transaction starts.
LEMMA PeriodInitInv == PeriodInit => PeriodInv
<1> SUFFICES ASSUME PeriodInit PROVE PeriodInv
  OBVIOUS
<1>1. PeriodTypeOK
  <2>1. closed \in BOOLEAN /\ target \in [Closers -> BOOLEAN] /\ found \in [Closers -> BOOLEAN]
    BY Zenon DEF PeriodInit
  <2>2. \A x \in Posters \cup Closers : stage[x] = "idle" /\ txid[x] = 0
    BY DEF PeriodInit
  <2>3. /\ stage \in [Posters \cup Closers ->
                      {"idle", "locked", "inserted", "updating", "waiting"} \cup Over]
        /\ txid \in [Posters \cup Closers -> Nat]
    BY DEF PeriodInit
  <2>4. nextTxid = 1 /\ kept = {}
    BY DEF PeriodInit
  <2> QED BY <2>1, <2>2, <2>3, <2>4 DEF PeriodTypeOK
<1>2. RowLock /\ KeptAgree /\ InsertedIsOlder /\ NothingInserted
  BY DEF PeriodInit, RowLock, KeptAgree, InsertedIsOlder, NothingInserted, Confirmed
<1> QED BY <1>1, <1>2 DEF PeriodInv

\* A step of a posting transaction keeps the invariant.
LEMMA PostingInv ==
    ASSUME PeriodInv, NEW p \in Posters, PostingStep(p)
    PROVE  PeriodInv'
<1> USE PeriodAssumption
<1>1. UNCHANGED <<closed, target, found, kept>>
  BY DEF PostingStep, Lock, Insert, CommitPosting, AbortPosting
<1>2. /\ stage' \in [Posters \cup Closers ->
                    {"idle", "locked", "inserted", "updating", "waiting"} \cup Over]
      /\ \A x \in (Posters \cup Closers) \ {p} : stage'[x] = stage[x]
      /\ stage'[p] \in {"locked", "inserted", "refused", "landed"}
      /\ stage'[p] = "inserted" => ~closed
  BY DEF PostingStep, Lock, Insert, CommitPosting, AbortPosting, GoOn, PeriodInv, PeriodTypeOK, Over
<1>3. /\ \A x \in (Posters \cup Closers) \ {p} : txid'[x] = txid[x]
      /\ txid' \in [Posters \cup Closers -> Nat] /\ nextTxid' \in Nat \ {0}
      /\ \A x \in Posters \cup Closers : txid'[x] < nextTxid'
  BY DEF PostingStep, Lock, Insert, CommitPosting, AbortPosting, NewTxid, PeriodInv, PeriodTypeOK
<1>4. PeriodTypeOK'
  BY <1>1, <1>2, <1>3 DEF PeriodInv, PeriodTypeOK
<1>5. \A c \in Closers : stage'[c] = stage[c] /\ txid'[c] = txid[c]
  BY <1>2, <1>3
<1>6. RowLock' /\ KeptAgree'
  BY <1>1, <1>5 DEF PeriodInv, RowLock, KeptAgree, PeriodTypeOK
<1>7. InsertedIsOlder'
  BY <1>1, <1>2, <1>3, <1>5 DEF PeriodInv, InsertedIsOlder
<1>8. NothingInserted'
  BY <1>1, <1>2, <1>5 DEF PeriodInv, NothingInserted, Confirmed
<1> QED BY <1>4, <1>6, <1>7, <1>8 DEF PeriodInv

\* The row lock of closePeriod keeps the invariant: one close at a time.
LEMMA BeginCloseInv ==
    ASSUME PeriodInv, NEW c \in Closers, NEW t \in BOOLEAN, BeginClose(c, t)
    PROVE  PeriodInv'
<1> USE PeriodAssumption DEF BeginClose, NewTxid, GoOn, PeriodInv
<1>1. PeriodTypeOK'
  BY DEF PeriodTypeOK, Over
<1>2. RowLock'
  BY DEF PeriodTypeOK, RowLock
<1>3. c \notin kept /\ KeptAgree'
  BY DEF PeriodTypeOK, KeptAgree
<1>4. /\ UNCHANGED <<closed, kept>>
      /\ txid'[c] = nextTxid
      /\ \A x \in (Posters \cup Closers) \ {c} : txid'[x] = txid[x] /\ stage'[x] = stage[x]
      /\ \A d \in Closers \ {c} : target'[d] = target[d] /\ found'[d] = found[d]
  BY DEF PeriodTypeOK
<1>5. InsertedIsOlder'
  <2> SUFFICES ASSUME NEW d \in Closers, NEW p \in Posters, stage'[p] = "inserted",
                      closed', found'[d], target'[d], stage'[d] = "updating" \/ d \in kept'
               PROVE  txid'[p] < txid'[d]
    BY DEF InsertedIsOlder
  <2>1. stage[p] = "inserted" /\ txid'[p] = txid[p] /\ txid[p] < nextTxid
    BY <1>4 DEF PeriodTypeOK
  <2>2. CASE d = c
    BY <1>4, <2>1, <2>2
  <2>3. CASE d # c
    BY <1>4, <2>1, <2>3 DEF InsertedIsOlder
  <2> QED BY <2>2, <2>3
<1>6. NothingInserted'
  <2> SUFFICES ASSUME NEW d \in Closers, Confirmed(d)', found'[d], NEW p \in Posters
               PROVE  stage'[p] # "inserted"
    BY DEF NothingInserted
  <2>1. d \in kept /\ d # c
    BY <1>3, <1>4 DEF Confirmed
  <2>2. Confirmed(d) /\ found[d]
    BY <1>4, <2>1 DEF Confirmed
  <2>3. stage[p] # "inserted"
    BY <2>2 DEF NothingInserted
  <2> QED BY <1>4, <2>3
<1> QED BY <1>1, <1>2, <1>3, <1>5, <1>6

\* The commit of a close, which starts the wait, keeps the invariant.
LEMMA CommitCloseInv ==
    ASSUME PeriodInv, NEW c \in Closers, CommitClose(c)
    PROVE  PeriodInv'
<1> USE PeriodAssumption DEF CommitClose, GoOn, PeriodInv
<1>1. PeriodTypeOK'
  BY DEF PeriodTypeOK, Over
<1>2. /\ UNCHANGED <<txid, target, found>> /\ closed' = target[c] /\ stage'[c] = "waiting"
      /\ \A x \in (Posters \cup Closers) \ {c} : stage'[x] = stage[x]
      /\ \A d \in Closers : stage'[d] # "updating"
  BY DEF PeriodTypeOK, RowLock
<1>3. RowLock'
  BY <1>2 DEF RowLock
<1>4. CASE found[c]
  <2>1. closed' = closed /\ kept' = kept \cup {c}
    BY <1>4 DEF RowLock, PeriodTypeOK
  <2>2. KeptAgree'
    BY <1>2, <2>1 DEF KeptAgree, PeriodTypeOK
  <2>3. InsertedIsOlder'
    BY <1>2, <2>1 DEF InsertedIsOlder
  <2>4. NothingInserted'
    BY <1>2, <2>1 DEF NothingInserted, Confirmed
  <2> QED BY <1>1, <1>3, <2>2, <2>3, <2>4
<1>5. CASE ~found[c]
  <2>1. kept' = {c}
    BY <1>5
  <2> QED BY <1>1, <1>2, <1>3, <1>5, <2>1 DEF KeptAgree, InsertedIsOlder, NothingInserted, Confirmed
<1> QED BY <1>4, <1>5

\* A request that ends without a change of the period.
LEMMA EndCloseInv ==
    ASSUME PeriodInv, NEW c \in Closers, AbortClose(c) \/ Respond(c) \/ GiveUpWaiting(c)
    PROVE  PeriodInv'
<1> USE PeriodAssumption DEF AbortClose, Respond, GiveUpWaiting, GoOn, PeriodInv
<1>1. PeriodTypeOK'
  BY DEF PeriodTypeOK, Over
<1>2. /\ UNCHANGED <<closed, txid, nextTxid, target, found, kept>>
      /\ \A x \in (Posters \cup Closers) \ {c} : stage'[x] = stage[x]
      /\ stage'[c] \in {"responded", "failed"}
      /\ stage[c] \in {"updating", "waiting"}
  BY DEF PeriodTypeOK
<1>3. RowLock' /\ KeptAgree' /\ InsertedIsOlder'
  BY <1>2 DEF RowLock, KeptAgree, InsertedIsOlder, PeriodTypeOK
<1>4. NothingInserted'
  <2> SUFFICES ASSUME NEW d \in Closers, Confirmed(d)', found'[d], NEW p \in Posters
               PROVE  stage[p] # "inserted"
    BY <1>2 DEF NothingInserted
  <2>1. CASE d # c
    BY <1>2, <2>1 DEF NothingInserted, Confirmed
  <2>2. CASE d = c
    <3>1. closed /\ found[c] /\ c \in kept /\ stage'[c] = "responded"
      BY <1>2, <2>2 DEF Confirmed
    <3>2. XminAbove(txid[c])
      BY <3>1 DEF PeriodTypeOK
    <3>3. stage[p] = "inserted" => txid[p] < txid[c]
      BY <3>1 DEF InsertedIsOlder, KeptAgree
    <3>4. stage[p] = "inserted" => txid[p] > txid[c]
      BY <3>2 DEF XminAbove, InProgress
    <3> QED BY <3>3, <3>4 DEF PeriodTypeOK
  <2> QED BY <2>1, <2>2
<1> QED BY <1>1, <1>3, <1>4

\* Every step keeps the inductive invariant.
LEMMA PeriodNextInv == PeriodInv /\ [PeriodNext]_periodVars => PeriodInv'
<1> SUFFICES ASSUME PeriodInv, [PeriodNext]_periodVars PROVE PeriodInv'
  OBVIOUS
<1>1. CASE UNCHANGED periodVars
  BY <1>1 DEF periodVars, PeriodInv, PeriodTypeOK, RowLock, KeptAgree, InsertedIsOlder, NothingInserted, Confirmed
<1>2. CASE PeriodNext
  BY <1>2, PostingInv, BeginCloseInv, CommitCloseInv, EndCloseInv DEF PeriodNext, ClosingStep
<1> QED BY <1>1, <1>2

\* Every reachable state is well typed and ids are given out once.
THEOREM PeriodTypeCorrect == PeriodSpec => []PeriodTypeOK
<1>1. PeriodInv => PeriodTypeOK
  BY DEF PeriodInv
<1> QED BY <1>1, PeriodInitInv, PeriodNextInv, PTL DEF PeriodSpec

\* Once such a request has its response, no step lets a posting land.
LEMMA NothingLandsStep ==
    PeriodInv /\ [PeriodNext]_periodVars =>
        [(\E c \in Closers : Confirmed(c) /\ found[c]) => Landed' = Landed]_periodVars
<1> SUFFICES ASSUME PeriodInv, PeriodNext, NEW c \in Closers, Confirmed(c), found[c]
             PROVE  Landed' = Landed
  OBVIOUS
<1>1. \A p \in Posters : stage[p] # "inserted"
  BY DEF PeriodInv, NothingInserted
<1>2. ASSUME NEW p \in Posters PROVE stage'[p] = "landed" <=> stage[p] = "landed"
  <2>1. ASSUME NEW q \in Posters, PostingStep(q) PROVE stage'[p] = "landed" <=> stage[p] = "landed"
    BY <1>1, <2>1 DEF PostingStep, Lock, Insert, CommitPosting, AbortPosting, GoOn, PeriodInv, PeriodTypeOK
  <2>2. ASSUME NEW d \in Closers, ClosingStep(d) PROVE stage'[p] = stage[p]
    BY <2>2, PeriodAssumption
       DEF ClosingStep, BeginClose, CommitClose, AbortClose, Respond, GiveUpWaiting, GoOn, PeriodInv, PeriodTypeOK
  <2> QED BY <2>1, <2>2 DEF PeriodNext
<1> QED BY <1>2 DEF Landed

\* Nothing lands once a request that found the period closed has its response.
THEOREM NothingLandsOnceRepeatedHolds == PeriodSpec => NothingLandsOnceRepeated
BY NothingLandsStep, PeriodInitInv, PeriodNextInv, PTL DEF PeriodSpec, NothingLandsOnceRepeated

-------------------------------------------------------------------------------
(***************************************************************************)
(* Both in one specification.                                              *)
(***************************************************************************)

\* A step of the composition is a step of each part, or none of it.
LEMMA StepOfEach ==
    ASSUME [SealsPart \/ PeriodPart]_snapshotVars
    PROVE  [Next]_vars /\ [PeriodNext]_periodVars
BY DEF SealsPart, PeriodPart, snapshotVars

\* The chain is trusted in the composition: no gap, in order, linked, no false alarm
\* (seal, unsealedSQL).
THEOREM ChainIsSound == SnapshotsSpec => [](SealedIsPrefix /\ ChainIsTrusted)
<1>1. SnapshotsInit => Inv
  BY InitInv DEF SnapshotsInit
<1>2. Inv /\ [SealsPart \/ PeriodPart]_snapshotVars => Inv'
  BY NextInv, StepOfEach
<1>3. Inv => SealedIsPrefix /\ ChainIsTrusted
  BY DEF Inv, SealedIsPrefix, ChainIsTrusted
<1> QED BY <1>1, <1>2, <1>3, PTL DEF SnapshotsSpec

\* A repeated request settles the period in the composition (closePeriod).
THEOREM PeriodIsSettled == SnapshotsSpec => NothingLandsOnceRepeated
<1>1. SnapshotsInit => PeriodInv
  BY PeriodInitInv DEF SnapshotsInit
<1>2. PeriodInv /\ [SealsPart \/ PeriodPart]_snapshotVars => PeriodInv'
  BY PeriodNextInv, StepOfEach
<1>3. PeriodInv /\ [SealsPart \/ PeriodPart]_snapshotVars =>
        [(\E c \in Closers : Confirmed(c) /\ found[c]) => Landed' = Landed]_periodVars
  BY StepOfEach, NothingLandsStep
<1> QED BY <1>1, <1>2, <1>3, PTL DEF SnapshotsSpec, NothingLandsOnceRepeated
===============================================================================
