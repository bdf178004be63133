----------------------------- MODULE BatcherProofs -----------------------------
(***************************************************************************)
(* The group commit implements PostingService, for any requests, keys,     *)
(* bodies and accounts, any number of workers, any sizes of the queue and  *)
(* the batches and any number of attempts.  The argument: a request is in  *)
(* one place, so that only the worker that has it can post it; what a      *)
(* transaction has read of a key stays true, since a key is written once;  *)
(* and an answer that was true when it was made stays true.                *)
(***************************************************************************)
EXTENDS Batcher, SumsTheorems, SequenceTheorems

TypeOK ==
    /\ journal \in [Keys -> Requests \cup {NoRequest}]
    /\ ret \in [Requests -> Answers \cup {"none"}]
    /\ waiting \subseteq Requests /\ canceled \subseteq Requests
    /\ queue \in Seq(Requests)
    /\ done \in [Requests -> {"none", "ok", "refused", "failed", "canceled"}]
    /\ mode \in [Workers -> {"work", "drain", "gone"}]
    /\ pc \in [Workers -> {"select", "collect", "commit", "read", "write", "deliver"}]
    /\ batch \in [Workers -> Seq(Requests)]
    /\ rest \in [Workers -> Seq(Requests)]
    /\ seen \in [Workers -> [Keys -> Requests \cup {NoRequest}]]
    /\ answers \in [Workers -> [Requests -> {"none", "ok", "refused", "failed"}]]
    /\ stopped \in BOOLEAN

\* The requests a worker has.
Has(w) == ToSet(batch[w]) \cup ToSet(rest[w])

\* A request is once in the queue, or once with one worker.
OnePlace ==
    /\ IsInjective(queue)
    /\ \A w \in Workers : /\ IsInjective(batch[w]) /\ IsInjective(rest[w])
                          /\ ToSet(batch[w]) \cap ToSet(rest[w]) = {}
                          /\ Has(w) \cap ToSet(queue) = {}
    /\ \A v, w \in Workers : v # w => Has(v) \cap Has(w) = {}

\* A worker that selects has nothing, one that does not has a batch, and a group is
\* posted one by one only after it has failed.
Round(w) ==
    /\ pc[w] = "select" => batch[w] = <<>> /\ rest[w] = <<>>
    /\ pc[w] # "select" => batch[w] # <<>>
    /\ pc[w] = "collect" => rest[w] = <<>>
    /\ rest[w] # <<>> => Len(batch[w]) = 1
    /\ mode[w] = "gone" => pc[w] = "select"

Rounds ==
    /\ \A w \in Workers : Round(w)
    /\ stopped => \A w \in Workers : mode[w] = "gone"

InFlight(r) == r \in ToSet(queue) \/ \E w \in Workers : r \in Has(w)

\* A call that waits is in flight or has its result; one in flight has none yet, and
\* has not returned unless it was cancelled or the service has stopped.
CallsKept ==
    /\ \A r \in waiting : ret[r] = "none" /\ (done[r] = "none" => InFlight(r))
    /\ \A r \in Requests : Submitting(r) => ~InFlight(r) /\ done[r] = "none"
    /\ \A r \in Requests : InFlight(r) => done[r] = "none" /\ (ret[r] \in {"none", "canceled"} \/ stopped)

\* What was not taken from the queue was not posted.
UntakenUnposted ==
    \A r \in Requests : Submitting(r) \/ r \in ToSet(queue) => journal[KeyOf[r]] # r

\* What a transaction has read stays true: of a key that was free, whoever has written
\* it since was not of this batch.
ReadHolds(w) ==
    pc[w] = "write" => \A r \in ToSet(batch[w]) :
        /\ seen[w][KeyOf[r]] = NoRequest => journal[KeyOf[r]] # r
        /\ seen[w][KeyOf[r]] # NoRequest => journal[KeyOf[r]] = seen[w][KeyOf[r]]

\* An answer is true.
True(r, answer) ==
    /\ answer = "ok" => journal[KeyOf[r]] # NoRequest /\ BodyOf[journal[KeyOf[r]]] = BodyOf[r]
    /\ answer = "refused" => journal[KeyOf[r]] # r

Delivers(w) ==
    pc[w] = "deliver" => \A r \in ToSet(batch[w]) : answers[w][r] # "none" /\ True(r, answers[w][r])

AnswersTrue ==
    /\ \A r \in Requests : True(r, done[r])
    /\ \A w \in Workers : ReadHolds(w) /\ Delivers(w)

(***************************************************************************)
(* The inductive invariant.                                                *)
(***************************************************************************)
Inv == /\ TypeOK /\ OnePlace /\ Rounds /\ CallsKept
       /\ UntakenUnposted /\ AnswersTrue

-------------------------------------------------------------------------------
(***************************************************************************)
(* Sequences.                                                              *)
(***************************************************************************)

LEMMA NoneOrOne ==
    ASSUME NEW S, NEW x \in S
    PROVE  /\ <<>> \in Seq(S) /\ ToSet(<<>>) = {} /\ IsInjective(<<>>)
           /\ <<x>> \in Seq(S) /\ ToSet(<<x>>) = {x} /\ IsInjective(<<x>>) /\ <<x>> # <<>> /\ Len(<<x>>) = 1
BY DEF ToSet, IsInjective

LEMMA OneMore ==
    ASSUME NEW S, NEW s \in Seq(S), NEW x \in S
    PROVE  /\ Append(s, x) \in Seq(S) /\ Append(s, x) # <<>>
           /\ ToSet(Append(s, x)) = ToSet(s) \cup {x}
           /\ IsInjective(s) /\ x \notin ToSet(s) => IsInjective(Append(s, x))
<1> DEFINE a == Append(s, x)
<1>1. /\ a \in Seq(S) /\ Len(a) = Len(s) + 1 /\ Len(s) \in Nat
      /\ \A i \in 1 .. Len(s) : a[i] = s[i]
      /\ a[Len(s) + 1] = x /\ a # <<>>
      /\ DOMAIN a = 1 .. Len(s) + 1 /\ DOMAIN s = 1 .. Len(s)
  BY AppendProperties, LenProperties
<1> HIDE DEF a
<1>2. ToSet(a) = ToSet(s) \cup {x}
  BY <1>1 DEF ToSet
<1>3. ASSUME IsInjective(s), x \notin ToSet(s) PROVE IsInjective(a)
  BY <1>1, <1>3 DEF ToSet, IsInjective
<1> QED BY <1>1, <1>2, <1>3 DEF a

LEMMA OneLess ==
    ASSUME NEW S, NEW s \in Seq(S), s # <<>>
    PROVE  /\ Head(s) \in S /\ Tail(s) \in Seq(S)
           /\ ToSet(s) = {Head(s)} \cup ToSet(Tail(s))
           /\ IsInjective(s) => IsInjective(Tail(s)) /\ Head(s) \notin ToSet(Tail(s))
           /\ Len(s) \in Nat \ {0}
           /\ Len(s) = 1 => ToSet(s) = {Head(s)}
           /\ Len(s) > 1 => Tail(s) # <<>>
<1> DEFINE t == Tail(s)
           h == Head(s)
<1>1. /\ t \in Seq(S) /\ Len(t) = Len(s) - 1 /\ Len(s) \in Nat \ {0} /\ h \in S /\ h = s[1]
      /\ \A i \in 1 .. Len(t) : t[i] = s[i + 1]
  BY HeadTailProperties, EmptySeq
<1>2. DOMAIN s = 1 .. Len(s) /\ DOMAIN t = 1 .. Len(s) - 1
  BY <1>1, LenProperties
<1> HIDE DEF t, h
<1>3. ToSet(s) = {h} \cup ToSet(t)
  <2>1. ASSUME NEW i \in 1 .. Len(s), i # 1 PROVE i - 1 \in 1 .. Len(t) /\ s[i] = t[i - 1]
    <3>1. i - 1 \in 1 .. Len(t) /\ (i - 1) + 1 = i
      BY <1>1, <2>1
    <3> QED BY <1>1, <3>1
  <2>2. ASSUME NEW x \in ToSet(s) PROVE x = h \/ x \in ToSet(t)
    <3>1. PICK i \in 1 .. Len(s) : x = s[i]
      BY <1>2 DEF ToSet
    <3>2. CASE i = 1
      BY <1>1, <3>1, <3>2
    <3>3. CASE i # 1
      <4>1. i - 1 \in 1 .. Len(s) - 1 /\ x = t[i - 1]
        BY <1>1, <2>1, <3>1, <3>3
      <4> QED BY <1>2, <4>1 DEF ToSet
    <3> QED BY <3>2, <3>3
  <2>3. h \in ToSet(s)
    BY <1>1, <1>2 DEF ToSet
  <2>4. ASSUME NEW j \in 1 .. Len(t) PROVE t[j] \in ToSet(s)
    BY <1>1, <1>2 DEF ToSet
  <2>5. \A x \in ToSet(t) : x \in ToSet(s)
    BY <1>1, <1>2, <2>4 DEF ToSet
  <2> QED BY <2>2, <2>3, <2>5
<1>4. ASSUME IsInjective(s) PROVE IsInjective(t) /\ h \notin ToSet(t)
  <2>1. \A i, j \in 1 .. Len(s) : s[i] = s[j] => i = j
    BY <1>2, <1>4 DEF IsInjective
  <2>2. \A i \in 1 .. Len(s) - 1 : i + 1 \in 1 .. Len(s) /\ i + 1 # 1 /\ t[i] = s[i + 1]
    BY <1>1
  <2>3. ASSUME NEW i \in 1 .. Len(s) - 1, NEW j \in 1 .. Len(s) - 1, t[i] = t[j] PROVE i = j
    <3>1. i + 1 = j + 1
      BY <2>1, <2>2, <2>3
    <3> QED BY <3>1
  <2>4. IsInjective(t)
    BY <1>2, <2>3 DEF IsInjective
  <2>5. ASSUME NEW i \in 1 .. Len(s) - 1 PROVE t[i] # h
    <3>1. 1 \in 1 .. Len(s)
      BY <1>1
    <3> QED BY <1>1, <2>1, <2>2, <3>1
  <2> QED BY <1>2, <2>4, <2>5 DEF ToSet
<1>5. Len(s) = 1 => ToSet(s) = {h}
  BY <1>1, <1>2 DEF ToSet
<1>6. Len(s) > 1 => t # <<>>
  BY <1>1
<1> QED BY <1>1, <1>3, <1>4, <1>5, <1>6 DEF t, h

\* The live requests of a batch are those whose context is not done, each once if it is
\* once in the batch.
LEMMA LiveIs ==
    ASSUME NEW S, NEW b \in Seq(S), NEW over
    PROVE  /\ Live(b, over) \in Seq(S)
           /\ ToSet(Live(b, over)) = ToSet(b) \ over
           /\ IsInjective(b) => IsInjective(Live(b, over))
<1> DEFINE N == Len(b)
           Upto(m) == {b[j] : j \in 1 .. m}
           Fits(m, s) == /\ s \in Seq(S) /\ ToSet(s) = Upto(m) \ over
                         /\ IsInjective(b) => IsInjective(s)
           Step(f, i) == IF i = 0 THEN <<>> ELSE IF b[i] \in over THEN f[i - 1] ELSE Append(f[i - 1], b[i])
           Good(m) == \E f \in [0 .. m -> Seq(S)] : \A i \in 0 .. m : f[i] = Step(f, i) /\ Fits(i, f[i])
           T == {m \in 0 .. N : ~Good(m)}
           Is(f) == f = [i \in 0 .. N |-> Step(f, i)]
<1>0. N \in Nat /\ DOMAIN b = 1 .. N /\ \A i \in 1 .. N : b[i] \in S
  BY LenProperties, ElementOfSeq
<1>1. Good(N)
  <2> SUFFICES ASSUME ~Good(N) PROVE FALSE
    OBVIOUS
  <2>1. PICK m \in T : \A y \in T : m <= y
    <3>1. T \in SUBSET Nat /\ T # {}
      <4> HIDE DEF Good
      <4>1. N \in T
        BY <1>0
      <4> QED BY <1>0, <4>1
    <3> HIDE DEF T
    <3> QED BY <3>1, LeastNatural
  <2>2. m \in 0 .. N /\ ~Good(m) /\ \A y \in 0 .. N : ~Good(y) => m <= y
    BY <2>1
  <2>3. Fits(0, <<>>)
    <3>1. Upto(0) = {}
      OBVIOUS
    <3>2. <<>> \in Seq(S) /\ ToSet(<<>>) = {} /\ IsInjective(<<>>)
      BY DEF ToSet, IsInjective
    <3> QED BY <3>1, <3>2
  <2>4. Good(0)
    <3> DEFINE f == [i \in 0 .. 0 |-> <<>>]
    <3>1. \A i \in 0 .. 0 : i = 0
      OBVIOUS
    <3>2. f \in [0 .. 0 -> Seq(S)] /\ \A i \in 0 .. 0 : f[i] = <<>>
      BY <2>3
    <3> HIDE DEF f, Fits
    <3>3. \A i \in 0 .. 0 : f[i] = Step(f, i) /\ Fits(i, f[i])
      BY <2>3, <3>1, <3>2
    <3> QED BY <3>2, <3>3
  <2>5. m # 0 /\ m - 1 \in 0 .. N /\ Good(m - 1) /\ m \in 1 .. N
    <3> HIDE DEF Good
    <3>1. m # 0
      BY <2>2, <2>4
    <3>2. m - 1 \in 0 .. N /\ ~(m <= m - 1) /\ m \in 1 .. N
      BY <1>0, <2>2, <3>1
    <3> QED BY <2>2, <3>1, <3>2
  <2>6. PICK f \in [0 .. m - 1 -> Seq(S)] : \A i \in 0 .. m - 1 : f[i] = Step(f, i) /\ Fits(i, f[i])
    BY <2>5
  <2> DEFINE last == IF b[m] \in over THEN f[m - 1] ELSE Append(f[m - 1], b[m])
             h == [i \in 0 .. m |-> IF i = m THEN last ELSE f[i]]
  <2>7. m - 1 \in 0 .. m - 1 /\ f[m - 1] \in Seq(S) /\ Fits(m - 1, f[m - 1]) /\ b[m] \in S
    <3> HIDE DEF Fits
    <3>1. m - 1 \in 0 .. m - 1
      BY <1>0, <2>5
    <3> QED BY <1>0, <2>5, <2>6, <3>1
  <2>8. Upto(m) = Upto(m - 1) \cup {b[m]}
    <3>1. \A j \in 1 .. m : j = m \/ j \in 1 .. m - 1
      BY <1>0, <2>5
    <3>2. \A j \in 1 .. m - 1 : j \in 1 .. m
      BY <1>0, <2>5
    <3>3. m \in 1 .. m
      BY <1>0, <2>5
    <3> QED BY <3>1, <3>2, <3>3
  <2>9. Fits(m, last)
    <3>1. CASE b[m] \in over
      BY <2>7, <2>8, <3>1
    <3>2. CASE b[m] \notin over
      <4>1. /\ last \in Seq(S) /\ ToSet(last) = ToSet(f[m - 1]) \cup {b[m]}
            /\ IsInjective(b) => IsInjective(f[m - 1])
            /\ IsInjective(f[m - 1]) /\ b[m] \notin ToSet(f[m - 1]) => IsInjective(last)
        <5>1. last = Append(f[m - 1], b[m])
          BY <3>2
        <5>2. IsInjective(b) => IsInjective(f[m - 1])
          BY <2>7
        <5> DEFINE s == f[m - 1]
                   x == b[m]
        <5>3. s \in Seq(S) /\ x \in S /\ last = Append(s, x)
          BY <2>7, <5>1
        <5> HIDE DEF last, Fits, s, x
        <5>4. /\ last \in Seq(S) /\ ToSet(last) = ToSet(s) \cup {x}
              /\ IsInjective(s) /\ x \notin ToSet(s) => IsInjective(last)
          BY <5>3, OneMore
        <5> QED BY <5>2, <5>4 DEF s, x
      <4>2. IsInjective(b) => b[m] \notin ToSet(f[m - 1])
        <5>1. ASSUME IsInjective(b), NEW j \in 1 .. m - 1 PROVE b[j] # b[m]
          <6> HIDE DEF Good, T, N
          <6>1. j \in 1 .. N /\ m \in 1 .. N /\ j # m
            BY <1>0, <2>5
          <6> QED BY <1>0, <5>1, <6>1 DEF IsInjective
        <5> QED BY <2>7, <5>1
      <4>3. ToSet(last) = Upto(m) \ over
        <5> HIDE DEF last, Upto
        <5> QED BY <2>7, <2>8, <3>2, <4>1
      <4> HIDE DEF last, Upto
      <4> QED BY <2>7, <4>1, <4>2, <4>3
    <3> QED BY <3>1, <3>2
  <2>10. last \in Seq(S)
    BY <2>9
  <2>11. \A i \in 0 .. m : i # m => i \in 0 .. m - 1
    BY <1>0, <2>5
  <2>12. h \in [0 .. m -> Seq(S)] /\ h[m] = last /\ \A i \in 0 .. m - 1 : h[i] = f[i]
    <3> HIDE DEF last
    <3>1. m \in 0 .. m /\ \A i \in 0 .. m - 1 : i \in 0 .. m /\ i # m
      BY <1>0, <2>5
    <3> QED BY <2>6, <2>10, <2>11, <3>1
  <2>13. ASSUME NEW i \in 0 .. m PROVE h[i] = Step(h, i) /\ Fits(i, h[i])
    <3>1. i # 0 => i - 1 \in 0 .. m - 1
      BY <1>0, <2>5
    <3>2. CASE i = m
      <4>1. h[m - 1] = f[m - 1]
        BY <2>7, <2>12
      <4>2. Step(h, m) = last
        <5> HIDE DEF h
        <5> QED BY <2>5, <4>1
      <4> HIDE DEF h, last, Fits, Step
      <4> QED BY <2>9, <2>12, <3>2, <4>2
    <3>3. CASE i # m
      <4>1. h[i] = f[i] /\ (i # 0 => h[i - 1] = f[i - 1])
        BY <2>11, <2>12, <3>1, <3>3
      <4>2. Step(h, i) = Step(f, i)
        <5> HIDE DEF h
        <5> QED BY <4>1
      <4> HIDE DEF h, Fits, Step
      <4> QED BY <2>6, <2>11, <3>3, <4>1, <4>2
    <3> QED BY <3>2, <3>3
  <2> HIDE DEF h, Fits, Step
  <2> QED BY <2>2, <2>12, <2>13
<1>2. PICK f \in [0 .. N -> Seq(S)] : \A i \in 0 .. N : f[i] = Step(f, i) /\ Fits(i, f[i])
  BY <1>1
<1>3. Is(f)
  <2> HIDE DEF Fits, Step
  <2> QED BY <1>2
<1>4. \A g : Is(g) => \A i \in 0 .. N : g[i] = Step(g, i)
  <2> HIDE DEF Step
  <2> QED OBVIOUS
<1> DEFINE live == CHOOSE g : Is(g)
<1>5. Live(b, over) = live[N]
  BY DEF Live
<1>6. Is(live)
  <2> HIDE DEF Is
  <2> QED BY <1>3
<1>7. live[N] = f[N]
  <2> DEFINE U == {i \in 0 .. N : live[i] # f[i]}
  <2> SUFFICES ASSUME live[N] # f[N] PROVE FALSE
    OBVIOUS
  <2>1. PICK m \in U : \A y \in U : m <= y
    <3> HIDE DEF live
    <3>1. N \in U /\ U \in SUBSET Nat
      BY <1>0
    <3> HIDE DEF U
    <3> QED BY <3>1, LeastNatural
  <2>2. live[m] = Step(live, m) /\ f[m] = Step(f, m) /\ m \in 0 .. N /\ live[m] # f[m]
    <3> HIDE DEF live, Step, Fits, Is
    <3> QED BY <1>2, <1>4, <1>6, <2>1
  <2>3. m # 0
    <3> HIDE DEF live
    <3> QED BY <2>2
  <2>4. m - 1 \in 0 .. N /\ ~(m <= m - 1)
    BY <1>0, <2>2, <2>3
  <2>5. live[m - 1] = f[m - 1]
    <3> HIDE DEF live
    <3> QED BY <2>1, <2>4
  <2> HIDE DEF live
  <2> QED BY <2>2, <2>3, <2>5
<1>8. Upto(N) = ToSet(b)
  BY <1>0 DEF ToSet
<1>9. Fits(N, f[N])
  <2> HIDE DEF Fits, Step
  <2> QED BY <1>0, <1>2
<1> HIDE DEF live, Upto
<1> QED BY <1>5, <1>7, <1>8, <1>9

-------------------------------------------------------------------------------
(***************************************************************************)
(* What a step of a worker may do.                                         *)
(***************************************************************************)

OthersStay(w) ==
    /\ UNCHANGED <<ret, waiting, stopped>>
    /\ \A v \in Workers \ {w} : /\ pc'[v] = pc[v] /\ mode'[v] = mode[v]
                                /\ batch'[v] = batch[v] /\ rest'[v] = rest[v]
                                /\ seen'[v] = seen[v] /\ answers'[v] = answers[v]

\* It takes requests from the queue and drops some of its own.
Takes(w) ==
    /\ mode[w] # "gone"
    /\ ToSet(queue') \subseteq ToSet(queue) /\ IsInjective(queue')
    /\ Has(w)' \subseteq Has(w) \cup (ToSet(queue) \ ToSet(queue'))
    /\ IsInjective(batch'[w]) /\ IsInjective(rest'[w]) /\ ToSet(batch'[w]) \cap ToSet(rest'[w]) = {}

\* Keys are written once, and only by requests of its batch.
Writes(w) ==
    /\ \A k \in Keys : journal[k] # NoRequest => journal'[k] = journal[k]
    /\ \A r \in Requests : journal'[KeyOf[r]] = r => journal[KeyOf[r]] = r \/ r \in ToSet(batch[w])

\* Results are true, and are given to the requests that it drops.
Gives(w) ==
    /\ \A r \in Requests :
           \/ done'[r] = done[r]
           \/ r \in ToSet(batch[w]) /\ r \notin Has(w)' /\ done'[r] # "none" /\ True(r, done[r])'
    /\ \A r \in Has(w) \cup ToSet(queue) : r \in Has(w)' \/ r \in ToSet(queue') \/ done'[r] # "none"

Moves(w) ==
    /\ OthersStay(w) /\ Takes(w) /\ Writes(w) /\ Gives(w)
    /\ Round(w)' /\ ReadHolds(w)' /\ Delivers(w)'

\* A worker that does something is not gone, and the service has not stopped.
LEMMA NotStopped ==
    ASSUME Inv, NEW w \in Workers, mode[w] # "gone"
    PROVE  stopped = FALSE
BY DEF Inv, Rounds, TypeOK

\* Such a step keeps the invariant.
LEMMA MovesInv ==
    ASSUME Inv, NEW w \in Workers, Moves(w), TypeOK'
    PROVE  Inv'
<1>0. /\ TypeOK /\ OnePlace /\ Rounds /\ CallsKept /\ UntakenUnposted /\ AnswersTrue
      /\ OthersStay(w) /\ Takes(w) /\ Writes(w) /\ Gives(w)
      /\ Round(w)' /\ ReadHolds(w)' /\ Delivers(w)'
  BY DEF Inv, Moves
<1>1. stopped = FALSE /\ stopped' = FALSE /\ ret' = ret /\ waiting' = waiting
  BY <1>0, NotStopped DEF OthersStay, Takes
<1>2. \A v \in Workers \ {w} : Has(v)' = Has(v)
  BY <1>0 DEF OthersStay, Has
<1>3. \A v \in Workers : \A r \in Has(v) : r \notin ToSet(queue)
  BY <1>0 DEF OnePlace
<1>4. \A v \in Workers \ {w} : \A r \in Has(v) : r \notin Has(w)
  BY <1>0 DEF OnePlace
<1>5. \A r : r \in Has(w)' => (r \in Has(w) \/ r \in ToSet(queue)) /\ r \notin ToSet(queue')
  BY <1>0, <1>3 DEF Takes
<1>6. \A r : r \in ToSet(batch[w]) => r \in Has(w)
  BY DEF Has
<1>7. \A r : InFlight(r)' => InFlight(r)
  <2> SUFFICES ASSUME NEW r, InFlight(r)' PROVE InFlight(r)
    OBVIOUS
  <2>1. CASE r \in ToSet(queue')
    BY <1>0, <2>1 DEF Takes, InFlight
  <2>2. ASSUME NEW v \in Workers, r \in Has(v)' PROVE InFlight(r)
    BY <1>2, <1>5, <2>2 DEF InFlight
  <2> QED BY <2>1, <2>2 DEF InFlight
<1>8. OnePlace'
  <2>1. IsInjective(queue)'
    BY <1>0 DEF Takes
  <2>2. ASSUME NEW v \in Workers
        PROVE  /\ IsInjective(batch[v])' /\ IsInjective(rest[v])'
               /\ (ToSet(batch[v]) \cap ToSet(rest[v]) = {})'
               /\ (Has(v) \cap ToSet(queue) = {})'
    <3>1. CASE v = w
      BY <1>0, <1>5, <3>1 DEF Takes
    <3>2. CASE v # w
      <4>1. batch'[v] = batch[v] /\ rest'[v] = rest[v]
        BY <1>0, <3>2 DEF OthersStay
      <4>2. Has(v)' \cap ToSet(queue') = {}
        BY <1>0, <1>2, <1>3, <3>2 DEF Takes
      <4> QED BY <1>0, <4>1, <4>2 DEF OnePlace
    <3> QED BY <3>1, <3>2
  <2>3. ASSUME NEW u \in Workers, NEW v \in Workers, u # v
        PROVE  Has(u)' \cap Has(v)' = {}
    <3>1. ASSUME NEW x \in Workers, x # w PROVE Has(x)' \cap Has(w)' = {}
      BY <1>2, <1>3, <1>4, <1>5, <3>1
    <3>2. u # w /\ v # w => Has(u) \cap Has(v) = {}
      BY <1>0, <2>3 DEF OnePlace
    <3> QED BY <1>2, <2>3, <3>1, <3>2
  <2> QED BY <2>1, <2>2, <2>3 DEF OnePlace
<1>9. Rounds'
  <2>1. ASSUME NEW v \in Workers PROVE Round(v)'
    BY <1>0 DEF OthersStay, Rounds, Round
  <2> QED BY <1>1, <2>1 DEF Rounds
<1>10. \A r \in Requests : done'[r] = done[r] \/ r \in Has(w)
  BY <1>0, <1>6 DEF Gives
<1>11. CallsKept'
  <2>1. ASSUME NEW r \in waiting', done'[r] = "none" PROVE InFlight(r)'
    <3>1. r \in Requests /\ r \in waiting
      BY <1>0, <1>1 DEF TypeOK
    <3>2. done[r] = "none"
      BY <1>0, <2>1, <3>1 DEF Gives
    <3>3. InFlight(r)
      BY <1>0, <3>1, <3>2 DEF CallsKept
    <3>4. CASE r \in Has(w) \/ r \in ToSet(queue)
      BY <1>0, <2>1, <3>4 DEF Gives, InFlight
    <3>5. ASSUME NEW v \in Workers, r \in Has(v), v # w PROVE InFlight(r)'
      BY <1>2, <3>5 DEF InFlight
    <3> QED BY <3>3, <3>4, <3>5 DEF InFlight
  <2>2. \A r \in waiting' : ret'[r] = "none"
    BY <1>0, <1>1 DEF CallsKept
  <2>3. ASSUME NEW r \in Requests, Submitting(r)' PROVE ~InFlight(r)' /\ done'[r] = "none"
    <3>1. ~InFlight(r) /\ done[r] = "none"
      BY <1>0, <1>1, <2>3 DEF CallsKept, Submitting
    <3>2. r \notin Has(w)
      BY <3>1 DEF InFlight
    <3> QED BY <1>7, <1>10, <3>1, <3>2
  <2>4. ASSUME NEW r \in Requests, InFlight(r)'
        PROVE  done'[r] = "none" /\ ret'[r] \in {"none", "canceled"}
    <3>1. done[r] = "none" /\ ret[r] \in {"none", "canceled"}
      BY <1>0, <1>1, <1>7, <2>4 DEF CallsKept
    <3>2. ASSUME r \in ToSet(batch[w]), r \notin Has(w)' PROVE FALSE
      <4>1. r \in Has(w) /\ r \notin ToSet(queue)
        BY <1>3, <1>6, <3>2
      <4>2. r \notin ToSet(queue')
        BY <1>0, <4>1 DEF Takes
      <4>3. ASSUME NEW v \in Workers, r \in Has(v)' PROVE FALSE
        BY <1>2, <1>4, <3>2, <4>1, <4>3
      <4> QED BY <2>4, <4>2, <4>3 DEF InFlight
    <3> QED BY <1>0, <1>1, <3>1, <3>2 DEF Gives
  <2> QED BY <2>1, <2>2, <2>3, <2>4 DEF CallsKept
<1>12. ASSUME NEW r \in Requests, r \notin Has(w), journal[KeyOf[r]] # r
       PROVE  journal'[KeyOf[r]] # r
  BY <1>0, <1>6, <1>12 DEF Writes
<1>13. UntakenUnposted'
  <2> SUFFICES ASSUME NEW r \in Requests, Submitting(r)' \/ r \in ToSet(queue')
               PROVE  journal'[KeyOf[r]] # r
    BY DEF UntakenUnposted
  <2>1. Submitting(r) \/ r \in ToSet(queue)
    BY <1>0, <1>1 DEF Submitting, Takes
  <2>2. r \notin Has(w)
    BY <1>0, <1>3, <2>1 DEF CallsKept, InFlight
  <2> QED BY <1>0, <1>12, <2>1, <2>2 DEF UntakenUnposted
<1>14. ASSUME NEW r \in Requests, NEW a, r \notin Has(w), True(r, a)
       PROVE  True(r, a)'
  <2>1. KeyOf[r] \in Keys
    BY DEF Keys
  <2>2. journal[KeyOf[r]] # NoRequest => journal'[KeyOf[r]] = journal[KeyOf[r]]
    BY <1>0, <2>1 DEF Writes
  <2> QED BY <1>12, <1>14, <2>2 DEF True
<1>15. AnswersTrue'
  <2>1. ASSUME NEW r \in Requests PROVE True(r, done[r])'
    <3>1. CASE True(r, done[r])'
      BY <3>1
    <3>2. CASE done'[r] = done[r]
      <4>1. True(r, done[r])
        BY <1>0 DEF AnswersTrue
      <4>2. CASE r \notin Has(w)
        <5>1. PICK a : a = done[r]
          OBVIOUS
        <5>2. True(r, a)'
          BY <1>14, <4>1, <4>2, <5>1
        <5> QED BY <3>2, <5>1, <5>2 DEF True
      <4>3. CASE r \in Has(w)
        <5>1. done[r] = "none"
          BY <1>0, <4>3 DEF CallsKept, InFlight
        <5> QED BY <3>2, <5>1 DEF True
      <4> QED BY <4>2, <4>3
    <3> QED BY <1>0, <3>1, <3>2 DEF Gives
  <2>2. ASSUME NEW v \in Workers, v # w PROVE ReadHolds(v)' /\ Delivers(v)'
    <3>1. /\ pc'[v] = pc[v] /\ batch'[v] = batch[v] /\ seen'[v] = seen[v] /\ answers'[v] = answers[v]
      BY <1>0, <2>2 DEF OthersStay
    <3>2. \A r \in ToSet(batch[v]) : r \notin Has(w) /\ KeyOf[r] \in Keys /\ r \in Requests
      <4>1. \A r \in ToSet(batch[v]) : r \in Has(v)
        BY DEF Has
      <4>2. \A r \in ToSet(batch[v]) : r \in Requests
        BY <1>0 DEF TypeOK, ToSet
      <4> QED BY <1>4, <2>2, <4>1, <4>2 DEF Keys
    <3>3. ReadHolds(v)'
      <4> SUFFICES ASSUME pc[v] = "write", NEW r \in ToSet(batch[v])
                   PROVE  /\ seen[v][KeyOf[r]] = NoRequest => journal'[KeyOf[r]] # r
                          /\ seen[v][KeyOf[r]] # NoRequest => journal'[KeyOf[r]] = seen[v][KeyOf[r]]
        BY <3>1 DEF ReadHolds
      <4>1. /\ seen[v][KeyOf[r]] = NoRequest => journal[KeyOf[r]] # r
            /\ seen[v][KeyOf[r]] # NoRequest => journal[KeyOf[r]] = seen[v][KeyOf[r]]
        BY <1>0 DEF AnswersTrue, ReadHolds
      <4> QED BY <1>0, <1>12, <3>2, <4>1 DEF Writes
    <3>4. Delivers(v)'
      <4> SUFFICES ASSUME pc[v] = "deliver", NEW r \in ToSet(batch[v])
                   PROVE  answers[v][r] # "none" /\ True(r, answers[v][r])'
        BY <3>1 DEF Delivers
      <4>1. answers[v][r] # "none" /\ True(r, answers[v][r])
        BY <1>0 DEF AnswersTrue, Delivers
      <4>2. PICK a : a = answers[v][r]
        OBVIOUS
      <4>3. True(r, a)'
        BY <1>14, <3>2, <4>1, <4>2
      <4> QED BY <3>1, <4>1, <4>2, <4>3 DEF True
    <3> QED BY <3>3, <3>4
  <2> QED BY <1>0, <2>1, <2>2 DEF AnswersTrue
<1> QED BY <1>8, <1>9, <1>11, <1>13, <1>15 DEF Inv

\* A worker keeps its requests and the journal.
Keeps(w) ==
    /\ UNCHANGED <<journal, queue, done>>
    /\ batch'[w] = batch[w] /\ rest'[w] = rest[w]

LEMMA KeepsMoves ==
    ASSUME Inv, NEW w \in Workers, mode[w] # "gone", Keeps(w), OthersStay(w),
           Round(w)', ReadHolds(w)', Delivers(w)'
    PROVE  Moves(w)
<1>1. Has(w)' = Has(w)
  BY DEF Keeps, Has
<1>2. Takes(w)
  BY <1>1 DEF Inv, OnePlace, Takes, Keeps
<1>3. Writes(w) /\ Gives(w)
  BY <1>1 DEF Keeps, Writes, Gives
<1> QED BY <1>2, <1>3 DEF Moves

\* The invariant holds before the first call.
LEMMA InitInv == Init => Inv
<1> SUFFICES ASSUME Init PROVE Inv
  OBVIOUS
<1>0. <<>> \in Seq(Requests) /\ ToSet(<<>>) = {} /\ IsInjective(<<>>)
  BY DEF ToSet, IsInjective
<1>1. TypeOK
  BY <1>0 DEF Init, TypeOK, NoKeys, NoAnswers, Answers
<1>2. \A w \in Workers : batch[w] = <<>> /\ rest[w] = <<>> /\ pc[w] = "select" /\ mode[w] = "work" /\ Has(w) = {}
  BY <1>0 DEF Init, Has
<1>3. OnePlace
  BY <1>0, <1>2 DEF Init, OnePlace
<1>4. Rounds
  BY <1>2 DEF Init, Rounds, Round
<1>5. CallsKept
  BY <1>0, <1>2 DEF Init, CallsKept, Submitting, InFlight
<1>6. \A r \in Requests : journal[KeyOf[r]] # r
  BY BatcherAssumption DEF Init, NoKeys, Keys
<1>7. UntakenUnposted /\ AnswersTrue
  BY <1>2, <1>6 DEF Init, UntakenUnposted, AnswersTrue, True, ReadHolds, Delivers
<1> QED BY <1>1, <1>3, <1>4, <1>5, <1>7 DEF Inv

\* work sees that the service stops, drain that the queue is empty.
LEMMA DrainInv ==
    ASSUME Inv, NEW w \in Workers, BeginDrain(w) \/ EndDrain(w)
    PROVE  Inv'
<1>1. TypeOK'
  BY DEF Inv, TypeOK, BeginDrain, EndDrain, clientVars
<1>2. mode[w] # "gone" /\ pc[w] = "select" /\ UNCHANGED <<pc, batch, rest>>
  BY DEF BeginDrain, EndDrain
<1>3. OthersStay(w) /\ Keeps(w)
  BY DEF BeginDrain, EndDrain, OthersStay, Keeps, Inv, TypeOK, clientVars
<1>4. Round(w)' /\ ReadHolds(w)' /\ Delivers(w)'
  BY <1>2 DEF Inv, Rounds, Round, ReadHolds, Delivers
<1> QED BY <1>1, <1>2, <1>3, <1>4, KeepsMoves, MovesInv

\* A worker takes the first request of the queue.
LEMMA TakeInv ==
    ASSUME Inv, NEW w \in Workers, Take(w)
    PROVE  Inv'
<1> DEFINE h == Head(queue)
<1>0. TypeOK /\ OnePlace /\ Rounds
  BY DEF Inv
<1>1. /\ mode[w] # "gone" /\ pc[w] = "select" /\ queue # <<>> /\ queue' = Tail(queue)
      /\ batch' = [batch EXCEPT ![w] = <<h>>] /\ pc' = [pc EXCEPT ![w] = "collect"]
      /\ UNCHANGED <<journal, done, stopped, ret, waiting, canceled, mode, rest, seen, answers>>
  BY DEF Take, clientVars
<1>2. /\ h \in Requests /\ queue' \in Seq(Requests) /\ ToSet(queue) = {h} \cup ToSet(queue')
      /\ IsInjective(queue') /\ h \notin ToSet(queue')
  <2>1. queue \in Seq(Requests) /\ IsInjective(queue)
    BY <1>0 DEF TypeOK, OnePlace
  <2> QED BY <1>1, <2>1, OneLess
<1> HIDE DEF h
<1>3. /\ <<h>> \in Seq(Requests) /\ ToSet(<<h>>) = {h} /\ IsInjective(<<h>>) /\ <<h>> # <<>> /\ Len(<<h>>) = 1
  BY <1>2, NoneOrOne
<1>4. batch'[w] = <<h>> /\ rest'[w] = <<>> /\ batch[w] = <<>> /\ pc'[w] = "collect"
  BY <1>0, <1>1 DEF TypeOK, Rounds, Round
<1>5. TypeOK'
  BY <1>0, <1>1, <1>2, <1>3 DEF TypeOK
<1>6. OthersStay(w)
  BY <1>0, <1>1 DEF TypeOK, OthersStay
<1>7. ToSet(<<>>) = {} /\ IsInjective(<<>>)
  BY DEF ToSet, IsInjective
<1>8. Has(w)' = {h} /\ Has(w) = {}
  BY <1>1, <1>3, <1>4, <1>7 DEF Has
<1>9. Takes(w)
  BY <1>1, <1>2, <1>3, <1>4, <1>7, <1>8 DEF Takes
<1>10. Writes(w) /\ Gives(w)
  BY <1>1, <1>2, <1>8 DEF Writes, Gives
<1>11. Round(w)' /\ ReadHolds(w)' /\ Delivers(w)'
  BY <1>1, <1>3, <1>4 DEF Round, ReadHolds, Delivers
<1> QED BY <1>5, <1>6, <1>9, <1>10, <1>11, MovesInv DEF Moves

\* It collects another one, or goes on with what it has.
LEMMA CollectInv ==
    ASSUME Inv, NEW w \in Workers, Collect(w)
    PROVE  Inv'
<1>0. TypeOK /\ OnePlace /\ Rounds
  BY DEF Inv
<1>1. /\ pc[w] = "collect" /\ mode[w] # "gone" /\ rest[w] = <<>> /\ rest' = rest
      /\ UNCHANGED <<journal, done, stopped, ret, waiting, canceled, mode, seen, answers>>
  BY <1>0 DEF Collect, clientVars, Rounds, Round
<1>2. CASE ~(Len(batch[w]) < MaxBatch /\ queue # <<>>)
  <2>1. pc' = [pc EXCEPT ![w] = "commit"] /\ UNCHANGED <<batch, queue>>
    BY <1>2 DEF Collect
  <2>2. TypeOK'
    BY <1>0, <1>1, <2>1 DEF TypeOK
  <2>3. OthersStay(w) /\ Keeps(w)
    BY <1>0, <1>1, <2>1 DEF TypeOK, OthersStay, Keeps
  <2>4. Round(w)' /\ ReadHolds(w)' /\ Delivers(w)'
    BY <1>0, <1>1, <2>1 DEF TypeOK, Rounds, Round, ReadHolds, Delivers
  <2> QED BY <1>1, <2>2, <2>3, <2>4, KeepsMoves, MovesInv
<1>3. CASE Len(batch[w]) < MaxBatch /\ queue # <<>>
  <2> DEFINE h == Head(queue)
  <2>1. /\ queue' = Tail(queue) /\ batch' = [batch EXCEPT ![w] = Append(batch[w], h)] /\ pc' = pc
    BY <1>0, <1>3 DEF Collect, TypeOK
  <2>2. /\ h \in Requests /\ queue' \in Seq(Requests) /\ ToSet(queue) = {h} \cup ToSet(queue')
        /\ IsInjective(queue') /\ h \notin ToSet(queue')
    <3>1. queue \in Seq(Requests) /\ IsInjective(queue)
      BY <1>0 DEF TypeOK, OnePlace
    <3> QED BY <1>3, <2>1, <3>1, OneLess
  <2> HIDE DEF h
  <2>3. batch[w] \in Seq(Requests) /\ IsInjective(batch[w]) /\ h \notin ToSet(batch[w])
    BY <1>0, <2>2 DEF TypeOK, OnePlace, Has
  <2>4. /\ Append(batch[w], h) \in Seq(Requests) /\ ToSet(Append(batch[w], h)) = ToSet(batch[w]) \cup {h}
        /\ IsInjective(Append(batch[w], h)) /\ Append(batch[w], h) # <<>>
    BY <2>2, <2>3, OneMore
  <2>5. batch'[w] = Append(batch[w], h) /\ pc'[w] = "collect"
    BY <1>0, <1>1, <2>1 DEF TypeOK
  <2>6. TypeOK'
    BY <1>0, <1>1, <2>1, <2>2, <2>4 DEF TypeOK
  <2>7. OthersStay(w)
    BY <1>0, <1>1, <2>1 DEF TypeOK, OthersStay
  <2>8. ToSet(<<>>) = {} /\ IsInjective(<<>>)
    BY DEF ToSet, IsInjective
  <2>9. Has(w)' = Has(w) \cup {h}
    BY <1>1, <2>4, <2>5 DEF Has
  <2>10. Takes(w)
    BY <1>1, <2>2, <2>4, <2>5, <2>8, <2>9 DEF Takes
  <2>11. Writes(w) /\ Gives(w)
    BY <1>1, <2>2, <2>9 DEF Writes, Gives
  <2>12. Round(w)' /\ ReadHolds(w)' /\ Delivers(w)'
    BY <1>1, <2>4, <2>5 DEF Round, ReadHolds, Delivers
  <2> QED BY <2>6, <2>7, <2>10, <2>11, <2>12, MovesInv DEF Moves
<1> QED BY <1>2, <1>3

\* A transaction has locked its accounts and reads the keys, or is tried again.
LEMMA ReadInv ==
    ASSUME Inv, NEW w \in Workers, Read(w)
    PROVE  Inv'
<1>0. TypeOK /\ OnePlace /\ Rounds
  BY DEF Inv
<1>1. /\ pc[w] = "read" /\ mode[w] # "gone"
      /\ seen' = [seen EXCEPT ![w] = Lookup(w)] /\ pc' = [pc EXCEPT ![w] = "write"]
      /\ UNCHANGED <<journal, queue, done, stopped, ret, waiting, canceled, mode, batch, rest, answers>>
  BY <1>0 DEF Read, clientVars, Rounds, Round
<1>2. Lookup(w) \in [Keys -> Requests \cup {NoRequest}]
  BY <1>0 DEF Lookup, TypeOK
<1>3. TypeOK'
  BY <1>0, <1>1, <1>2 DEF TypeOK
<1>4. OthersStay(w) /\ Keeps(w)
  BY <1>0, <1>1 DEF TypeOK, OthersStay, Keeps
<1>5. Round(w)' /\ Delivers(w)'
  BY <1>0, <1>1 DEF TypeOK, Rounds, Round, Delivers
<1>6. ReadHolds(w)'
  <2> SUFFICES ASSUME NEW r \in ToSet(batch[w])
               PROVE  /\ seen'[w][KeyOf[r]] = NoRequest => journal[KeyOf[r]] # r
                      /\ seen'[w][KeyOf[r]] # NoRequest => journal[KeyOf[r]] = seen'[w][KeyOf[r]]
    BY <1>1 DEF ReadHolds
  <2>1. r \in Requests /\ KeyOf[r] \in Keys
    BY <1>0 DEF TypeOK, ToSet, Keys
  <2>2. Lookup(w)[KeyOf[r]] = journal[KeyOf[r]]
    BY <2>1 DEF Lookup
  <2> QED BY <1>0, <1>1, <2>1, <2>2, BatcherAssumption DEF TypeOK
<1> QED BY <1>1, <1>3, <1>4, <1>5, <1>6, KeepsMoves, MovesInv

LEMMA RetryInv ==
    ASSUME Inv, NEW w \in Workers, pc[w] = "write", Retry(w)
    PROVE  Inv'
<1>0. TypeOK /\ OnePlace /\ Rounds
  BY DEF Inv
<1>1. /\ mode[w] # "gone"
      /\ seen' = [seen EXCEPT ![w] = NoKeys] /\ pc' = [pc EXCEPT ![w] = "read"]
      /\ UNCHANGED <<journal, queue, done, stopped, ret, waiting, canceled, mode, batch, rest, answers>>
  BY <1>0 DEF Retry, End, clientVars, Rounds, Round
<1>2. NoKeys \in [Keys -> Requests \cup {NoRequest}]
  BY DEF NoKeys
<1>3. TypeOK'
  BY <1>0, <1>1, <1>2 DEF TypeOK
<1>4. OthersStay(w) /\ Keeps(w)
  BY <1>0, <1>1 DEF TypeOK, OthersStay, Keeps
<1>5. Round(w)' /\ Delivers(w)' /\ ReadHolds(w)'
  BY <1>0, <1>1 DEF TypeOK, Rounds, Round, Delivers, ReadHolds
<1> QED BY <1>1, <1>3, <1>4, <1>5, KeepsMoves, MovesInv

\* When commit returns, the worker goes on with the next request of a failed group, or
\* has nothing left.
LEMMA FinishIs ==
    ASSUME TypeOK, OnePlace, Rounds, NEW w \in Workers, pc[w] # "select", Finish(w)
    PROVE  /\ batch' \in [Workers -> Seq(Requests)] /\ rest' \in [Workers -> Seq(Requests)]
           /\ pc' \in [Workers -> {"select", "collect", "commit", "read", "write", "deliver"}]
           /\ \A v \in Workers \ {w} : batch'[v] = batch[v] /\ rest'[v] = rest[v] /\ pc'[v] = pc[v]
           /\ pc'[w] \in {"select", "commit"}
           /\ pc'[w] = "select" => batch'[w] = <<>> /\ rest'[w] = <<>>
           /\ pc'[w] = "commit" => batch'[w] # <<>> /\ Len(batch'[w]) = 1
           /\ Has(w)' = ToSet(rest[w])
           /\ IsInjective(batch'[w]) /\ IsInjective(rest'[w]) /\ ToSet(batch'[w]) \cap ToSet(rest'[w]) = {}
<1>0. <<>> \in Seq(Requests) /\ ToSet(<<>>) = {} /\ IsInjective(<<>>)
  BY DEF ToSet, IsInjective
<1>1. rest[w] \in Seq(Requests) /\ IsInjective(rest[w])
  BY DEF TypeOK, OnePlace
<1>2. CASE rest[w] = <<>>
  <2>1. pc' = [pc EXCEPT ![w] = "select"] /\ batch' = [batch EXCEPT ![w] = <<>>] /\ rest' = rest
    BY <1>2 DEF Finish
  <2>2. batch'[w] = <<>> /\ rest'[w] = <<>> /\ pc'[w] = "select"
    BY <1>2, <2>1 DEF TypeOK
  <2>3. Has(w)' = ToSet(rest[w])
    BY <1>0, <1>2, <2>2 DEF Has
  <2>4. /\ batch' \in [Workers -> Seq(Requests)] /\ rest' \in [Workers -> Seq(Requests)]
        /\ pc' \in [Workers -> {"select", "collect", "commit", "read", "write", "deliver"}]
        /\ \A v \in Workers \ {w} : batch'[v] = batch[v] /\ rest'[v] = rest[v] /\ pc'[v] = pc[v]
    BY <1>0, <2>1 DEF TypeOK
  <2> QED BY <1>0, <2>2, <2>3, <2>4
<1>3. CASE rest[w] # <<>>
  <2> DEFINE h == Head(rest[w])
             t == Tail(rest[w])
  <2>1. pc' = [pc EXCEPT ![w] = "commit"] /\ batch' = [batch EXCEPT ![w] = <<h>>] /\ rest' = [rest EXCEPT ![w] = t]
    BY <1>3 DEF Finish, TypeOK
  <2>2. h \in Requests /\ t \in Seq(Requests) /\ ToSet(rest[w]) = {h} \cup ToSet(t) /\ IsInjective(t) /\ h \notin ToSet(t)
    BY <1>1, <1>3, OneLess
  <2> HIDE DEF h, t
  <2>3. <<h>> \in Seq(Requests) /\ ToSet(<<h>>) = {h} /\ IsInjective(<<h>>) /\ <<h>> # <<>> /\ Len(<<h>>) = 1
    BY <2>2, NoneOrOne
  <2>4. batch'[w] = <<h>> /\ rest'[w] = t /\ pc'[w] = "commit"
    BY <2>1 DEF TypeOK
  <2>5. Has(w)' = ToSet(rest[w])
    BY <2>2, <2>3, <2>4 DEF Has
  <2>6. /\ batch' \in [Workers -> Seq(Requests)] /\ rest' \in [Workers -> Seq(Requests)]
        /\ pc' \in [Workers -> {"select", "collect", "commit", "read", "write", "deliver"}]
        /\ \A v \in Workers \ {w} : batch'[v] = batch[v] /\ rest'[v] = rest[v] /\ pc'[v] = pc[v]
    BY <2>1, <2>2, <2>3 DEF TypeOK
  <2> QED BY <2>2, <2>3, <2>4, <2>5, <2>6
<1> QED BY <1>2, <1>3

\* commit answers the requests whose context is done, and leaves them out.
LEMMA FilterInv ==
    ASSUME Inv, NEW w \in Workers, Filter(w)
    PROVE  Inv'
<1> DEFINE b == batch[w]
           live == Live(b, canceled)
<1>0. TypeOK /\ OnePlace /\ Rounds
  BY DEF Inv
<1>1. /\ pc[w] = "commit" /\ mode[w] # "gone" /\ b # <<>>
      /\ UNCHANGED <<journal, queue, stopped, ret, waiting, canceled, mode, seen, answers>>
  BY <1>0 DEF Filter, clientVars, Rounds, Round
<1>2. b \in Seq(Requests) /\ IsInjective(b) /\ \A r \in ToSet(b) : r \in Has(w) /\ r \notin ToSet(rest[w])
  BY <1>0 DEF TypeOK, OnePlace, Has
<1>3. live \in Seq(Requests) /\ ToSet(live) = ToSet(b) \ canceled /\ IsInjective(live)
  BY <1>2, LiveIs
<1>4. /\ done' \in [Requests -> {"none", "ok", "refused", "failed", "canceled"}]
      /\ \A r \in Requests : done'[r] = IF r \in ToSet(b) \cap canceled THEN "canceled" ELSE done[r]
  <2>1. done' = [r \in Requests |-> IF r \in ToSet(b) \cap canceled THEN "canceled" ELSE done[r]]
    BY DEF Filter
  <2> QED BY <1>0, <2>1 DEF TypeOK
<1>5. /\ live = <<>> => Finish(w)
      /\ live # <<>> => /\ batch' = [batch EXCEPT ![w] = live] /\ pc' = [pc EXCEPT ![w] = "read"]
                        /\ UNCHANGED rest
  BY DEF Filter
<1>6. ToSet(b) \subseteq Requests
  BY <1>2 DEF ToSet
<1> HIDE DEF live
<1>7. CASE live = <<>>
  <2>1. ToSet(b) \subseteq canceled
    BY <1>3, <1>7 DEF ToSet
  <2>2. Finish(w) /\ pc[w] # "select"
    BY <1>1, <1>5, <1>7
  <2>3. /\ batch' \in [Workers -> Seq(Requests)] /\ rest' \in [Workers -> Seq(Requests)]
        /\ pc' \in [Workers -> {"select", "collect", "commit", "read", "write", "deliver"}]
        /\ \A v \in Workers \ {w} : batch'[v] = batch[v] /\ rest'[v] = rest[v] /\ pc'[v] = pc[v]
        /\ pc'[w] \in {"select", "commit"}
        /\ pc'[w] = "select" => batch'[w] = <<>> /\ rest'[w] = <<>>
        /\ pc'[w] = "commit" => batch'[w] # <<>> /\ Len(batch'[w]) = 1
        /\ Has(w)' = ToSet(rest[w])
        /\ IsInjective(batch'[w]) /\ IsInjective(rest'[w]) /\ ToSet(batch'[w]) \cap ToSet(rest'[w]) = {}
    BY <1>0, <2>2, FinishIs
  <2>4. TypeOK'
    BY <1>0, <1>1, <1>4, <2>3 DEF TypeOK
  <2>5. OthersStay(w)
    BY <1>1, <2>3 DEF OthersStay
  <2>6. Takes(w)
    BY <1>0, <1>1, <2>3 DEF OnePlace, Takes, Has
  <2>7. Writes(w)
    BY <1>1 DEF Writes
  <2>8. Gives(w)
    <3>1. ASSUME NEW r \in Requests, done'[r] # done[r]
          PROVE  r \in ToSet(b) /\ r \notin Has(w)' /\ done'[r] # "none" /\ True(r, done[r])'
      <4>1. r \in ToSet(b) /\ done'[r] = "canceled"
        BY <1>4, <3>1
      <4> QED BY <1>2, <2>3, <4>1 DEF True
    <3>2. ASSUME NEW r \in Has(w) \cup ToSet(queue)
          PROVE  r \in Has(w)' \/ r \in ToSet(queue') \/ done'[r] # "none"
      <4>1. r \in ToSet(b) => r \in Requests /\ done'[r] = "canceled"
        BY <1>4, <1>6, <2>1
      <4> QED BY <1>1, <2>3, <4>1 DEF Has
    <3> QED BY <3>1, <3>2 DEF Gives
  <2>9. Round(w)' /\ ReadHolds(w)' /\ Delivers(w)'
    BY <1>1, <2>3 DEF Round, ReadHolds, Delivers
  <2> QED BY <2>4, <2>5, <2>6, <2>7, <2>8, <2>9, MovesInv DEF Moves
<1>8. CASE live # <<>>
  <2>1. batch' = [batch EXCEPT ![w] = live] /\ pc' = [pc EXCEPT ![w] = "read"] /\ rest' = rest
    BY <1>5, <1>8
  <2>2. batch'[w] = live /\ pc'[w] = "read"
    BY <1>0, <2>1 DEF TypeOK
  <2>3. Has(w)' = ToSet(live) \cup ToSet(rest[w]) /\ Has(w)' \subseteq Has(w)
    BY <1>3, <2>1, <2>2 DEF Has
  <2>4. TypeOK'
    BY <1>0, <1>1, <1>3, <1>4, <2>1 DEF TypeOK
  <2>5. OthersStay(w)
    BY <1>0, <1>1, <2>1 DEF TypeOK, OthersStay
  <2>6. Takes(w)
    <3>1. ToSet(batch'[w]) \cap ToSet(rest'[w]) = {}
      BY <1>2, <1>3, <2>1, <2>2
    <3> QED BY <1>0, <1>1, <1>3, <2>1, <2>2, <2>3, <3>1 DEF OnePlace, Takes
  <2>7. Writes(w)
    BY <1>1 DEF Writes
  <2>8. Gives(w)
    <3>1. ASSUME NEW r \in Requests, done'[r] # done[r]
          PROVE  r \in ToSet(b) /\ r \notin Has(w)' /\ done'[r] # "none" /\ True(r, done[r])'
      <4>1. r \in ToSet(b) /\ r \in canceled /\ done'[r] = "canceled"
        BY <1>4, <3>1
      <4> QED BY <1>2, <1>3, <2>3, <4>1 DEF True
    <3>2. ASSUME NEW r \in Has(w) \cup ToSet(queue)
          PROVE  r \in Has(w)' \/ r \in ToSet(queue') \/ done'[r] # "none"
      <4>1. r \in ToSet(b) => r \in Requests /\ (done'[r] = "canceled" \/ r \in ToSet(live))
        BY <1>3, <1>4, <1>6
      <4> QED BY <1>1, <2>3, <4>1 DEF Has
    <3> QED BY <3>1, <3>2 DEF Gives
  <2>9. rest[w] # <<>> => Len(live) = 1
    <3> SUFFICES ASSUME rest[w] # <<>> PROVE Len(live) = 1
      OBVIOUS
    <3>1. Len(b) = 1
      BY <1>0 DEF Rounds, Round
    <3>2. ToSet(b) = {Head(b)}
      BY <1>1, <1>2, <3>1, OneLess
    <3>3. Len(live) \in Nat \ {0} /\ DOMAIN live = 1 .. Len(live)
      <4>1. Len(live) \in Nat \ {0}
        BY <1>3, <1>8, OneLess
      <4>2. DOMAIN live = 1 .. Len(live)
        BY <1>3, LenProperties
      <4> QED BY <4>1, <4>2
    <3>4. \A i, j \in 1 .. Len(live) : i = j
      <4>1. \A i \in 1 .. Len(live) : live[i] \in ToSet(live)
        BY <3>3 DEF ToSet
      <4>2. \A i \in 1 .. Len(live) : live[i] = Head(b)
        BY <1>3, <3>2, <4>1
      <4> QED BY <1>3, <3>3, <4>2 DEF IsInjective
    <3>5. 1 \in 1 .. Len(live) /\ Len(live) \in 1 .. Len(live)
      BY <3>3
    <3> QED BY <3>4, <3>5
  <2>10. Round(w)' /\ ReadHolds(w)' /\ Delivers(w)'
    BY <1>1, <1>8, <2>1, <2>2, <2>9 DEF Round, ReadHolds, Delivers
  <2> QED BY <2>4, <2>5, <2>6, <2>7, <2>8, <2>10, MovesInv DEF Moves
<1> QED BY <1>7, <1>8

\* Answers reach the callers.
LEMMA DeliverInv ==
    ASSUME Inv, NEW w \in Workers, Deliver(w)
    PROVE  Inv'
<1> DEFINE b == batch[w]
<1>0. TypeOK /\ OnePlace /\ Rounds /\ AnswersTrue
  BY DEF Inv
<1>1. /\ pc[w] = "deliver" /\ mode[w] # "gone" /\ Finish(w)
      /\ answers' = [answers EXCEPT ![w] = NoAnswers]
      /\ UNCHANGED <<journal, queue, stopped, ret, waiting, canceled, mode, seen>>
  BY <1>0 DEF Deliver, clientVars, Rounds, Round
<1>2. ToSet(b) \subseteq Requests /\ \A r \in ToSet(b) : r \in Has(w) /\ r \notin ToSet(rest[w])
  <2>1. ToSet(b) \subseteq Requests
    BY <1>0 DEF TypeOK, ToSet
  <2> QED BY <1>0, <2>1 DEF OnePlace, Has
<1>3. /\ done' \in [Requests -> {"none", "ok", "refused", "failed", "canceled"}]
      /\ \A r \in Requests : done'[r] = IF r \in ToSet(b) THEN answers[w][r] ELSE done[r]
  <2>1. done' = [r \in Requests |-> IF r \in ToSet(b) THEN answers[w][r] ELSE done[r]]
    BY DEF Deliver
  <2> QED BY <1>0, <2>1 DEF TypeOK
<1>4. \A r \in ToSet(b) : answers[w][r] # "none" /\ True(r, answers[w][r])
  BY <1>0, <1>1 DEF AnswersTrue, Delivers
<1>5. /\ batch' \in [Workers -> Seq(Requests)] /\ rest' \in [Workers -> Seq(Requests)]
      /\ pc' \in [Workers -> {"select", "collect", "commit", "read", "write", "deliver"}]
      /\ \A v \in Workers \ {w} : batch'[v] = batch[v] /\ rest'[v] = rest[v] /\ pc'[v] = pc[v]
      /\ pc'[w] \in {"select", "commit"}
      /\ pc'[w] = "select" => batch'[w] = <<>> /\ rest'[w] = <<>>
      /\ pc'[w] = "commit" => batch'[w] # <<>> /\ Len(batch'[w]) = 1
      /\ Has(w)' = ToSet(rest[w])
      /\ IsInjective(batch'[w]) /\ IsInjective(rest'[w]) /\ ToSet(batch'[w]) \cap ToSet(rest'[w]) = {}
  BY <1>0, <1>1, FinishIs
<1>6. NoAnswers \in [Requests -> {"none", "ok", "refused", "failed"}]
  BY DEF NoAnswers
<1>7. TypeOK'
  BY <1>0, <1>1, <1>3, <1>5, <1>6 DEF TypeOK
<1>8. OthersStay(w)
  BY <1>0, <1>1, <1>5 DEF TypeOK, OthersStay
<1>9. Takes(w)
  BY <1>0, <1>1, <1>5 DEF OnePlace, Takes, Has
<1>10. Writes(w)
  BY <1>1 DEF Writes
<1>11. Gives(w)
  <2>1. ASSUME NEW r \in Requests, r \in ToSet(b)
        PROVE  r \notin Has(w)' /\ done'[r] # "none" /\ True(r, done[r])'
    <3>1. done'[r] = answers[w][r] /\ answers[w][r] # "none" /\ True(r, answers[w][r]) /\ r \notin Has(w)'
      BY <1>2, <1>3, <1>4, <1>5, <2>1
    <3> QED BY <1>1, <3>1 DEF True
  <2>2. ASSUME NEW r \in Has(w) \cup ToSet(queue)
        PROVE  r \in Has(w)' \/ r \in ToSet(queue') \/ done'[r] # "none"
    BY <1>1, <1>2, <1>5, <2>1 DEF Has
  <2> QED BY <1>3, <2>1, <2>2 DEF Gives
<1>12. Round(w)' /\ ReadHolds(w)' /\ Delivers(w)'
  BY <1>1, <1>5 DEF Round, ReadHolds, Delivers
<1> QED BY <1>7, <1>8, <1>9, <1>10, <1>11, <1>12, MovesInv DEF Moves

-------------------------------------------------------------------------------
(***************************************************************************)
(* What the transaction of a batch writes.                                 *)
(***************************************************************************)

FirstOf(b, k) == b[CHOOSE i \in 1 .. Len(b) : KeyOf[b[i]] = k /\ \A j \in 1 .. i - 1 : KeyOf[b[j]] # k]

\* The first request with a key is of the batch, and the same for all with that key.
LEMMA FirstIs ==
    ASSUME NEW b \in Seq(Requests), NEW r \in ToSet(b)
    PROVE  /\ First(b, r) \in ToSet(b) /\ KeyOf[First(b, r)] = KeyOf[r]
           /\ \A q \in ToSet(b) : KeyOf[q] = KeyOf[r] => First(b, q) = First(b, r)
<1> DEFINE k == KeyOf[r]
           P(i) == KeyOf[b[i]] = k /\ \A j \in 1 .. i - 1 : KeyOf[b[j]] # k
           T == {i \in 1 .. Len(b) : KeyOf[b[i]] = k}
<1>0. Len(b) \in Nat /\ DOMAIN b = 1 .. Len(b)
  BY LenProperties
<1>1. PICK i \in T : \A j \in T : i <= j
  <2>1. T # {} /\ T \in SUBSET Nat
    BY <1>0 DEF ToSet
  <2> HIDE DEF T
  <2> QED BY <2>1, LeastNatural
<1>2. i \in 1 .. Len(b) /\ P(i)
  <2>1. i \in 1 .. Len(b) /\ KeyOf[b[i]] = k
    BY <1>1
  <2>2. ASSUME NEW j \in 1 .. i - 1, KeyOf[b[j]] = k PROVE FALSE
    <3>1. j \in T /\ ~(i <= j)
      BY <1>0, <2>1, <2>2
    <3> HIDE DEF T
    <3> QED BY <1>1, <3>1
  <2> QED BY <2>1, <2>2
<1> DEFINE c == CHOOSE m \in 1 .. Len(b) : P(m)
<1>3. c \in 1 .. Len(b) /\ P(c)
  <2> HIDE DEF P
  <2> QED BY <1>2
<1>4. FirstOf(b, k) = b[c]
  BY DEF FirstOf
<1> HIDE DEF c
<1>5. FirstOf(b, k) \in ToSet(b) /\ KeyOf[FirstOf(b, k)] = k
  BY <1>0, <1>3, <1>4 DEF ToSet
<1>6. \A q : First(b, q) = FirstOf(b, KeyOf[q])
  BY DEF First, FirstOf
<1> QED BY <1>5, <1>6

\* One request of a key is accepted, and those are new.
LEMMA AcceptedIs ==
    ASSUME TypeOK, NEW w \in Workers, NEW bad
    PROVE  /\ Accepted(w, bad) \subseteq ToSet(batch[w]) /\ ToSet(batch[w]) \subseteq Requests
           /\ \A r \in Accepted(w, bad) : /\ seen[w][KeyOf[r]] = NoRequest /\ First(batch[w], r) = r
                                          /\ r \notin bad
           /\ \A r, q \in Accepted(w, bad) : KeyOf[r] = KeyOf[q] => r = q
<1>1. batch[w] \in Seq(Requests) /\ ToSet(batch[w]) \subseteq Requests
  BY DEF TypeOK, ToSet
<1>2. /\ Accepted(w, bad) \subseteq ToSet(batch[w])
      /\ \A r \in Accepted(w, bad) : /\ seen[w][KeyOf[r]] = NoRequest /\ First(batch[w], r) = r
                                     /\ r \notin bad
  BY DEF Accepted
<1>3. ASSUME NEW r \in Accepted(w, bad), NEW q \in Accepted(w, bad), KeyOf[r] = KeyOf[q]
      PROVE  r = q
  <2>1. First(batch[w], q) = First(batch[w], r)
    BY <1>1, <1>2, <1>3, FirstIs
  <2> QED BY <1>2, <2>1
<1> QED BY <1>1, <1>2, <1>3

\* The journal has each request of R under its key, and is otherwise as it was.
LEMMA JournalIs ==
    ASSUME TypeOK, NEW R \in SUBSET Requests, \A r, q \in R : KeyOf[r] = KeyOf[q] => r = q
    PROVE  /\ Journal(R) \in [Keys -> Requests \cup {NoRequest}]
           /\ \A r \in R : Journal(R)[KeyOf[r]] = r
           /\ \A k \in Keys : (\A r \in R : KeyOf[r] # k) => Journal(R)[k] = journal[k]
<1> DEFINE one(k) == CHOOSE r \in R : KeyOf[r] = k
           J == Journal(R)
<1>1. \A k \in Keys : (\E r \in R : KeyOf[r] = k) => one(k) \in R /\ KeyOf[one(k)] = k
  OBVIOUS
<1>2. J = [k \in Keys |-> IF \E r \in R : KeyOf[r] = k THEN one(k) ELSE journal[k]]
  BY DEF Journal
<1> HIDE DEF one, J
<1>3. J \in [Keys -> Requests \cup {NoRequest}]
  BY <1>1, <1>2 DEF TypeOK
<1>4. ASSUME NEW r \in R PROVE J[KeyOf[r]] = r
  <2>1. KeyOf[r] \in Keys
    BY DEF Keys
  <2>2. J[KeyOf[r]] = one(KeyOf[r]) /\ one(KeyOf[r]) \in R /\ KeyOf[one(KeyOf[r])] = KeyOf[r]
    BY <1>1, <1>2, <2>1
  <2> QED BY <2>2
<1>5. \A k \in Keys : (\A r \in R : KeyOf[r] # k) => J[k] = journal[k]
  BY <1>2
<1> QED BY <1>3, <1>4, <1>5 DEF J

\* Whether it is told so or not, a worker that commits writes free keys, once.
LEMMA CommitWrites ==
    ASSUME TypeOK, NEW w \in Workers, NEW bad, Free(Accepted(w, bad)), journal' = Journal(Accepted(w, bad))
    PROVE  /\ journal' \in [Keys -> Requests \cup {NoRequest}]
           /\ Writes(w)
           /\ \A r \in Accepted(w, bad) : journal'[KeyOf[r]] = r
           /\ \A k \in Keys : (\A r \in Accepted(w, bad) : KeyOf[r] # k) => journal'[k] = journal[k]
<1> DEFINE R == Accepted(w, bad)
<1>1. /\ R \subseteq ToSet(batch[w]) /\ R \in SUBSET Requests
      /\ \A r, q \in R : KeyOf[r] = KeyOf[q] => r = q
  BY AcceptedIs
<1>2. \A r \in R : journal[KeyOf[r]] = NoRequest
  BY DEF Free
<1> HIDE DEF R
<1>3. journal' = Journal(R)
  BY DEF R
<1>4. /\ journal' \in [Keys -> Requests \cup {NoRequest}]
      /\ \A r \in R : journal'[KeyOf[r]] = r
      /\ \A k \in Keys : (\A r \in R : KeyOf[r] # k) => journal'[k] = journal[k]
  BY <1>1, <1>3, JournalIs
<1>5. Writes(w)
  <2>1. ASSUME NEW k \in Keys, journal[k] # NoRequest PROVE journal'[k] = journal[k]
    BY <1>2, <1>4, <2>1
  <2>2. ASSUME NEW r \in Requests, journal'[KeyOf[r]] = r, journal[KeyOf[r]] # r PROVE r \in ToSet(batch[w])
    <3>1. KeyOf[r] \in Keys
      BY DEF Keys
    <3>2. PICK q \in R : KeyOf[q] = KeyOf[r]
      BY <1>4, <2>2, <3>1
    <3> QED BY <1>1, <1>4, <2>2, <3>2
  <2> QED BY <2>1, <2>2 DEF Writes
<1> QED BY <1>4, <1>5 DEF R

\* What resolveRequest says of a request is true once the transaction has committed.
LEMMA OutcomeIsTrue ==
    ASSUME Inv, NEW w \in Workers, NEW bad, pc[w] = "write", NEW r \in ToSet(batch[w]),
           Free(Accepted(w, bad)), journal' = Journal(Accepted(w, bad))
    PROVE  /\ Outcome(w, bad, r) \in {"ok", "refused"}
           /\ Outcome(w, bad, r) = "ok" =>
                  journal'[KeyOf[r]] # NoRequest /\ BodyOf[journal'[KeyOf[r]]] = BodyOf[r]
           /\ Outcome(w, bad, r) = "refused" => journal'[KeyOf[r]] # r
<1> DEFINE R == Accepted(w, bad)
           k == KeyOf[r]
           f == First(batch[w], r)
<1>0. TypeOK /\ batch[w] \in Seq(Requests)
  BY DEF Inv, TypeOK
<1>1. /\ R \subseteq ToSet(batch[w]) /\ ToSet(batch[w]) \subseteq Requests
      /\ \A q \in R : seen[w][KeyOf[q]] = NoRequest /\ First(batch[w], q) = q /\ q \notin bad
      /\ \A q, p \in R : KeyOf[q] = KeyOf[p] => q = p
  BY <1>0, AcceptedIs
<1>2. /\ \A q \in R : journal'[KeyOf[q]] = q
      /\ \A l \in Keys : (\A q \in R : KeyOf[q] # l) => journal'[l] = journal[l]
  BY <1>0, CommitWrites
<1>3. /\ f \in ToSet(batch[w]) /\ KeyOf[f] = k
      /\ \A q \in ToSet(batch[w]) : KeyOf[q] = k => First(batch[w], q) = f
  BY <1>0, FirstIs
<1>4. k \in Keys /\ r \in Requests
  BY <1>1 DEF Keys
<1>5. /\ seen[w][k] = NoRequest => journal[k] # r
      /\ seen[w][k] # NoRequest => journal[k] = seen[w][k]
  BY DEF Inv, AnswersTrue, ReadHolds
<1>6. f \in R <=> seen[w][k] = NoRequest /\ f \notin bad
  BY <1>3 DEF Accepted
<1>7. Outcome(w, bad, r) =
          LET new   == seen[w][k] = NoRequest
              owner == IF new THEN f ELSE seen[w][k]
          IN  IF BodyOf[owner] = BodyOf[r] /\ ~(new /\ owner \in bad) THEN "ok" ELSE "refused"
  BY DEF Outcome
<1> HIDE DEF R, k, f
<1>8. \A q \in R : KeyOf[q] = k => q = f
  BY <1>1, <1>3
<1>9. CASE seen[w][k] # NoRequest
  <2>1. \A q \in R : KeyOf[q] # k
    BY <1>1, <1>9
  <2>2. journal'[k] = seen[w][k]
    BY <1>2, <1>4, <1>5, <1>9, <2>1
  <2>3. Outcome(w, bad, r) = IF BodyOf[seen[w][k]] = BodyOf[r] THEN "ok" ELSE "refused"
    BY <1>7, <1>9
  <2> QED BY <1>9, <2>2, <2>3 DEF k
<1>10. CASE seen[w][k] = NoRequest
  <2>1. Outcome(w, bad, r) = IF BodyOf[f] = BodyOf[r] /\ f \notin bad THEN "ok" ELSE "refused"
    BY <1>7, <1>10
  <2>2. CASE f \in R
    <3>1. journal'[k] = f /\ f \notin bad /\ f \in Requests
      BY <1>1, <1>2, <1>3, <1>6, <2>2
    <3>2. f # NoRequest
      BY <3>1, BatcherAssumption
    <3>3. Outcome(w, bad, r) = "refused" => f # r
      BY <2>1, <3>1
    <3> QED BY <2>1, <3>1, <3>2, <3>3 DEF k
  <2>3. CASE f \notin R
    <3>1. f \in bad
      BY <1>6, <1>10, <2>3
    <3>2. \A q \in R : KeyOf[q] # k
      BY <1>8, <2>3
    <3>3. journal'[k] = journal[k]
      BY <1>2, <1>4, <3>2
    <3> QED BY <1>5, <1>10, <2>1, <3>1, <3>3 DEF k
  <2> QED BY <2>2, <2>3
<1> QED BY <1>9, <1>10

\* A transaction commits, and the worker is told so.
LEMMA CommitInv ==
    ASSUME Inv, NEW w \in Workers, NEW bad, Commit(w, bad)
    PROVE  Inv'
<1> DEFINE given == [r \in Requests |-> IF r \in ToSet(batch[w]) THEN Outcome(w, bad, r) ELSE "none"]
<1>0. TypeOK /\ OnePlace /\ Rounds
  BY DEF Inv
<1>1. /\ pc[w] = "write" /\ mode[w] # "gone"
      /\ Free(Accepted(w, bad)) /\ journal' = Journal(Accepted(w, bad))
      /\ answers' = [answers EXCEPT ![w] = given] /\ pc' = [pc EXCEPT ![w] = "deliver"]
      /\ seen' = [seen EXCEPT ![w] = NoKeys]
      /\ UNCHANGED <<queue, done, stopped, ret, waiting, canceled, mode, batch, rest>>
  BY <1>0 DEF Commit, End, clientVars, Rounds, Round
<1>2. journal' \in [Keys -> Requests \cup {NoRequest}] /\ Writes(w)
  BY <1>0, <1>1, CommitWrites
<1>3. ToSet(batch[w]) \subseteq Requests
  BY <1>0, AcceptedIs
<1>4. \A r \in ToSet(batch[w]) :
          /\ Outcome(w, bad, r) \in {"ok", "refused"}
          /\ Outcome(w, bad, r) = "ok" =>
                 journal'[KeyOf[r]] # NoRequest /\ BodyOf[journal'[KeyOf[r]]] = BodyOf[r]
          /\ Outcome(w, bad, r) = "refused" => journal'[KeyOf[r]] # r
  BY <1>1, OutcomeIsTrue
<1>5. /\ given \in [Requests -> {"none", "ok", "refused", "failed"}]
      /\ \A r \in ToSet(batch[w]) : given[r] = Outcome(w, bad, r)
  BY <1>3, <1>4
<1>6. NoKeys \in [Keys -> Requests \cup {NoRequest}]
  BY DEF NoKeys
<1> HIDE DEF given
<1>7. TypeOK'
  BY <1>0, <1>1, <1>2, <1>5, <1>6 DEF TypeOK
<1>8. OthersStay(w)
  BY <1>0, <1>1 DEF TypeOK, OthersStay
<1>9. Has(w)' = Has(w)
  BY <1>1 DEF Has
<1>10. Takes(w) /\ Gives(w)
  BY <1>0, <1>1, <1>9 DEF OnePlace, Takes, Gives
<1>11. Round(w)' /\ ReadHolds(w)'
  BY <1>0, <1>1 DEF TypeOK, Rounds, Round, ReadHolds
<1>12. Delivers(w)'
  <2> SUFFICES ASSUME NEW r \in ToSet(batch[w])
               PROVE  answers'[w][r] # "none" /\ True(r, answers[w][r])'
    BY <1>1 DEF Delivers
  <2>1. answers'[w][r] = Outcome(w, bad, r)
    BY <1>0, <1>1, <1>5 DEF TypeOK
  <2> QED BY <1>4, <2>1 DEF True
<1> QED BY <1>2, <1>7, <1>8, <1>10, <1>11, <1>12, MovesInv DEF Moves

\* A transaction fails for the worker, whatever it has written.
LEMMA FailedInv ==
    ASSUME Inv, NEW w \in Workers, pc[w] = "write", Failed(w), Writes(w),
           journal' \in [Keys -> Requests \cup {NoRequest}]
    PROVE  Inv'
<1> DEFINE b == batch[w]
<1>0. TypeOK /\ OnePlace /\ Rounds
  BY DEF Inv
<1>1. /\ mode[w] # "gone" /\ b # <<>>
      /\ seen' = [seen EXCEPT ![w] = NoKeys]
      /\ UNCHANGED <<queue, done, stopped, ret, waiting, canceled, mode>>
  BY <1>0 DEF Failed, End, clientVars, Rounds, Round
<1>2. NoKeys \in [Keys -> Requests \cup {NoRequest}]
  BY DEF NoKeys
<1>3. b \in Seq(Requests) /\ IsInjective(b)
  BY <1>0 DEF TypeOK, OnePlace
<1> DEFINE h == Head(b)
           t == Tail(b)
<1>4. /\ h \in Requests /\ t \in Seq(Requests) /\ ToSet(b) = {h} \cup ToSet(t)
      /\ IsInjective(t) /\ h \notin ToSet(t) /\ Len(b) \in Nat \ {0}
      /\ Len(b) = 1 => ToSet(b) = {h}
  BY <1>1, <1>3, OneLess
<1>5. (Len(b) > 1 => Len(b) # 1) /\ (~(Len(b) > 1) => Len(b) = 1)
  <2> DEFINE n == Len(b)
  <2>1. n \in Nat /\ n # 0
    BY <1>4
  <2> HIDE DEF n
  <2>2. (n > 1 => n # 1) /\ (~(n > 1) => n = 1)
    BY <2>1
  <2> QED BY <2>2 DEF n
<1>6. CASE Len(b) > 1
  <2>1. /\ batch' = [batch EXCEPT ![w] = <<h>>] /\ rest' = [rest EXCEPT ![w] = t]
        /\ pc' = [pc EXCEPT ![w] = "commit"] /\ answers' = answers
    BY <1>0, <1>6 DEF Failed, TypeOK
  <2> HIDE DEF h, t
  <2>2. <<h>> \in Seq(Requests) /\ ToSet(<<h>>) = {h} /\ IsInjective(<<h>>) /\ <<h>> # <<>> /\ Len(<<h>>) = 1
    BY <1>4, NoneOrOne
  <2>3. batch'[w] = <<h>> /\ rest'[w] = t /\ pc'[w] = "commit"
    BY <1>0, <2>1 DEF TypeOK
  <2>4. ToSet(rest[w]) = {}
    <3>1. rest[w] = <<>>
      BY <1>0, <1>5, <1>6 DEF Rounds, Round
    <3> QED BY <3>1 DEF ToSet
  <2>5. Has(w)' = Has(w)
    BY <1>4, <2>2, <2>3, <2>4 DEF Has
  <2>6. TypeOK'
    BY <1>0, <1>1, <1>2, <1>4, <2>1, <2>2 DEF TypeOK
  <2>7. OthersStay(w)
    BY <1>0, <1>1, <2>1 DEF TypeOK, OthersStay
  <2>8. Takes(w) /\ Gives(w)
    BY <1>0, <1>1, <1>4, <2>2, <2>3, <2>5 DEF OnePlace, Takes, Gives
  <2>9. Round(w)' /\ ReadHolds(w)' /\ Delivers(w)'
    BY <1>1, <2>2, <2>3 DEF Round, ReadHolds, Delivers
  <2> QED BY <2>6, <2>7, <2>8, <2>9, MovesInv DEF Moves
<1>7. CASE ~(Len(b) > 1)
  <2>1. /\ answers' = [answers EXCEPT ![w] = [NoAnswers EXCEPT ![h] = "failed"]]
        /\ pc' = [pc EXCEPT ![w] = "deliver"] /\ batch' = batch /\ rest' = rest
    BY <1>7 DEF Failed
  <2>2. ToSet(b) = {h}
    BY <1>4, <1>5, <1>7
  <2> HIDE DEF h, t
  <2> DEFINE a == [NoAnswers EXCEPT ![h] = "failed"]
  <2>3. a \in [Requests -> {"none", "ok", "refused", "failed"}] /\ a[h] = "failed"
    BY <1>4 DEF NoAnswers
  <2> HIDE DEF a
  <2>4. answers' = [answers EXCEPT ![w] = a]
    BY <2>1 DEF a
  <2>5. TypeOK'
    <3>1. answers' \in [Workers -> [Requests -> {"none", "ok", "refused", "failed"}]]
      BY <1>0, <2>3, <2>4 DEF TypeOK
    <3>2. seen' \in [Workers -> [Keys -> Requests \cup {NoRequest}]]
      BY <1>0, <1>1, <1>2 DEF TypeOK
    <3> QED BY <1>0, <1>1, <2>1, <3>1, <3>2 DEF TypeOK
  <2>6. OthersStay(w)
    BY <1>0, <1>1, <2>1, <2>4 DEF TypeOK, OthersStay
  <2>7. Has(w)' = Has(w)
    BY <2>1 DEF Has
  <2>8. Takes(w) /\ Gives(w)
    BY <1>0, <1>1, <2>1, <2>7 DEF OnePlace, Takes, Gives
  <2>9. Round(w)' /\ ReadHolds(w)'
    BY <1>0, <1>1, <2>1 DEF TypeOK, Rounds, Round, ReadHolds
  <2>10. Delivers(w)'
    <3>1. answers'[w][h] = "failed"
      BY <1>0, <2>3, <2>4 DEF TypeOK
    <3>2. \A r \in ToSet(batch'[w]) : r = h
      BY <2>1, <2>2
    <3> QED BY <3>1, <3>2 DEF Delivers, True
  <2> QED BY <2>5, <2>6, <2>8, <2>9, <2>10, MovesInv DEF Moves
<1> QED BY <1>6, <1>7

\* Whatever the database does with a transaction keeps the invariant.
LEMMA DatabaseInv ==
    ASSUME Inv, NEW w \in Workers, Database(w)
    PROVE  Inv'
<1>0. TypeOK
  BY DEF Inv
<1>1. ASSUME UNCHANGED journal PROVE Writes(w) /\ journal' \in [Keys -> Requests \cup {NoRequest}]
  BY <1>0, <1>1 DEF Writes, TypeOK
<1>2. ASSUME pc[w] = "write", Retry(w) \/ GiveUpRetrying(w) PROVE Inv'
  BY <1>1, <1>2, RetryInv, FailedInv DEF GiveUpRetrying
<1>3. CASE Transient(w) \/ Fail(w)
  BY <1>1, <1>2, <1>3, FailedInv DEF Transient, Fail
<1>4. ASSUME NEW bad, Commit(w, bad) \/ Conflict(w, bad) \/ LostAck(w, bad) PROVE Inv'
  <2>1. CASE Commit(w, bad)
    BY <2>1, CommitInv
  <2>2. CASE Conflict(w, bad)
    BY <1>2, <2>2 DEF Conflict
  <2>3. CASE LostAck(w, bad)
    <3>1. /\ pc[w] = "write" /\ Failed(w)
          /\ Free(Accepted(w, bad)) /\ journal' = Journal(Accepted(w, bad))
      BY <2>3 DEF LostAck
    <3>2. Writes(w) /\ journal' \in [Keys -> Requests \cup {NoRequest}]
      BY <1>0, <3>1, CommitWrites
    <3> QED BY <3>1, <3>2, FailedInv
  <2> QED BY <1>4, <2>1, <2>2, <2>3
<1> QED BY <1>3, <1>4 DEF Database

\* Every step of a worker keeps the invariant.
LEMMA WorkInv ==
    ASSUME Inv, NEW w \in Workers, Work(w)
    PROVE  Inv'
BY TakeInv, DrainInv, CollectInv, FilterInv, ReadInv, DatabaseInv, DeliverInv DEF Work

-------------------------------------------------------------------------------
(***************************************************************************)
(* The callers.                                                            *)
(***************************************************************************)

\* What does not change with the workers and the journal.
LEMMA WorkersStay ==
    ASSUME UNCHANGED <<journal, workerVars>>
    PROVE  /\ \A w : /\ Has(w)' = Has(w) /\ Round(w)' = Round(w)
                     /\ ReadHolds(w)' = ReadHolds(w) /\ Delivers(w)' = Delivers(w)
           /\ \A r, a : True(r, a)' = True(r, a)
           /\ UNCHANGED <<journal, mode, pc, batch, rest, seen, answers>>
BY DEF workerVars, Has, Round, ReadHolds, Delivers, True

\* A request is put on the queue.
LEMMA EnqueueInv ==
    ASSUME Inv, NEW r \in Requests, Enqueue(r)
    PROVE  Inv'
<1>0. TypeOK /\ OnePlace /\ Rounds /\ CallsKept /\ UntakenUnposted /\ AnswersTrue
  BY DEF Inv
<1>1. /\ Submitting(r) /\ queue' = Append(queue, r) /\ waiting' = waiting \cup {r}
      /\ UNCHANGED <<done, stopped, ret, canceled>> /\ UNCHANGED <<journal, workerVars>>
  BY DEF Enqueue
<1>2. /\ \A w : Has(w)' = Has(w) /\ Round(w)' = Round(w) /\ ReadHolds(w)' = ReadHolds(w) /\ Delivers(w)' = Delivers(w)
      /\ \A q, a : True(q, a)' = True(q, a)
      /\ UNCHANGED <<journal, mode, pc, batch, rest, seen, answers>>
  BY <1>1, WorkersStay
<1>3. ~InFlight(r) /\ done[r] = "none" /\ ret[r] = "none" /\ r \notin waiting
  BY <1>0, <1>1 DEF CallsKept, Submitting
<1>4. r \notin ToSet(queue) /\ \A w \in Workers : r \notin Has(w)
  BY <1>3 DEF InFlight
<1>5. queue' \in Seq(Requests) /\ ToSet(queue') = ToSet(queue) \cup {r} /\ IsInjective(queue')
  <2>1. queue \in Seq(Requests) /\ IsInjective(queue)
    BY <1>0 DEF TypeOK, OnePlace
  <2> QED BY <1>1, <1>4, <2>1, OneMore
<1>6. TypeOK'
  BY <1>0, <1>1, <1>2, <1>5 DEF TypeOK
<1>7. OnePlace'
  BY <1>0, <1>2, <1>4, <1>5 DEF OnePlace
<1>8. Rounds'
  BY <1>0, <1>1, <1>2 DEF Rounds
<1>9. \A q : InFlight(q)' <=> InFlight(q) \/ q = r
  BY <1>2, <1>5 DEF InFlight
<1>10. \A q \in Requests : Submitting(q)' => Submitting(q) /\ q # r
  BY <1>1 DEF Submitting
<1>11. CallsKept'
  <2>1. \A q \in waiting' : ret'[q] = "none" /\ (done'[q] = "none" => InFlight(q)')
    BY <1>0, <1>1, <1>3, <1>9 DEF CallsKept
  <2>2. \A q \in Requests : Submitting(q)' => ~InFlight(q)' /\ done'[q] = "none"
    BY <1>0, <1>1, <1>9, <1>10 DEF CallsKept
  <2>3. \A q \in Requests : InFlight(q)' => done'[q] = "none" /\ (ret'[q] \in {"none", "canceled"} \/ stopped')
    BY <1>0, <1>1, <1>3, <1>9 DEF CallsKept
  <2> QED BY <2>1, <2>2, <2>3 DEF CallsKept
<1>12. UntakenUnposted'
  BY <1>0, <1>1, <1>2, <1>5, <1>10 DEF UntakenUnposted
<1>13. AnswersTrue'
  <2>1. ASSUME NEW q \in Requests PROVE True(q, done[q])'
    BY <1>0, <1>1, <1>2 DEF AnswersTrue, True
  <2> QED BY <1>0, <1>2, <2>1 DEF AnswersTrue
<1> QED BY <1>6, <1>7, <1>8, <1>11, <1>12, <1>13 DEF Inv

\* A call returns.  One that is in flight returns only if it was cancelled or the service
\* has stopped; its result, if it had one, is taken.
Returns(r, a) ==
    /\ ret[r] = "none" /\ a \in Answers /\ Return(r, a)
    /\ \/ UNCHANGED done
       \/ done' = [done EXCEPT ![r] = "none"] /\ ~InFlight(r)
    /\ InFlight(r) => a = "canceled" \/ stopped
    /\ UNCHANGED <<journal, queue, stopped, canceled, workerVars>>

LEMMA ReturnsInv ==
    ASSUME Inv, NEW r \in Requests, NEW a, Returns(r, a)
    PROVE  Inv'
<1>0. TypeOK /\ OnePlace /\ Rounds /\ CallsKept /\ UntakenUnposted /\ AnswersTrue
  BY DEF Inv
<1>1. /\ ret' = [ret EXCEPT ![r] = a] /\ waiting' = waiting \ {r} /\ a \in Answers
      /\ UNCHANGED <<queue, stopped, canceled>> /\ UNCHANGED <<journal, workerVars>>
  BY DEF Returns, Return
<1>2. /\ \A w : Has(w)' = Has(w) /\ Round(w)' = Round(w) /\ ReadHolds(w)' = ReadHolds(w) /\ Delivers(w)' = Delivers(w)
      /\ \A q, x : True(q, x)' = True(q, x)
      /\ UNCHANGED <<journal, mode, pc, batch, rest, seen, answers>>
  BY <1>1, WorkersStay
<1>3. /\ done' \in [Requests -> {"none", "ok", "refused", "failed", "canceled"}]
      /\ \A q \in Requests : done'[q] = done[q] \/ done'[q] = "none"
      /\ \A q \in Requests : q # r => done'[q] = done[q]
  BY <1>0 DEF Returns, TypeOK
<1>4. /\ ret' \in [Requests -> Answers \cup {"none"}] /\ ret'[r] = a /\ a # "none"
      /\ \A q \in Requests : q # r => ret'[q] = ret[q]
  BY <1>0, <1>1 DEF TypeOK, Answers
<1>5. TypeOK'
  BY <1>0, <1>1, <1>2, <1>3, <1>4 DEF TypeOK
<1>6. OnePlace' /\ Rounds'
  BY <1>0, <1>1, <1>2 DEF OnePlace, Rounds
<1>7. \A q : InFlight(q)' = InFlight(q)
  BY <1>1, <1>2 DEF InFlight
<1>8. \A q \in Requests : Submitting(q)' => Submitting(q) /\ q # r
  BY <1>1, <1>4 DEF Submitting
<1>9. CallsKept'
  <2>1. ASSUME NEW q \in waiting' PROVE ret'[q] = "none" /\ (done'[q] = "none" => InFlight(q)')
    <3>1. q \in waiting /\ q # r /\ q \in Requests
      BY <1>0, <1>1 DEF TypeOK
    <3> QED BY <1>0, <1>3, <1>4, <1>7, <3>1 DEF CallsKept
  <2>2. ASSUME NEW q \in Requests, Submitting(q)' PROVE ~InFlight(q)' /\ done'[q] = "none"
    BY <1>0, <1>3, <1>7, <1>8, <2>2 DEF CallsKept
  <2>3. ASSUME NEW q \in Requests, InFlight(q)'
        PROVE  done'[q] = "none" /\ (ret'[q] \in {"none", "canceled"} \/ stopped')
    <3>1. InFlight(q) /\ done[q] = "none" /\ (ret[q] \in {"none", "canceled"} \/ stopped)
      BY <1>0, <1>7, <2>3 DEF CallsKept
    <3>2. q = r => a = "canceled" \/ stopped
      BY <3>1 DEF Returns
    <3> QED BY <1>1, <1>3, <1>4, <3>1, <3>2
  <2> QED BY <2>1, <2>2, <2>3 DEF CallsKept
<1>10. UntakenUnposted'
  BY <1>0, <1>1, <1>2, <1>8 DEF UntakenUnposted
<1>11. AnswersTrue'
  <2>1. ASSUME NEW q \in Requests PROVE True(q, done[q])'
    <3>1. CASE done'[q] = "none"
      BY <3>1 DEF True
    <3>2. CASE done'[q] = done[q]
      BY <1>0, <1>2, <3>2 DEF AnswersTrue, True
    <3> QED BY <1>3, <3>1, <3>2
  <2> QED BY <1>0, <1>2, <2>1 DEF AnswersTrue
<1> QED BY <1>5, <1>6, <1>9, <1>10, <1>11 DEF Inv

\* A call that returns does so in one of four ways, and what it is told is true.
LEMMA ReturnIsTrue ==
    ASSUME Inv, NEW r \in Requests, NotEnqueued(r) \/ Receive(r) \/ GiveUp(r) \/ SeeStopped(r)
    PROVE  \E a : Returns(r, a) /\ True(r, a) /\ (a = "stopped" => journal[KeyOf[r]] # r)
<1>0. TypeOK /\ Rounds /\ CallsKept /\ UntakenUnposted /\ AnswersTrue
  BY DEF Inv
<1>1. CASE NotEnqueued(r)
  <2>1. Submitting(r) /\ ret[r] = "none" /\ ~InFlight(r) /\ journal[KeyOf[r]] # r
    BY <1>0, <1>1 DEF NotEnqueued, Submitting, CallsKept, UntakenUnposted
  <2>2. PICK a \in {"canceled", "stopped"} : Return(r, a)
    BY <1>1 DEF NotEnqueued
  <2>3. Returns(r, a)
    BY <1>1, <2>1, <2>2 DEF NotEnqueued, Returns, Answers
  <2> QED BY <2>1, <2>2, <2>3 DEF True
<1>2. CASE Receive(r)
  <2>1. r \in waiting /\ done[r] # "none" /\ ret[r] = "none" /\ ~InFlight(r) /\ True(r, done[r])
    BY <1>0, <1>2 DEF Receive, CallsKept, AnswersTrue
  <2>2. done[r] \in {"ok", "refused", "failed", "canceled"}
    BY <1>0, <2>1 DEF TypeOK
  <2>3. Returns(r, done[r])
    BY <1>2, <2>1, <2>2 DEF Receive, Returns, Answers
  <2> QED BY <2>1, <2>2, <2>3
<1>3. CASE GiveUp(r)
  <2>1. Returns(r, "canceled")
    BY <1>0, <1>3 DEF GiveUp, Returns, Answers, CallsKept
  <2> QED BY <2>1 DEF True
<1>4. CASE SeeStopped(r)
  <2>1. r \in waiting /\ stopped /\ done[r] = "none" /\ ret[r] = "none" /\ InFlight(r)
    BY <1>0, <1>4 DEF SeeStopped, CallsKept
  <2>2. \A w \in Workers : Has(w) = {}
    <3> SUFFICES ASSUME NEW w \in Workers PROVE Has(w) = {}
      OBVIOUS
    <3>1. batch[w] = <<>> /\ rest[w] = <<>>
      BY <1>0, <2>1 DEF Rounds, Round
    <3> QED BY <3>1 DEF Has, ToSet
  <2>3. journal[KeyOf[r]] # r
    BY <1>0, <2>1, <2>2 DEF InFlight, UntakenUnposted
  <2>4. Returns(r, "stopped")
    BY <1>4, <2>1 DEF SeeStopped, Returns, Answers
  <2> QED BY <2>3, <2>4 DEF True
<1> QED BY <1>1, <1>2, <1>3, <1>4

\* A context is done, shutdown begins or has ended.  stopped is closed once every worker
\* is gone.
LEMMA OtherInv ==
    ASSUME Inv, (\E r \in Requests : Cancel(r)) \/ Stop \/ CloseStopped \/ UNCHANGED vars
    PROVE  Inv'
<1>0. TypeOK /\ OnePlace /\ Rounds /\ CallsKept /\ UntakenUnposted /\ AnswersTrue
  BY DEF Inv
<1>1. /\ UNCHANGED <<ret, waiting, queue, done>> /\ UNCHANGED <<journal, workerVars>>
      /\ canceled' \subseteq Requests
      /\ stopped' = stopped \/ (stopped' = TRUE /\ \A w \in Workers : mode[w] = "gone")
  BY <1>0 DEF Cancel, Stop, CloseStopped, vars, clientVars, TypeOK
<1>2. /\ \A w : Has(w)' = Has(w) /\ Round(w)' = Round(w) /\ ReadHolds(w)' = ReadHolds(w) /\ Delivers(w)' = Delivers(w)
      /\ \A q, x : True(q, x)' = True(q, x)
      /\ UNCHANGED <<journal, mode, pc, batch, rest, seen, answers>>
  BY <1>1, WorkersStay
<1>3. TypeOK'
  BY <1>0, <1>1, <1>2 DEF TypeOK
<1>4. OnePlace' /\ Rounds'
  BY <1>0, <1>1, <1>2 DEF OnePlace, Rounds
<1>5. \A q : InFlight(q)' = InFlight(q) /\ Submitting(q)' = Submitting(q)
  BY <1>1, <1>2 DEF InFlight, Submitting
<1>6. CallsKept'
  <2>1. \A q \in waiting' : ret'[q] = "none" /\ (done'[q] = "none" => InFlight(q)')
    BY <1>0, <1>1, <1>5 DEF CallsKept
  <2>2. \A q \in Requests : Submitting(q)' => ~InFlight(q)' /\ done'[q] = "none"
    BY <1>0, <1>1, <1>5 DEF CallsKept
  <2>3. \A q \in Requests : InFlight(q)' => done'[q] = "none" /\ (ret'[q] \in {"none", "canceled"} \/ stopped')
    BY <1>0, <1>1, <1>5 DEF CallsKept
  <2> QED BY <2>1, <2>2, <2>3 DEF CallsKept
<1>7. UntakenUnposted'
  BY <1>0, <1>1, <1>2, <1>5 DEF UntakenUnposted
<1>8. AnswersTrue'
  <2>1. ASSUME NEW q \in Requests PROVE True(q, done[q])'
    BY <1>0, <1>1, <1>2 DEF AnswersTrue, True
  <2> QED BY <1>0, <1>2, <2>1 DEF AnswersTrue
<1> QED BY <1>3, <1>4, <1>6, <1>7, <1>8 DEF Inv

LEMMA NextInv == Inv /\ [Next]_vars => Inv'
<1> SUFFICES ASSUME Inv, [Next]_vars PROVE Inv'
  OBVIOUS
<1>1. ASSUME NEW r \in Requests, Submit(r) PROVE Inv'
  <2>1. CASE Enqueue(r)
    BY <2>1, EnqueueInv
  <2>2. CASE NotEnqueued(r) \/ Receive(r) \/ GiveUp(r) \/ SeeStopped(r)
    <3>1. PICK a : Returns(r, a)
      BY <2>2, ReturnIsTrue
    <3> QED BY <3>1, ReturnsInv
  <2> QED BY <1>1, <2>1, <2>2 DEF Submit
<1>2. CASE (\E r \in Requests : Cancel(r)) \/ Stop \/ CloseStopped \/ UNCHANGED vars
  BY <1>2, OtherInv
<1> QED BY <1>1, <1>2, WorkInv DEF Next

LEMMA InvHolds == Spec => []Inv
BY InitInv, NextInv, PTL DEF Spec

\* Every variable of the group commit keeps its type.
THEOREM TypeCorrect == Spec => []TypeOK
<1>1. Inv => TypeOK
  BY DEF Inv
<1> QED BY <1>1, InvHolds, PTL

\* A request is in the queue once or with one worker once, through group failures, the
\* posting one by one that follows and the drain of shutdown (collect, commit, drain).
THEOREM OnePlaceHolds == Spec => []OnePlace
<1>1. Inv => OnePlace
  BY DEF Inv
<1> QED BY <1>1, InvHolds, PTL

-------------------------------------------------------------------------------
(***************************************************************************)
(* The refinement.                                                         *)
(***************************************************************************)

\* A transaction that commits posts what it has accepted together; one that has accepted
\* nothing leaves the journal as it was.
LEMMA CommitIsWrite ==
    ASSUME Inv, NEW w \in Workers, NEW bad, pc[w] = "write", Free(Accepted(w, bad)),
           journal' = Journal(Accepted(w, bad)), UNCHANGED ret
    PROVE  [Service!Next]_<<journal, ret>>
<1> DEFINE R == Accepted(w, bad)
<1>0. TypeOK /\ Rounds /\ CallsKept
  BY DEF Inv
<1>1. /\ R \subseteq ToSet(batch[w]) /\ R \in SUBSET Requests
      /\ \A r, q \in R : KeyOf[r] = KeyOf[q] => r = q
  BY <1>0, AcceptedIs
<1>2. \A r \in R : journal[KeyOf[r]] = NoRequest
  BY DEF Free
<1>3. journal' = Journal(R)
  OBVIOUS
<1> HIDE DEF R
<1>4. \A r \in R : ret[r] \in {"none", "canceled"}
  <2>1. mode[w] # "gone"
    BY <1>0 DEF Rounds, Round
  <2>2. stopped = FALSE
    BY <2>1, NotStopped
  <2>3. \A r \in R : InFlight(r)
    BY <1>1 DEF InFlight, Has
  <2> QED BY <1>0, <1>1, <2>2, <2>3 DEF CallsKept
<1>5. Journal(R) = Service!Journal(R)
  BY DEF Journal, Service!Journal, Keys, Service!Keys
<1>6. CASE R = {}
  <2>1. /\ journal \in [Keys -> Requests \cup {NoRequest}]
        /\ journal' \in [Keys -> Requests \cup {NoRequest}]
        /\ \A k \in Keys : (\A r \in R : KeyOf[r] # k) => journal'[k] = journal[k]
    <3>1. journal \in [Keys -> Requests \cup {NoRequest}]
      BY <1>0 DEF TypeOK
    <3> QED BY <1>0, <3>1, CommitWrites DEF R
  <2>2. journal' = journal
    BY <1>6, <2>1
  <2> QED BY <2>2
<1>7. CASE R # {}
  <2>1. Service!Write(R)
    BY <1>1, <1>2, <1>3, <1>4, <1>5, <1>7 DEF Service!Write
  <2> QED BY <1>1, <2>1 DEF Service!Next
<1> QED BY <1>6, <1>7

\* A call returns what the journal says.
LEMMA ReturnIsReturn ==
    ASSUME Inv, NEW r \in Requests, NotEnqueued(r) \/ Receive(r) \/ GiveUp(r) \/ SeeStopped(r)
    PROVE  Service!Next
<1>1. PICK a : Returns(r, a) /\ True(r, a) /\ (a = "stopped" => journal[KeyOf[r]] # r)
  BY ReturnIsTrue
<1>2. ret[r] = "none" /\ a \in Answers /\ ret' = [ret EXCEPT ![r] = a] /\ UNCHANGED journal
  BY <1>1 DEF Returns, Return
<1>3. Service!Return(r, a) /\ a \in Service!Answers
  BY <1>1, <1>2 DEF Service!Return, Service!Posted, Service!Answers, True, Answers
<1> QED BY <1>3 DEF Service!Next

\* Every step of the group commit is a step of PostingService, or one it does not see.
LEMMA ServiceStep == Inv /\ [Next]_vars => [Service!Next]_<<journal, ret>>
<1> SUFFICES ASSUME Inv, [Next]_vars PROVE [Service!Next]_<<journal, ret>>
  OBVIOUS
<1>1. ASSUME NEW r \in Requests, Submit(r) \/ Cancel(r) PROVE [Service!Next]_<<journal, ret>>
  <2>1. CASE Enqueue(r) \/ Cancel(r)
    BY <2>1 DEF Enqueue, Cancel
  <2> QED BY <1>1, <2>1, ReturnIsReturn DEF Submit
<1>2. ASSUME NEW w \in Workers, Work(w) PROVE [Service!Next]_<<journal, ret>>
  <2>1. CASE Take(w) \/ BeginDrain(w) \/ EndDrain(w) \/ Collect(w) \/ Filter(w) \/ Read(w) \/ Deliver(w)
    BY <2>1 DEF Take, BeginDrain, EndDrain, Collect, Filter, Read, Deliver, clientVars
  <2>2. ASSUME Retry(w) \/ GiveUpRetrying(w) PROVE UNCHANGED <<journal, ret>>
    BY <2>2 DEF Retry, GiveUpRetrying, Failed, clientVars
  <2>3. CASE Transient(w) \/ Fail(w)
    BY <2>2, <2>3 DEF Transient, Fail, Failed, clientVars
  <2>4. ASSUME NEW bad, Commit(w, bad) \/ Conflict(w, bad) \/ LostAck(w, bad)
        PROVE  [Service!Next]_<<journal, ret>>
    <3>1. CASE Commit(w, bad)
      BY <3>1, CommitIsWrite DEF Commit, clientVars
    <3>2. CASE Conflict(w, bad)
      BY <2>2, <3>2 DEF Conflict
    <3>3. CASE LostAck(w, bad)
      BY <3>3, CommitIsWrite DEF LostAck, Failed, clientVars
    <3> QED BY <2>4, <3>1, <3>2, <3>3
  <2> QED BY <1>2, <2>1, <2>3, <2>4 DEF Work, Database
<1>3. CASE Stop \/ CloseStopped \/ UNCHANGED vars
  BY <1>3 DEF Stop, CloseStopped, vars, clientVars
<1> QED BY <1>1, <1>2, <1>3 DEF Next

\* Whatever group failures, retries, cancellations, lost acknowledgements and shutdown
\* do, callers see what PostingService promises (submit, commit): an ok is in the journal,
\* a refusal or ErrStopped has put nothing there and never will, a key is written once.
THEOREM ImplementsHolds == Spec => Implements
<1>1. Init => Service!Init
  BY DEF Init, NoKeys, Keys, Service!Init, Service!Keys
<1>2. Spec => [][Service!Next]_<<journal, ret>>
  BY ServiceStep, InvHolds, PTL DEF Spec
<1>3. Spec => Service!Init
  BY <1>1, PTL DEF Spec
<1>4. Spec => Service!Spec
  BY <1>2, <1>3, PTL DEF Service!Spec
<1> QED BY <1>4 DEF Implements

-------------------------------------------------------------------------------
(***************************************************************************)
(* Shutdown.                                                               *)
(***************************************************************************)

\* No worker drains or leaves before shutdown has begun.
AllWork == ~stopping => \A w \in Workers : mode[w] = "work"

LEMMA AllWorkHolds == Spec => []AllWork
<1>1. Init => AllWork
  BY DEF Init, AllWork
<1>2. AllWork /\ [Next]_vars => AllWork'
  <2> SUFFICES ASSUME AllWork, [Next]_vars, ~stopping' PROVE \A w \in Workers : mode'[w] = "work"
    BY DEF AllWork
  <2>1. ASSUME NEW r \in Requests, Submit(r) \/ Cancel(r) PROVE UNCHANGED <<mode, stopping>>
    BY <2>1 DEF Submit, Enqueue, NotEnqueued, Receive, GiveUp, SeeStopped, Cancel, workerVars
  <2>2. ASSUME NEW w \in Workers, BeginDrain(w) \/ EndDrain(w) PROVE FALSE
    BY <2>2 DEF BeginDrain, EndDrain, AllWork
  <2>3. ASSUME NEW w \in Workers, Work(w) PROVE UNCHANGED <<mode, stopping>>
    <3>1. CASE Take(w) \/ Collect(w) \/ Filter(w) \/ Read(w) \/ Deliver(w)
      BY <3>1 DEF Take, Collect, Filter, Read, Deliver
    <3>2. CASE Database(w)
      BY <3>2 DEF Database, Transient, Fail, Commit, Conflict, LostAck, Retry, GiveUpRetrying, Failed
    <3> QED BY <2>2, <2>3, <3>1, <3>2 DEF Work
  <2>4. CASE Stop \/ CloseStopped \/ UNCHANGED vars
    BY <2>4 DEF Stop, CloseStopped, vars, workerVars, AllWork
  <2> QED BY <2>1, <2>3, <2>4 DEF Next, AllWork
<1> QED BY <1>1, <1>2, PTL DEF Spec

\* A request that will be served: its call is waiting or was told something else, and
\* while it is queued there is a worker that has not left.
Served(r) ==
    /\ r \in waiting \/ ret[r] \notin {"none", "stopped"}
    /\ r \in ToSet(queue) => \E w \in Workers : mode[w] # "gone"

LEMMA ServedStays ==
    ASSUME NEW r \in Requests
    PROVE  Inv /\ Served(r) /\ [Next]_vars => Served(r)'
<1> SUFFICES ASSUME Inv, Served(r), [Next]_vars PROVE Served(r)'
  OBVIOUS
<1>0. TypeOK /\ Rounds /\ CallsKept
  BY DEF Inv
<1>1. r \in waiting => ret[r] = "none" /\ (done[r] = "none" => InFlight(r))
  BY <1>0 DEF CallsKept
<1>2. ASSUME NEW q \in Requests, Enqueue(q) PROVE Served(r)'
  <2>1. q # r /\ queue \in Seq(Requests)
    BY <1>0, <1>1, <1>2 DEF Enqueue, Submitting, Served, TypeOK
  <2>2. ToSet(queue') = ToSet(queue) \cup {q} /\ (r \in waiting' <=> r \in waiting)
    BY <1>2, <2>1, OneMore DEF Enqueue
  <2>3. UNCHANGED <<ret, mode>>
    BY <1>2 DEF Enqueue, workerVars
  <2> QED BY <2>1, <2>2, <2>3 DEF Served, Enqueue
<1>3. ASSUME NEW q \in Requests, NotEnqueued(q) \/ Receive(q) \/ GiveUp(q) \/ SeeStopped(q)
      PROVE  Served(r)'
  <2>1. UNCHANGED <<queue, mode>>
    BY <1>3 DEF NotEnqueued, Receive, GiveUp, SeeStopped, workerVars
  <2>2. CASE q # r
    <3>1. ret'[r] = ret[r] /\ (r \in waiting' <=> r \in waiting)
      BY <1>0, <1>3, <2>2 DEF NotEnqueued, Receive, GiveUp, SeeStopped, Return, TypeOK
    <3> QED BY <2>1, <3>1 DEF Served
  <2>3. CASE q = r
    <3>1. ~NotEnqueued(r)
      BY DEF NotEnqueued, Submitting, Served
    <3>2. CASE Receive(r)
      <4>1. ret'[r] = done[r] /\ done[r] \notin {"none", "stopped"}
        BY <1>0, <3>2 DEF Receive, Return, TypeOK
      <4> QED BY <2>1, <4>1 DEF Served
    <3>3. CASE GiveUp(r)
      <4>1. ret'[r] = "canceled"
        BY <1>0, <3>3 DEF GiveUp, Return, TypeOK
      <4> QED BY <2>1, <4>1 DEF Served
    <3>4. CASE SeeStopped(r)
      <4>1. stopped /\ InFlight(r)
        BY <1>1, <3>4 DEF SeeStopped
      <4>2. \A w \in Workers : mode[w] = "gone" /\ batch[w] = <<>> /\ rest[w] = <<>>
        BY <1>0, <4>1 DEF Rounds, Round
      <4>3. \A w \in Workers : Has(w) = {}
        BY <4>2 DEF Has, ToSet
      <4>4. r \in ToSet(queue)
        BY <4>1, <4>3 DEF InFlight
      <4> QED BY <4>2, <4>4 DEF Served
    <3> QED BY <1>3, <2>3, <3>1, <3>2, <3>3, <3>4
  <2> QED BY <2>2, <2>3
<1>4. ASSUME NEW w \in Workers, Work(w) PROVE Served(r)'
  <2>1. CASE Take(w) \/ Collect(w)
    <3>1. UNCHANGED <<ret, waiting, mode>>
      BY <2>1 DEF Take, Collect, clientVars
    <3>2. queue' = queue \/ (queue # <<>> /\ queue' = Tail(queue))
      BY <2>1 DEF Take, Collect
    <3>3. ToSet(queue') \subseteq ToSet(queue)
      <4>1. queue \in Seq(Requests)
        BY <1>0 DEF TypeOK
      <4>2. queue # <<>> => ToSet(queue) = {Head(queue)} \cup ToSet(Tail(queue))
        BY <4>1, OneLess
      <4>3. CASE queue' = queue
        BY <4>3
      <4>4. CASE queue # <<>> /\ queue' = Tail(queue)
        BY <4>2, <4>4
      <4> QED BY <3>2, <4>3, <4>4
    <3> QED BY <3>1, <3>3 DEF Served
  <2>2. CASE BeginDrain(w)
    <3>1. UNCHANGED <<ret, waiting, queue>> /\ mode'[w] # "gone"
      BY <1>0, <2>2 DEF BeginDrain, clientVars, TypeOK
    <3> QED BY <3>1 DEF Served
  <2>3. CASE EndDrain(w)
    <3>1. UNCHANGED <<ret, waiting, queue>> /\ queue = <<>>
      BY <2>3 DEF EndDrain, clientVars
    <3>2. r \notin ToSet(queue')
      BY <3>1 DEF ToSet
    <3> QED BY <3>1, <3>2 DEF Served
  <2>4. CASE Filter(w) \/ Read(w) \/ Deliver(w)
    BY <2>4 DEF Filter, Read, Deliver, clientVars, Served
  <2>5. CASE Database(w)
    <3>1. UNCHANGED <<ret, waiting, mode, queue>>
      BY <2>5 DEF Database, Transient, Fail, Commit, Conflict, LostAck, Retry, GiveUpRetrying, Failed, clientVars
    <3> QED BY <3>1 DEF Served
  <2> QED BY <1>4, <2>1, <2>2, <2>3, <2>4, <2>5 DEF Work
<1>5. CASE (\E q \in Requests : Cancel(q)) \/ Stop \/ CloseStopped \/ UNCHANGED vars
  BY <1>5 DEF Cancel, Stop, CloseStopped, vars, clientVars, workerVars, Served
<1> QED BY <1>2, <1>3, <1>4, <1>5 DEF Next, Submit

\* A request that was queued before shutdown began is never told ErrStopped: a worker
\* leaves only when it finds the queue empty, and the channel is closed after the last
\* one has left (drain, run).
THEOREM QueuedIsServedHolds == Spec => QueuedIsServed
<1>1. ASSUME NEW r \in Requests
      PROVE  Spec => [](r \in waiting /\ ~stopping => [](ret[r] # "stopped"))
  <2>1. AllWork /\ r \in waiting /\ ~stopping => Served(r)
    BY BatcherAssumption DEF AllWork, Served
  <2>2. Inv /\ Served(r) => ret[r] # "stopped"
    BY DEF Inv, CallsKept, Served
  <2>3. Inv /\ Served(r) /\ [Next]_vars => Served(r)'
    BY ServedStays
  <2> QED BY <2>1, <2>2, <2>3, InvHolds, AllWorkHolds, PTL DEF Spec
<1> QED BY <1>1 DEF QueuedIsServed
===============================================================================
