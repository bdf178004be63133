------------------------------- MODULE SealChain -------------------------------
(***************************************************************************)
(* The seal chain of internal/modules/ledger/seal.go.  Every instance of   *)
(* the service has a sealer that appends the posted transactions of the    *)
(* journal to one chain, each linked to the one before by a keyed hash.    *)
(*                                                                         *)
(* Transactions are sealed in the order of (posted_xid, id), in which the  *)
(* journal does not grow at its end only.  Rows are the transactions of    *)
(* the table ledger_transactions.                                          *)
(***************************************************************************)
EXTENDS CommitOrder, Sequences

CONSTANTS
    Sealers,    \* instances of the service
    SweepBatch, \* transactions of one call of seal
    MaxCrashes  \* bound on the restarts of instances

ASSUME SealAssumption ==
    /\ Rows \subseteq Nat \ {0} /\ IsFiniteSet(Rows)
    /\ SweepBatch \in Nat \ {0}
    /\ MaxCrashes \in Nat

VARIABLES
    seals,    \* the table ledger_seals, by seq
    pc,       \* sealer -> its progress in seal
    head,     \* sealer -> the chainHead in memory
    chosen,   \* sealer -> the transactions it is going to append
    highest,  \* sealer -> the highest seq it has seen
    crashes

vars == <<nextXid, xid, state, seals, pc, head, chosen, highest, crashes>>

-------------------------------------------------------------------------------
(***************************************************************************)
(* The journal: database transactions post ledger transactions.            *)
(***************************************************************************)

BeginPosting(S) == Write(S) /\ UNCHANGED <<seals, pc, head, chosen, highest, crashes>>

EndPosting(x) ==
    /\ \E outcome \in {"committed", "aborted"} : End(x, outcome)
    /\ UNCHANGED <<seals, pc, head, chosen, highest, crashes>>

-------------------------------------------------------------------------------
(***************************************************************************)
(* What a sealer reads.                                                    *)
(***************************************************************************)

AfterHead(t) == seals # <<>> => Before(seals[Len(seals)].txn, t)

Unsealed == {t \in Rows : Visible(t) /\ AfterHead(t)}

Batches == FirstOf(Unsealed, SweepBatch)

-------------------------------------------------------------------------------
(***************************************************************************)
(* The chain.  A hash stands for all that went into it.                    *)
(***************************************************************************)

Link(prev, seq, entry) == Append(prev, <<seq, entry>>)

Genesis == [seq |-> 0, hash |-> <<>>]

StoredHead == IF seals = <<>> THEN Genesis ELSE [seq |-> Len(seals), hash |-> seals[Len(seals)].chain]

\* The transactions of B in the order of (posted_xid, id).
InOrder(B) ==
    {f \in [1 .. Cardinality(B) -> B] :
        /\ \A i, j \in 1 .. Cardinality(B) : i < j => Before(f[i], f[j])
        /\ \A t \in B : \E i \in 1 .. Cardinality(B) : f[i] = t}

\* Mutant: every transaction of a batch is linked to the head before the batch.
HeadsFlat(h, f) ==
    [i \in 0 .. Len(f) |->
        IF i = 0 THEN h ELSE [seq |-> h.seq + i, hash |-> Link(h.hash, h.seq + i, f[i])]]

\* The head after each of the transactions f: i links on a hash are i more pairs
\* of a seq and an entry in what it stands for.
Heads(h, f) ==
    [i \in 0 .. Len(f) |-> [seq  |-> h.seq + i,
                            hash |-> h.hash \o [j \in 1 .. i |-> <<h.seq + j, f[j]>>]]]

-------------------------------------------------------------------------------
(***************************************************************************)
(* seal.                                                                   *)
(***************************************************************************)

\* Mutant: the head must be above the highest seq seen.
BeginSealAbove(s) ==
    /\ pc[s] = "idle"
    /\ \A r \in Sealers : pc[r] \notin {"loaded", "chosen"}
    /\ StoredHead.seq > highest[s]
    /\ pc' = [pc EXCEPT ![s] = "loaded"]
    /\ head' = [head EXCEPT ![s] = StoredHead]
    /\ UNCHANGED <<journal, seals, chosen, highest, crashes>>

\* pg_try_advisory_xact_lock and loadVerifiedHead.  A head below the highest seq
\* this instance has seen is an error.
BeginSeal(s) ==
    /\ pc[s] = "idle"
    /\ \A r \in Sealers : pc[r] \notin {"loaded", "chosen"}
    /\ StoredHead.seq >= highest[s]
    /\ pc' = [pc EXCEPT ![s] = "loaded"]
    /\ head' = [head EXCEPT ![s] = StoredHead]
    /\ UNCHANGED <<journal, seals, chosen, highest, crashes>>

\* unsealedSQL; with nothing to seal the transaction ends.
Choose(s) ==
    /\ pc[s] = "loaded"
    /\ \E B \in Batches :
           /\ chosen' = [chosen EXCEPT ![s] = B]
           /\ pc' = [pc EXCEPT ![s] = IF B = {} THEN "ended" ELSE "chosen"]
    /\ UNCHANGED <<journal, seals, head, highest, crashes>>

\* The insert, and the commit, which releases the lock.
CommitSeal(s) ==
    /\ pc[s] = "chosen"
    /\ \E f \in InOrder(chosen[s]) :
           LET heads == Heads(head[s], f)
           IN  /\ seals' = seals \o [i \in 1 .. Len(f) |-> [txn |-> f[i], chain |-> heads[i].hash]]
               /\ head' = [head EXCEPT ![s] = heads[Len(f)]]
    /\ chosen' = [chosen EXCEPT ![s] = {}]
    /\ pc' = [pc EXCEPT ![s] = "ended"]
    /\ UNCHANGED <<journal, highest, crashes>>

\* Mutant: the head in memory counts as seen, though its transaction failed.
AbortSealStored(s) ==
    /\ pc[s] \in {"loaded", "chosen", "ended"}
    /\ highest' = [highest EXCEPT ![s] = head[s].seq + Cardinality(chosen[s])]
    /\ chosen' = [chosen EXCEPT ![s] = {}]
    /\ pc' = [pc EXCEPT ![s] = "idle"]
    /\ UNCHANGED <<journal, seals, head, crashes>>

\* The database refuses or loses the transaction, or the answer to its commit is lost.
AbortSeal(s) ==
    /\ pc[s] \in {"loaded", "chosen", "ended"}
    /\ chosen' = [chosen EXCEPT ![s] = {}]
    /\ pc' = [pc EXCEPT ![s] = "idle"]
    /\ UNCHANGED <<journal, seals, head, highest, crashes>>

\* After the commit the head becomes the highest seq seen.
StoreHighest(s) ==
    /\ pc[s] = "ended"
    /\ highest' = [highest EXCEPT ![s] = IF head[s].seq > @ THEN head[s].seq ELSE @]
    /\ pc' = [pc EXCEPT ![s] = "idle"]
    /\ UNCHANGED <<journal, seals, head, chosen, crashes>>

\* An instance stops anywhere and starts anew; the database ends its transaction.
Crash(s) ==
    /\ crashes < MaxCrashes
    /\ crashes' = crashes + 1
    /\ pc' = [pc EXCEPT ![s] = "idle"]
    /\ head' = [head EXCEPT ![s] = Genesis]
    /\ chosen' = [chosen EXCEPT ![s] = {}]
    /\ highest' = [highest EXCEPT ![s] = 0]
    /\ UNCHANGED <<journal, seals>>

-------------------------------------------------------------------------------
Init ==
    /\ JournalInit
    /\ seals = <<>>
    /\ pc = [s \in Sealers |-> "idle"]
    /\ head = [s \in Sealers |-> Genesis]
    /\ chosen = [s \in Sealers |-> {}]
    /\ highest = [s \in Sealers |-> 0]
    /\ crashes = 0

Seal(s) == BeginSeal(s) \/ Choose(s) \/ CommitSeal(s) \/ StoreHighest(s)

Next ==
    \/ \E S \in SUBSET Rows : BeginPosting(S)
    \/ \E x \in 1 .. nextXid : EndPosting(x)
    \/ \E s \in Sealers : Seal(s) \/ AbortSeal(s) \/ Crash(s)

Spec == Init /\ [][Next]_vars

-------------------------------------------------------------------------------
(***************************************************************************)
(* Properties.                                                             *)
(***************************************************************************)

Hash == Seq(Nat \X Rows)

\* Every variable has its type.
TypeOK ==
    /\ JournalTypeOK
    /\ seals \in Seq([txn : Rows, chain : Hash])
    /\ pc \in [Sealers -> {"idle", "loaded", "chosen", "ended"}]
    /\ head \in [Sealers -> [seq : Nat, hash : Hash]]
    /\ chosen \in [Sealers -> SUBSET Rows]
    /\ highest \in [Sealers -> Nat]
    /\ crashes \in 0 .. MaxCrashes

Sealed == {seals[i].txn : i \in 1 .. Len(seals)}

\* "transaction is unsealed but precedes the chain head" of verifyChain never
\* happens: no posting that commits late is left behind by a chain that went on.
NoneSkipped == \A t \in Rows : state[t] = "committed" => t \in Sealed \/ AfterHead(t)

\* The chain follows the order of (posted_xid, id), so that no transaction is sealed
\* twice, and it holds posted transactions only (unsealedSQL).
SealedInOrder ==
    /\ \A i, j \in 1 .. Len(seals) : i < j => Before(seals[i].txn, seals[j].txn)
    /\ \A i \in 1 .. Len(seals) : state[seals[i].txn] = "committed"

\* The chain is always a prefix of the posted transactions in their order, though
\* they commit in another one (unsealedSQL: the bound on posted_xid).
SealedIsPrefix == NoneSkipped /\ SealedInOrder

\* "chain hash does not verify" of verifyChain never happens: each seal is linked
\* to the one before, across batches, instances and restarts.
ChainVerifies ==
    \A i \in 1 .. Len(seals) :
        seals[i].chain = Link(IF i = 1 THEN Genesis.hash ELSE seals[i - 1].chain, i, seals[i].txn)

\* While nobody takes seals away, no instance finds that the chain went backwards:
\* errChainRewound is never a false alarm.
NeverRewound == \A s \in Sealers : highest[s] <= Len(seals)

\* The chain raises no alarm, neither that of verifyChain over a hash nor that of
\* loadVerifiedHead over a head that went backwards, whatever instances seal, fail,
\* lose the answer to a commit and start anew.
ChainIsTrusted == ChainVerifies /\ NeverRewound

\* Every posted transaction is sealed in the end: of finitely many, none stays unsealed.
EverySealed == <>[](\A t \in Rows : state[t] = "committed" => t \in Sealed)
===============================================================================
