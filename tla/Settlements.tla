------------------------------ MODULE Settlements ------------------------------
(***************************************************************************)
(* internal/modules/ledger/settlements.go: a call sums the entries of an   *)
(* account that no settlement has covered, moves the net to the contra     *)
(* account, and marks those entries and its own as settled.  Calls with    *)
(* one idempotency key are answered with one settlement.                   *)
(***************************************************************************)
EXTENDS AccountHistory

CONSTANTS
    Settles,      \* calls of createSettlement, and their transactions
    SettleOf,     \* call -> [key, settled, contra, bound, text]
    Times,        \* effective times; a bound above all of them stands for nil
    NoAnswer,
    MaxAttempts   \* maxAttempts of db.RunTx

ASSUME SettlesAssumption ==
    /\ Settles \subseteq Txns \ Posts
    /\ {NoAnswer, "conflict", "refused", "failed"} \cap Settles = {}
    /\ \A c \in Settles :
        /\ SettleOf[c].settled # SettleOf[c].contra
        /\ Touches[c] = {SettleOf[c].settled, SettleOf[c].contra}
    /\ MaxAttempts \in Nat \ {0}

VARIABLES
    summed,     \* call -> what sumUnsettled found: [net, count]
    marks,      \* call -> the entries its ledger_settlement_entries name
    attempts,   \* call -> transactions RunTx has begun
    answer      \* call -> a settlement, or why there is none

settleVars == <<summed, marks, attempts, answer>>

NoSum == [net |-> 0, count |-> 0]

Tell(c, what) == answer' = [answer EXCEPT ![c] = what]

\* Entries of committed settlements.
Settled == UNION {marks[c] : c \in {d \in Settles : stage[d] = "committed"}}

Matches(c, d) == SettleOf[c] = SettleOf[d]

SameKey(c) == {d \in Settles \ {c} : SettleOf[d].key = SettleOf[c].key}

-------------------------------------------------------------------------------
(***************************************************************************)
(* createSettlement.                                                       *)
(***************************************************************************)

\* No settlement has the key yet, and the transaction goes on to lock its accounts.
BeginSettlement(c) ==
    /\ stage[c] = "idle"
    /\ \A d \in SameKey(c) : stage[d] # "committed"
    /\ attempts' = [attempts EXCEPT ![c] = @ + 1]
    /\ Goto(c, "begun")
    /\ UNCHANGED <<entries, summed, marks, answer>>

\* The settlement of the key is the answer, if it is the one that is asked for.
ReplaySettlement(c) ==
    /\ stage[c] = "idle"
    /\ \E d \in SameKey(c) :
        /\ stage[d] = "committed"
        /\ Tell(c, IF Matches(c, d) THEN d ELSE "conflict")
    /\ Goto(c, "over")
    /\ UNCHANGED <<entries, summed, marks, attempts>>

\* The entries sumUnsettled adds up.
Unsettled(c) ==
    {e \in Committed \ Settled : e.acct = SettleOf[c].settled /\ e.eff < SettleOf[c].bound}

\* lockAccounts, and the sum in a statement of its own.
SumUnsettled(c) ==
    /\ stage[c] = "begun"
    /\ CanLock(c)
    /\ summed' = [summed EXCEPT ![c] = [net |-> NetOf(Unsettled(c)), count |-> Cardinality(Unsettled(c))]]
    /\ Goto(c, "summed")
    /\ UNCHANGED <<entries, marks, attempts, answer>>

\* Mutant: the sign of the net is forgotten.
OwnEntriesOneWay(c, now) ==
    LET net == IF summed[c].net < 0 THEN -summed[c].net ELSE summed[c].net
    IN  IF net = 0 THEN {}
        ELSE {[txn |-> c, acct |-> SettleOf[c].settled, amt |-> -net, eff |-> now],
              [txn |-> c, acct |-> SettleOf[c].contra, amt |-> net, eff |-> now]}

\* postSettlement: the net leaves the settled account for the contra account.
OwnEntries(c, now) ==
    LET net == summed[c].net
    IN  IF net = 0 THEN {}
        ELSE {[txn |-> c, acct |-> SettleOf[c].settled, amt |-> -net, eff |-> now],
              [txn |-> c, acct |-> SettleOf[c].contra, amt |-> net, eff |-> now]}

\* The entries markSettled inserts: its own entry whatever the bound.
ToMark(c, own) ==
    Unsettled(c) \cup {e \in own : e.acct = SettleOf[c].settled}

\* As many entries are marked as were summed.
MarksAgree(c, own) == Cardinality(ToMark(c, own)) = summed[c].count + (IF own = {} THEN 0 ELSE 1)

\* The transaction is rolled back: RunTx tries again, or the call ends with the error,
\* because it was the last attempt, the error is not one to retry, or the client has
\* gone.  Where in the transaction an error comes makes no difference to what is left.
GiveUp(c) ==
    /\ Undo(c)
    /\ marks' = [marks EXCEPT ![c] = {}]
    /\ summed' = [summed EXCEPT ![c] = NoSum]
    /\ \/ attempts[c] < MaxAttempts /\ Goto(c, "idle") /\ UNCHANGED answer
       \/ Goto(c, "over") /\ Tell(c, "failed")
    /\ UNCHANGED attempts

\* Mutant: ledger_settlements_idempotency_key_key is missing.
KeyTakenNever(c) == FALSE

\* Another settlement has the key.
KeyTaken(c) == \E d \in SameKey(c) : stage[d] = "committed"

\* postSettlement, insertSettlement and markSettled.  The unique index makes the
\* insert wait for a transaction that has inserted the key.
WriteSettlement(c, now) ==
    LET own == OwnEntries(c, now)
    IN  /\ stage[c] = "summed"
        /\ \A d \in SameKey(c) : stage[d] # "written"
        /\ \/ /\ ~KeyTaken(c)
              /\ MarksAgree(c, own)
              /\ entries' = entries \cup own
              /\ marks' = [marks EXCEPT ![c] = ToMark(c, own)]
              /\ Goto(c, "written")
              /\ UNCHANGED <<summed, attempts, answer>>
           \/ KeyTaken(c) /\ GiveUp(c)

\* The posting is refused (no funds, an account that is not open, a closed period), or
\* the entries to mark are not as many as were summed.
Refuse(c) ==
    /\ stage[c] = "summed"
    /\ summed[c].net = 0 => ~MarksAgree(c, {})
    /\ Goto(c, "over")
    /\ Tell(c, "refused")
    /\ summed' = [summed EXCEPT ![c] = NoSum]
    /\ UNCHANGED <<entries, marks, attempts>>

\* The transaction commits; the client may not learn of it.
CommitSettlement(c) ==
    /\ stage[c] = "written"
    /\ Goto(c, "committed")
    /\ Tell(c, c) \/ Tell(c, "failed")
    /\ UNCHANGED <<entries, summed, marks, attempts>>

\* A post that has not locked all its accounts yet has not been seen by anyone.
PostMeanwhile(p) == (WritePost(p, "idle") \/ EndPost(p)) /\ UNCHANGED settleVars

SettleStep(c) ==
    \/ BeginSettlement(c)
    \/ ReplaySettlement(c)
    \/ SumUnsettled(c)
    \/ \E now \in Times : WriteSettlement(c, now)
    \/ Refuse(c)
    \/ CommitSettlement(c)
    \/ stage[c] = "written" /\ GiveUp(c)

SettlementsInit ==
    /\ summed = [c \in Settles |-> NoSum]
    /\ marks = [c \in Settles |-> {}]
    /\ attempts = [c \in Settles |-> 0]
    /\ answer = [c \in Settles |-> NoAnswer]

-------------------------------------------------------------------------------

\* Whatever is posted and settled in the meantime, the entries a settlement covers
\* are entries of its account, in force and in no other settlement, they add up to zero
\* with its own, and without it to the amount and the number it reports (settle).
SettledNetsToZero ==
    \A c \in {d \in Settles : stage[d] = "committed"} :
        LET covered == {e \in marks[c] : e.txn # c}
        IN  /\ marks[c] \subseteq {e \in Committed : e.acct = SettleOf[c].settled}
            /\ \A d \in Settles \ {c} : stage[d] = "committed" => marks[c] \cap marks[d] = {}
            /\ NetOf(marks[c]) = 0
            /\ NetOf(covered) = summed[c].net /\ Cardinality(covered) = summed[c].count

\* One key settles once, though its calls run at the same time and are repeated, and a
\* call that is answered with a settlement is answered with the one it asked for
\* (createSettlement).
KeySettlesOnce ==
    \A c \in Settles :
        /\ stage[c] = "committed" => \A d \in SameKey(c) : stage[d] # "committed"
        /\ answer[c] \in Settles => stage[answer[c]] = "committed" /\ SettleOf[answer[c]] = SettleOf[c]
===============================================================================
