------------------------------ MODULE LedgerCore ------------------------------
(***************************************************************************)
(* The double-entry core of internal/modules/ledger: accounts with posted  *)
(* and pending totals and held funds, the transaction lifecycle (pending,  *)
(* posted, archived), reversals, holds and account status.                 *)
(*                                                                         *)
(* An action is one database transaction of the service.  Each of them     *)
(* locks the transaction or hold row and then its account rows FOR UPDATE  *)
(* before it reads them, so that committed transactions of this module are *)
(* atomic; module Batcher looks inside the posting of a batch, module      *)
(* PeriodClose inside that of a closed period.  A refused call rolls back  *)
(* and changes nothing, which is a stuttering step here.                   *)
(***************************************************************************)
EXTENDS Sums

CONSTANTS
    Accounts,        \* account ids
    Keys,            \* idempotency keys of transactions; the key is UNIQUE, and so
                     \* it names the transaction
    HoldKeys,        \* idempotency keys of holds, which name the hold
    NoKey,           \* the NULL of a reference to a transaction
    EntryInputs,     \* the entries clients send (see Entries)
    HoldAmounts,     \* the amounts clients hold and capture
    LedgerOf,        \* account -> its ledger
    CurrencyOf,      \* account -> its currency
    NormalSide,      \* account -> the side that increases it
    AllowNegative,   \* account -> may its available balance be negative
    OverdraftLimit,  \* account -> how far below zero it may otherwise go
    MaxAmount        \* money.MaxAmount, beyond which arithmetic is refused

Side == {"debit", "credit"}

Opposite(s) == IF s = "debit" THEN "credit" ELSE "debit"

(***************************************************************************)
(* The entries of a transaction, as the total they move on each side of    *)
(* each account.  The order of the entries and their split into several    *)
(* lines of one slot only matter to display.                               *)
(***************************************************************************)
Entries == [Side -> [Accounts -> Nat]]

NoEntries == [s \in Side |-> [a \in Accounts |-> 0]]

Touched(e) == {a \in Accounts : \E s \in Side : e[s][a] > 0}

ASSUME CoreAssumption ==
    /\ IsFiniteSet(Accounts) /\ IsFiniteSet(Keys) /\ IsFiniteSet(HoldKeys)
    /\ Accounts # {}
    /\ NoKey \notin Keys
    /\ EntryInputs \subseteq Entries
    /\ HoldAmounts \subseteq Nat \ {0}
    /\ NormalSide \in [Accounts -> Side]
    /\ AllowNegative \in [Accounts -> BOOLEAN]
    /\ OverdraftLimit \in [Accounts -> Nat]
    /\ MaxAmount \in Nat

VARIABLES
    status,   \* account -> "absent", "open", "frozen" or "closed"
    posted,   \* side -> account -> total of posted entries
    pending,  \* side -> account -> total of pending entries
    held,     \* account -> total of pending holds
    txn,      \* key -> the transaction
    hold      \* key -> the hold

vars == <<status, posted, pending, held, txn, hold>>

AccountStatus == {"absent", "open", "frozen", "closed"}

Transaction == [status   : {"none", "pending", "posted", "archived"},
                entries  : Entries,
                reverses : Keys \cup {NoKey}]

NoTransaction == [status |-> "none", entries |-> NoEntries, reverses |-> NoKey]

\* due: expires_at has passed, which does not by itself resolve the hold.
Hold == [status   : {"none", "pending", "captured", "voided", "expired"},
         account  : Accounts,
         amount   : Nat,
         due      : BOOLEAN,
         captured : Nat,
         txn      : Keys \cup {NoKey}]

NoHold == [status   |-> "none",
           account  |-> CHOOSE a \in Accounts : TRUE,
           amount   |-> 0,
           due      |-> FALSE,
           captured |-> 0,
           txn      |-> NoKey]

-------------------------------------------------------------------------------
(***************************************************************************)
(* state.go: balances and the checks of a balance change.                  *)
(***************************************************************************)

\* What leaves the account: posted and pending entries against its normal
\* side, and held funds.
Outgoing(po, pe, h, a) ==
    LET out == Opposite(NormalSide[a])
    IN  po[out][a] + pe[out][a] + h[a]

Available(po, pe, h, a) == po[NormalSide[a]][a] - Outgoing(po, pe, h, a)

\* Mutant: the floor is checked on the balance before the change.
CheckFundsStale(po, pe, h, a) ==
    AllowNegative[a] \/ Available(posted, pending, held, a) + OverdraftLimit[a] >= 0

(***************************************************************************)
(* checkFunds: a change may not leave an account short, unless it leaves   *)
(* it no worse than it found it.  The sums are computed in money.Amount    *)
(* and refused when they overflow, the sum with the overdraft limit too.   *)
(***************************************************************************)
CheckFunds(po, pe, h, a) ==
    LET after == Available(po, pe, h, a)
        prior == Available(posted, pending, held, a)
    IN  /\ Outgoing(po, pe, h, a) <= MaxAmount
        /\ \/ AllowNegative[a]
           \/ after >= prior
           \/ after + OverdraftLimit[a] \in 0 .. MaxAmount

Balanced(e) ==
    \A a \in Accounts :
        LET same == {b \in Accounts : CurrencyOf[b] = CurrencyOf[a]}
        IN  SumOf(e["debit"], same) = SumOf(e["credit"], same)

\* Mutants: the accounts may be of several ledgers; a frozen account will do.
AdmissibleAcrossLedgers(e) ==
    /\ \A a \in Touched(e) : status[a] = "open"
    /\ Balanced(e)
AdmissibleFrozen(e) ==
    /\ \A a \in Touched(e) : status[a] \in {"open", "frozen"}
    /\ \A a, b \in Touched(e) : LedgerOf[a] = LedgerOf[b]
    /\ Balanced(e)

\* The checks of transition on the entries to add, other than locks and funds.
Admissible(e) ==
    /\ \A a \in Touched(e) : status[a] = "open"
    /\ \A a, b \in Touched(e) : LedgerOf[a] = LedgerOf[b]
    /\ Balanced(e)

\* Totals after unpending the entries u and recording the entries e.
PendingAfter(u, e, st) ==
    [s \in Side |-> [a \in Accounts |->
        pending[s][a] - u[s][a] + (IF st = "pending" THEN e[s][a] ELSE 0)]]

PostedAfter(e, st) ==
    [s \in Side |-> [a \in Accounts |->
        posted[s][a] + (IF st = "posted" THEN e[s][a] ELSE 0)]]

\* The additions of record and balances stay within money.MaxAmount.
Representable(po, pe, e) ==
    \A a \in Touched(e) : \A s \in Side : po[s][a] + pe[s][a] <= MaxAmount

HeldAfter(rel) == [a \in Accounts |-> held[a] - rel[a]]

\* Mutant: the accounts of what is taken back must be open.
AllowedOpen(u, e, st, rel) ==
    LET pe == PendingAfter(u, e, st)
        po == PostedAfter(e, st)
    IN  /\ \A s \in Side : \A a \in Accounts : u[s][a] <= pending[s][a]
        /\ \A a \in Touched(u) : status[a] = "open"
        /\ Admissible(e)
        /\ \A a \in Accounts : rel[a] <= held[a]
        /\ Representable(po, pe, e)
        /\ \A a \in Touched(u) \cup Touched(e) \cup {b \in Accounts : rel[b] > 0} :
               CheckFunds(po, pe, HeldAfter(rel), a)

\* The checks of transition; a change that fails one of them is refused.
Allowed(u, e, st, rel) ==
    LET pe == PendingAfter(u, e, st)
        po == PostedAfter(e, st)
    IN  /\ \A s \in Side : \A a \in Accounts : u[s][a] <= pending[s][a]
        /\ Admissible(e)
        /\ \A a \in Accounts : rel[a] <= held[a]
        /\ Representable(po, pe, e)
        /\ \A a \in Touched(u) \cup Touched(e) \cup {b \in Accounts : rel[b] > 0} :
               CheckFunds(po, pe, HeldAfter(rel), a)

(***************************************************************************)
(* transition: take back the pending entries u, add the entries e with     *)
(* status st, and release rel[a] of the funds held on each account.        *)
(***************************************************************************)
Transition(u, e, st, rel) ==
    /\ Allowed(u, e, st, rel)
    /\ posted' = PostedAfter(e, st)
    /\ pending' = PendingAfter(u, e, st)
    /\ held' = HeldAfter(rel)

NoRelease == [a \in Accounts |-> 0]

-------------------------------------------------------------------------------
(***************************************************************************)
(* Accounts.                                                               *)
(***************************************************************************)

CreateAccount(a) ==
    /\ status[a] = "absent"
    /\ status' = [status EXCEPT ![a] = "open"]
    /\ UNCHANGED <<posted, pending, held, txn, hold>>

\* Closing needs a zero posted balance, no pending entries and no held funds.
Empty(a) ==
    /\ posted["debit"][a] = posted["credit"][a]
    /\ \A s \in Side : pending[s][a] = 0
    /\ held[a] = 0

\* Mutant: closing looks at the posted balance and the holds only.
SetAccountStatusPending(a, target) ==
    /\ status[a] \notin {"absent", "closed", target}
    /\ target = "closed" => posted["debit"][a] = posted["credit"][a] /\ held[a] = 0
    /\ status' = [status EXCEPT ![a] = target]
    /\ UNCHANGED <<posted, pending, held, txn, hold>>

SetAccountStatus(a, target) ==
    /\ status[a] \notin {"absent", "closed", target}
    /\ target = "closed" => Empty(a)
    /\ status' = [status EXCEPT ![a] = target]
    /\ UNCHANGED <<posted, pending, held, txn, hold>>

-------------------------------------------------------------------------------
(***************************************************************************)
(* Transactions.  A key that exists already replays or conflicts.          *)
(***************************************************************************)

Write(k, st, e, reverses) ==
    txn' = [txn EXCEPT ![k] = [status |-> st, entries |-> e, reverses |-> reverses]]

\* applyRequests for one request; st is the status the client asks for.
Post(k, e, st) ==
    /\ txn[k].status = "none"
    /\ Touched(e) # {}
    /\ Transition(NoEntries, e, st, NoRelease)
    /\ Write(k, st, e, NoKey)
    /\ UNCHANGED <<status, hold>>

\* Mutant: retrying an archived request replaces it.
PostArchivedAgain(k, e, st) ==
    /\ txn[k].status \in {"none", "archived"}
    /\ Touched(e) # {}
    /\ Admissible(e)
    /\ Write(k, "archived", e, NoKey)
    /\ UNCHANGED <<status, posted, pending, held, hold>>

(***************************************************************************)
(* A lock_version or a balance condition of an entry fails, which is found *)
(* after the other checks of the entries and before the check of funds.    *)
(* With archive_on_balance_lock_failure the request is kept as an archived *)
(* transaction; without it the call is refused.                            *)
(***************************************************************************)
PostArchived(k, e, st) ==
    /\ txn[k].status = "none"
    /\ Touched(e) # {}
    /\ Admissible(e)
    /\ \A s \in Side : \A a \in Accounts :
           PostedAfter(e, st)[s][a] <= MaxAmount /\ PendingAfter(NoEntries, e, st)[s][a] <= MaxAmount
    /\ Write(k, "archived", e, NoKey)
    /\ UNCHANGED <<status, posted, pending, held, hold>>

\* The ledger of a transaction is that of its entries and never changes.
SameLedger(e, f) == \A a \in Touched(e), b \in Touched(f) : LedgerOf[a] = LedgerOf[b]

\* Mutant: the entries that are replaced stay in the pending totals.
UpdatePendingKeepsOld(k, e) ==
    /\ txn[k].status = "pending"
    /\ e # txn[k].entries
    /\ Touched(e) # {}
    /\ Transition(NoEntries, e, "pending", NoRelease)
    /\ txn' = [txn EXCEPT ![k].entries = e]
    /\ UNCHANGED <<status, hold>>

UpdatePending(k, e) ==
    /\ txn[k].status = "pending"
    /\ e # txn[k].entries
    /\ Touched(e) # {}
    /\ SameLedger(e, txn[k].entries)
    /\ Transition(txn[k].entries, e, "pending", NoRelease)
    /\ txn' = [txn EXCEPT ![k].entries = e]
    /\ UNCHANGED <<status, hold>>

\* checkPartial: no slot posts more than it has pending.
Within(e, limit) == \A s \in Side : \A a \in Accounts : e[s][a] <= limit[s][a]

\* All of the pending entries, or the part e of them, become posted.  Within
\* keeps e in the ledger of the transaction.
PostPending(k, e) ==
    /\ txn[k].status = "pending"
    /\ Touched(e) # {}
    /\ Within(e, txn[k].entries)
    /\ Transition(txn[k].entries, e, "posted", NoRelease)
    /\ txn' = [txn EXCEPT ![k].status = "posted", ![k].entries = e]
    /\ UNCHANGED <<status, hold>>

ArchiveTransaction(k) ==
    /\ txn[k].status = "pending"
    /\ Transition(txn[k].entries, NoEntries, "archived", NoRelease)
    /\ txn' = [txn EXCEPT ![k].status = "archived"]
    /\ UNCHANGED <<status, hold>>

Mirror(e) == [s \in Side |-> e[Opposite(s)]]

\* Mutant: does not look for an earlier reversal.
ReverseAgain(k, original) ==
    /\ txn[original].status = "posted"
    /\ txn[k].status = "none"
    /\ Transition(NoEntries, Mirror(txn[original].entries), "posted", NoRelease)
    /\ Write(k, "posted", Mirror(txn[original].entries), original)
    /\ UNCHANGED <<status, hold>>

Reverse(k, original) ==
    /\ txn[original].status = "posted"
    /\ \A r \in Keys : txn[r].reverses # original
    /\ txn[k].status = "none"
    /\ Transition(NoEntries, Mirror(txn[original].entries), "posted", NoRelease)
    /\ Write(k, "posted", Mirror(txn[original].entries), original)
    /\ UNCHANGED <<status, hold>>

-------------------------------------------------------------------------------
(***************************************************************************)
(* Holds.                                                                  *)
(***************************************************************************)

CreateHold(h, a, amount, due) ==
    /\ hold[h].status = "none"
    /\ status[a] = "open"
    /\ held[a] + amount <= MaxAmount
    /\ LET after == [held EXCEPT ![a] = @ + amount]
       IN  /\ CheckFunds(posted, pending, after, a)
           /\ held' = after
    /\ hold' = [hold EXCEPT ![h] = [status |-> "pending", account |-> a, amount |-> amount,
                                    due |-> due, captured |-> 0, txn |-> NoKey]]
    /\ UNCHANGED <<status, posted, pending, txn>>

\* What the pending holds in S keep on each account.
HeldBy(S) ==
    [a \in Accounts |->
        SumOf([h \in HoldKeys |-> IF hold[h].account = a THEN hold[h].amount ELSE 0], S)]

\* The two entries of a capture: out of the held account, into dest.
CaptureEntries(from, dest, amount) ==
    [s \in Side |-> [a \in Accounts |->
        (IF a = from /\ s = Opposite(NormalSide[from]) THEN amount ELSE 0)
      + (IF a = dest /\ s = NormalSide[from] THEN amount ELSE 0)]]

\* The hold is resolved by the transaction k, which moves part of its amount.
Captured(h, k, amount) ==
    hold' = [hold EXCEPT ![h] = [status |-> "captured", account |-> @.account, amount |-> @.amount,
                                 due |-> @.due, captured |-> amount, txn |-> k]]

CaptureHold(h, k, dest, amount) ==
    LET e == CaptureEntries(hold[h].account, dest, amount)
    IN  /\ hold[h].status = "pending"
        /\ amount <= hold[h].amount
        /\ ~hold[h].due
        /\ txn[k].status = "none"
        /\ Transition(NoEntries, e, "posted", HeldBy({h}))
        /\ Write(k, "posted", e, NoKey)
        /\ Captured(h, k, amount)
        /\ UNCHANGED status

\* The checks of release.
Releasable(S) ==
    /\ \A a \in Accounts : HeldBy(S)[a] <= held[a]
    /\ \A h \in S : CheckFunds(posted, pending, HeldAfter(HeldBy(S)), hold[h].account)

\* Returns what the holds in S reserve and gives them their final status.
Release(S, final) ==
    /\ Releasable(S)
    /\ held' = HeldAfter(HeldBy(S))
    /\ hold' = [h \in HoldKeys |->
                   IF h \in S THEN [hold[h] EXCEPT !.status = final] ELSE hold[h]]
    /\ UNCHANGED <<status, posted, pending, txn>>

VoidHold(h) ==
    /\ hold[h].status = "pending"
    /\ Release({h}, "voided")

\* One round of the sweeper: due holds that no other transaction has locked.
ExpireHolds(S) ==
    /\ S # {}
    /\ \A h \in S : hold[h].status = "pending" /\ hold[h].due
    /\ Release(S, "expired")

\* The clock passes expires_at.
HoldFallsDue(h) ==
    /\ hold[h].status = "pending"
    /\ ~hold[h].due
    /\ hold' = [hold EXCEPT ![h].due = TRUE]
    /\ UNCHANGED <<status, posted, pending, held, txn>>

-------------------------------------------------------------------------------
Init ==
    /\ status = [a \in Accounts |-> "absent"]
    /\ posted = NoEntries
    /\ pending = NoEntries
    /\ held = [a \in Accounts |-> 0]
    /\ txn = [k \in Keys |-> NoTransaction]
    /\ hold = [h \in HoldKeys |-> NoHold]

AccountStep ==
    \E a \in Accounts :
        \/ CreateAccount(a)
        \/ \E target \in {"open", "frozen", "closed"} : SetAccountStatus(a, target)

TransactionStep ==
    \E k \in Keys :
        \/ \E e \in EntryInputs :
               \/ \E st \in {"pending", "posted"} : Post(k, e, st) \/ PostArchived(k, e, st)
               \/ UpdatePending(k, e)
               \/ PostPending(k, e)
        \/ PostPending(k, txn[k].entries)
        \/ ArchiveTransaction(k)
        \/ \E original \in Keys : Reverse(k, original)

HoldStep ==
    \/ \E h \in HoldKeys :
           \/ \E a \in Accounts, amount \in HoldAmounts, due \in BOOLEAN :
                  CreateHold(h, a, amount, due)
           \/ \E k \in Keys, dest \in Accounts, amount \in HoldAmounts :
                  CaptureHold(h, k, dest, amount)
           \/ VoidHold(h)
           \/ HoldFallsDue(h)
    \/ \E S \in SUBSET HoldKeys : ExpireHolds(S)

Next == AccountStep \/ TransactionStep \/ HoldStep

Spec == Init /\ [][Next]_vars

-------------------------------------------------------------------------------
(***************************************************************************)
(* Properties.                                                             *)
(***************************************************************************)

\* Every variable has its type; in particular no total is ever negative, though
\* unpend and release subtract (state.go).
TypeOK ==
    /\ status \in [Accounts -> AccountStatus]
    /\ posted \in Entries
    /\ pending \in Entries
    /\ held \in [Accounts -> Nat]
    /\ txn \in [Keys -> Transaction]
    /\ hold \in [HoldKeys -> Hold]

\* What one transaction, and all of them, move on side s of account a with status st.
Part(t, st, s, a) == IF t.status = st THEN t.entries[s][a] ELSE 0
Moved(st, s, a) == SumOf([k \in Keys |-> Part(txn[k], st, s, a)], Keys)

\* "posted totals" of verify.go: the running totals of an account are the sums of
\* its journal, through partial postings, reversals and captures.
PostedTotals == \A s \in Side, a \in Accounts : posted[s][a] = Moved("posted", s, a)

\* "pending totals" of verify.go: the pending totals are the sums of the current
\* entries of the pending transactions, through updates, posting and archiving.
PendingTotals == \A s \in Side, a \in Accounts : pending[s][a] = Moved("pending", s, a)

\* What the pending holds reserve on account a.
PendingHolds(a) ==
    SumOf([h \in HoldKeys |->
              IF hold[h].status = "pending" /\ hold[h].account = a THEN hold[h].amount ELSE 0],
          HoldKeys)

\* "held funds" of verify.go: an account holds exactly what its pending holds
\* reserve, however captures, voids and expiry interleave.
HeldFunds == \A a \in Accounts : held[a] = PendingHolds(a)

\* What verify.go compares: each running figure of an account, kept up by every
\* operation on its own, is the sum of the transactions or holds behind it.
TotalsAreSums == PostedTotals /\ PendingTotals /\ HeldFunds

\* The accounts of one ledger in one currency.
Book(a) == {b \in Accounts : LedgerOf[b] = LedgerOf[a] /\ CurrencyOf[b] = CurrencyOf[a]}

\* "trial balance" of verify.go, for each ledger: money is neither created nor
\* destroyed by any sequence of postings, partial postings, reversals and captures.
TrialBalance ==
    \A a \in Accounts : SumOf(posted["debit"], Book(a)) = SumOf(posted["credit"], Book(a))

\* verify.go finds nothing: the figures of every account are the sums of what is behind
\* them, and debits equal credits in every ledger and currency.
LedgerVerifies == TotalsAreSums /\ TrialBalance

\* No account is overdrawn: posted funds cover what is posted, pending and held
\* against the account, up to its overdraft limit, so that the same money is
\* never promised twice (checkFunds, state.go).
FundsFloor ==
    \A a \in Accounts :
        AllowNegative[a] \/ Available(posted, pending, held, a) + OverdraftLimit[a] >= 0

\* A closed account stays empty: no pending transaction, hold or late reversal
\* reaches it after setAccountStatus let it close.
ClosedEmpty == \A a \in Accounts : status[a] = "closed" => Empty(a)

\* No account is below its floor, and none that is closed has anything left on it or
\* promised from it (checkFunds, setAccountStatus).
AccountsAreSound == FundsFloor /\ ClosedEmpty

\* A reversal and what it reverses are both in the journal with opposite entries,
\* and no transaction is reversed twice, so that each pair cancels (reverse).
ReversalsCancel ==
    \A k \in Keys :
        txn[k].reverses # NoKey =>
            /\ txn[k].status = "posted"
            /\ txn[txn[k].reverses].status = "posted"
            /\ txn[k].entries = Mirror(txn[txn[k].reverses].entries)
            /\ \A r \in Keys \ {k} : txn[r].reverses # txn[k].reverses

\* A captured hold has a journal transaction of its own that moves the captured
\* part, at most the held amount, out of the held account (captureHold).
CapturesPosted ==
    \A h \in HoldKeys :
        hold[h].status = "captured" =>
            /\ hold[h].captured \in 1 .. hold[h].amount
            /\ txn[hold[h].txn].status = "posted"
            /\ \E dest \in Accounts :
                   txn[hold[h].txn].entries = CaptureEntries(hold[h].account, dest, hold[h].captured)
            /\ \A g \in HoldKeys \ {h} : hold[g].txn # hold[h].txn

\* What refers to a transaction refers to the one it should: a reversal to what it
\* mirrors, a captured hold to its posting, and no two of them to the same
\* (reverse, captureHold).
LinksAreTrue == ReversalsCancel /\ CapturesPosted

\* Whatever is pending can be let go at any time, on a frozen account too: the
\* archive of a pending transaction and the void of a pending hold, or the expiry of
\* any of them together, are never refused for want of totals or funds or for a sum
\* that overflows (archiveTransaction, voidHold, expireHolds).
PendingReleasable ==
    /\ \A k \in Keys : txn[k].status = "pending" => Allowed(txn[k].entries, NoEntries, "archived", NoRelease)
    /\ \A S \in SUBSET {h \in HoldKeys : hold[h].status = "pending"} : Releasable(S)

\* The journal is append-only and resolved holds are final: a posted or archived
\* transaction and a captured, voided or expired hold never change again.
ResolvedIsFinal ==
    [][ /\ \A k \in Keys : txn[k].status \in {"posted", "archived"} => txn'[k] = txn[k]
        /\ \A h \in HoldKeys : hold[h].status \in {"captured", "voided", "expired"} => hold'[h] = hold[h]
      ]_vars

\* An account that is not open takes nothing new: its posted totals stand still,
\* and its pending totals and held funds can only fall (checkOpen).
NotOpenOnlyDrains ==
    [][ \A a \in Accounts : status[a] # "open" =>
            /\ held'[a] <= held[a]
            /\ \A s \in Side : posted'[s][a] = posted[s][a] /\ pending'[s][a] <= pending[s][a]
      ]_vars
===============================================================================
