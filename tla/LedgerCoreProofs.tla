--------------------------- MODULE LedgerCoreProofs ---------------------------
(***************************************************************************)
(* Theorems about LedgerCore, for every set of accounts, keys and holds,   *)
(* every input, and every assignment of ledgers, currencies, sides and     *)
(* limits.  The inductive invariant is the conjunction of the integrity    *)
(* checks: none of them is inductive alone, because what a transaction or  *)
(* a hold gives back is covered by the totals only if the totals are the   *)
(* sums of what is pending.                                                *)
(***************************************************************************)
EXTENDS LedgerCore, SumsTheorems

-------------------------------------------------------------------------------
(***************************************************************************)
(* Types.                                                                  *)
(***************************************************************************)

\* No entries and no release are entries and amounts like any others.
LEMMA NoEntriesType == NoEntries \in Entries /\ NoRelease \in [Accounts -> Nat]
BY DEF NoEntries, NoRelease, Entries

\* The entries of a reversal (reversalRequest) are entries.
LEMMA MirrorType ==
    ASSUME NEW e \in Entries
    PROVE  Mirror(e) \in Entries
BY DEF Mirror, Entries, Opposite, Side

\* The two entries of a capture (captureHold) are entries.
LEMMA CaptureEntriesType ==
    ASSUME NEW from \in Accounts, NEW dest \in Accounts, NEW amount \in Nat
    PROVE  CaptureEntries(from, dest, amount) \in Entries
BY DEF CaptureEntries, Entries

\* What a set of holds reserves on each account is a natural number.
LEMMA HeldByType ==
    ASSUME hold \in [HoldKeys -> Hold], NEW S \in SUBSET HoldKeys
    PROVE  HeldBy(S) \in [Accounts -> Nat]
<1> SUFFICES ASSUME NEW a \in Accounts
             PROVE  SumOf([h \in HoldKeys |-> IF hold[h].account = a THEN hold[h].amount ELSE 0], S) \in Nat
  BY DEF HeldBy
<1> DEFINE f == [h \in HoldKeys |-> IF hold[h].account = a THEN hold[h].amount ELSE 0]
<1>1. \A h \in S : f[h] \in Nat
  BY DEF Hold
<1>2. IsFiniteSet(S)
  BY CoreAssumption, FS_Subset
<1> HIDE DEF f
<1>3. SumOf(f, S) \in Nat
  BY <1>1, <1>2, SumType
<1> QED BY <1>3 DEF f

\* A balance change keeps the types of the totals.
LEMMA TransitionType ==
    ASSUME TypeOK, NEW u \in Entries, NEW e \in Entries, NEW st,
           NEW rel \in [Accounts -> Nat], Transition(u, e, st, rel)
    PROVE  posted' \in Entries /\ pending' \in Entries /\ held' \in [Accounts -> Nat]
<1>1. posted' \in Entries
  BY DEF TypeOK, Transition, PostedAfter, Entries
<1>2. pending' \in Entries
  <2>1. ASSUME NEW s \in Side, NEW a \in Accounts
        PROVE  pending[s][a] - u[s][a] + (IF st = "pending" THEN e[s][a] ELSE 0) \in Nat
    BY DEF TypeOK, Transition, Allowed, Entries
  <2> QED BY <2>1 DEF Transition, PendingAfter, Entries
<1>3. held' \in [Accounts -> Nat]
  BY DEF TypeOK, Transition, Allowed, HeldAfter
<1> QED BY <1>1, <1>2, <1>3

\* The initial state is well typed.
LEMMA InitType == Init => TypeOK
BY CoreAssumption, NoEntriesType
   DEF Init, TypeOK, AccountStatus, Transaction, NoTransaction, Hold, NoHold

\* Every step keeps the types.
LEMMA NextType == TypeOK /\ [Next]_vars => TypeOK'
<1> SUFFICES ASSUME TypeOK, [Next]_vars PROVE TypeOK'
  OBVIOUS
<1> USE CoreAssumption
<1>1. ASSUME NEW a \in Accounts, CreateAccount(a) PROVE TypeOK'
  BY <1>1 DEF TypeOK, CreateAccount, AccountStatus
<1>2. ASSUME NEW a \in Accounts, NEW target \in {"open", "frozen", "closed"}, SetAccountStatus(a, target)
      PROVE  TypeOK'
  BY <1>2 DEF TypeOK, SetAccountStatus, AccountStatus
<1>3. ASSUME NEW k \in Keys, NEW e \in EntryInputs, NEW st \in {"pending", "posted"}, Post(k, e, st)
      PROVE  TypeOK'
  <2>1. e \in Entries /\ Transition(NoEntries, e, st, NoRelease)
    BY <1>3 DEF Post
  <2>2. posted' \in Entries /\ pending' \in Entries /\ held' \in [Accounts -> Nat]
    BY <2>1, TransitionType, NoEntriesType
  <2> QED BY <1>3, <2>1, <2>2 DEF TypeOK, Post, Write, Transaction
<1>4. ASSUME NEW k \in Keys, NEW e \in EntryInputs, NEW st \in {"pending", "posted"}, PostArchived(k, e, st)
      PROVE  TypeOK'
  BY <1>4 DEF TypeOK, PostArchived, Write, Transaction
<1>5. ASSUME NEW k \in Keys, NEW e \in EntryInputs, UpdatePending(k, e)
      PROVE  TypeOK'
  <2>1. /\ e \in Entries /\ txn[k].entries \in Entries
        /\ Transition(txn[k].entries, e, "pending", NoRelease)
    BY <1>5 DEF UpdatePending, TypeOK, Transaction
  <2>2. posted' \in Entries /\ pending' \in Entries /\ held' \in [Accounts -> Nat]
    BY <2>1, TransitionType, NoEntriesType
  <2> QED BY <1>5, <2>1, <2>2 DEF TypeOK, UpdatePending, Transaction
<1>6. ASSUME NEW k \in Keys, NEW e \in Entries, PostPending(k, e)
      PROVE  TypeOK'
  <2>1. /\ txn[k].entries \in Entries
        /\ Transition(txn[k].entries, e, "posted", NoRelease)
    BY <1>6 DEF PostPending, TypeOK, Transaction
  <2>2. posted' \in Entries /\ pending' \in Entries /\ held' \in [Accounts -> Nat]
    BY <2>1, TransitionType, NoEntriesType
  <2> QED BY <1>6, <2>1, <2>2 DEF TypeOK, PostPending, Transaction
<1>7. ASSUME NEW k \in Keys, ArchiveTransaction(k)
      PROVE  TypeOK'
  <2>1. /\ txn[k].entries \in Entries
        /\ Transition(txn[k].entries, NoEntries, "archived", NoRelease)
    BY <1>7 DEF ArchiveTransaction, TypeOK, Transaction
  <2>2. posted' \in Entries /\ pending' \in Entries /\ held' \in [Accounts -> Nat]
    BY <2>1, TransitionType, NoEntriesType
  <2> QED BY <1>7, <2>1, <2>2 DEF TypeOK, ArchiveTransaction, Transaction
<1>8. ASSUME NEW k \in Keys, NEW original \in Keys, Reverse(k, original)
      PROVE  TypeOK'
  <2> DEFINE e == Mirror(txn[original].entries)
  <2>1. e \in Entries
    BY MirrorType DEF TypeOK, Transaction
  <2>2. Transition(NoEntries, e, "posted", NoRelease)
    BY <1>8 DEF Reverse
  <2> HIDE DEF e
  <2>3. posted' \in Entries /\ pending' \in Entries /\ held' \in [Accounts -> Nat]
    BY <2>1, <2>2, TransitionType, NoEntriesType
  <2>4. txn' = [txn EXCEPT ![k] = [status |-> "posted", entries |-> e, reverses |-> original]]
    BY <1>8 DEF Reverse, Write, e
  <2> QED BY <1>8, <2>1, <2>3, <2>4 DEF TypeOK, Reverse, Transaction
<1>9. ASSUME NEW h \in HoldKeys, NEW a \in Accounts, NEW amount \in HoldAmounts, NEW due \in BOOLEAN,
             CreateHold(h, a, amount, due)
      PROVE  TypeOK'
  <2>1. held' \in [Accounts -> Nat]
    BY <1>9 DEF TypeOK, CreateHold
  <2>2. hold' \in [HoldKeys -> Hold]
    BY <1>9 DEF TypeOK, CreateHold, Hold
  <2> QED BY <1>9, <2>1, <2>2 DEF TypeOK, CreateHold
<1>10. ASSUME NEW h \in HoldKeys, NEW k \in Keys, NEW dest \in Accounts, NEW amount \in HoldAmounts,
              CaptureHold(h, k, dest, amount)
       PROVE  TypeOK'
  <2> DEFINE e == CaptureEntries(hold[h].account, dest, amount)
  <2>1. e \in Entries
    BY CaptureEntriesType DEF TypeOK, Hold
  <2>2. Transition(NoEntries, e, "posted", HeldBy({h}))
    BY <1>10 DEF CaptureHold
  <2>3. txn' = [txn EXCEPT ![k] = [status |-> "posted", entries |-> e, reverses |-> NoKey]]
    BY <1>10 DEF CaptureHold, Write
  <2> HIDE DEF e
  <2>4. HeldBy({h}) \in [Accounts -> Nat]
    BY HeldByType DEF TypeOK
  <2>5. posted' \in Entries /\ pending' \in Entries /\ held' \in [Accounts -> Nat]
    BY <2>1, <2>2, <2>4, TransitionType, NoEntriesType
  <2>6. txn' \in [Keys -> Transaction]
    BY <2>1, <2>3 DEF TypeOK, Transaction
  <2>7. hold' \in [HoldKeys -> Hold]
    <3>1. Captured(h, k, amount)
      BY <1>10 DEF CaptureHold
    <3> QED BY <3>1 DEF TypeOK, Hold, Captured
  <2> QED BY <1>10, <2>5, <2>6, <2>7 DEF TypeOK, CaptureHold
<1>11. ASSUME NEW S \in SUBSET HoldKeys, NEW final \in {"voided", "expired"}, Release(S, final)
       PROVE  TypeOK'
  <2>1. HeldBy(S) \in [Accounts -> Nat]
    BY HeldByType DEF TypeOK
  <2>2. held' \in [Accounts -> Nat]
    BY <1>11, <2>1 DEF TypeOK, Release, Releasable, HeldAfter
  <2>3. hold' \in [HoldKeys -> Hold]
    <3>1. ASSUME NEW h \in HoldKeys PROVE hold'[h] \in Hold
      <4>1. hold[h] \in Hold
        BY DEF TypeOK
      <4>2. hold'[h] = IF h \in S THEN [hold[h] EXCEPT !.status = final] ELSE hold[h]
        BY <1>11 DEF Release
      <4> QED BY <4>1, <4>2 DEF Hold
    <3>2. hold' = [h \in HoldKeys |-> hold'[h]]
      BY <1>11 DEF Release
    <3> QED BY <3>1, <3>2
  <2> QED BY <1>11, <2>2, <2>3 DEF TypeOK, Release
<1>12. ASSUME NEW h \in HoldKeys, HoldFallsDue(h) PROVE TypeOK'
  BY <1>12 DEF TypeOK, HoldFallsDue, Hold
<1>13. CASE UNCHANGED vars
  BY <1>13 DEF TypeOK, vars
<1>14. CASE AccountStep
  BY <1>1, <1>2, <1>14 DEF AccountStep
<1>15. CASE TransactionStep
  BY <1>3, <1>4, <1>5, <1>6, <1>7, <1>8, <1>15 DEF TransactionStep, TypeOK, Transaction
<1>16. CASE HoldStep
  BY <1>9, <1>10, <1>11, <1>12, <1>16 DEF HoldStep, VoidHold, ExpireHolds
<1> QED BY <1>13, <1>14, <1>15, <1>16 DEF Next

\* Type correctness: in particular no total of an account is ever negative.
THEOREM TypeCorrect == Spec => []TypeOK
BY InitType, NextType, PTL DEF Spec

-------------------------------------------------------------------------------
(***************************************************************************)
(* Every action that changes a transaction is an instance of one shape:    *)
(* transaction k, new or pending, gives back what it has pending and gets  *)
(* the status st with the entries e, in one Transition.                    *)
(***************************************************************************)
TransactionChange(k, u, e, st, rel) ==
    /\ Transition(u, e, st, rel)
    /\ \/ txn[k].status = "none" /\ u = NoEntries
       \/ txn[k].status = "pending" /\ u = txn[k].entries
    /\ \A q \in Keys \ {k} : txn'[q] = txn[q]
    /\ txn'[k].status = st
    /\ st # "archived" => txn'[k].entries = e
    /\ status' = status

\* The sum of the entries of one kind moves with the transaction that changes.
LEMMA MovedUpdate ==
    ASSUME TypeOK, TypeOK', NEW k \in Keys, \A q \in Keys \ {k} : txn'[q] = txn[q],
           NEW st, NEW s \in Side, NEW a \in Accounts
    PROVE  Moved(st, s, a)' = Moved(st, s, a) - Part(txn[k], st, s, a) + Part(txn'[k], st, s, a)
<1> DEFINE f == [q \in Keys |-> Part(txn[q], st, s, a)]
           g == [q \in Keys |-> Part(txn'[q], st, s, a)]
<1>1. \A q \in Keys : f[q] \in Nat /\ g[q] \in Nat
  BY DEF Part, TypeOK, Transaction, Entries
<1>2. \A q \in Keys \ {k} : f[q] = g[q]
  OBVIOUS
<1>3. f[k] = Part(txn[k], st, s, a) /\ g[k] = Part(txn'[k], st, s, a)
  OBVIOUS
<1>4. Moved(st, s, a) = SumOf(f, Keys) /\ Moved(st, s, a)' = SumOf(g, Keys)
  BY DEF Moved, Part
<1> HIDE DEF f, g
<1>5. SumOf(g, Keys) = SumOf(f, Keys) - f[k] + g[k]
  BY <1>1, <1>2, SumUpdate, CoreAssumption
<1> QED BY <1>3, <1>4, <1>5

\* The totals remain the sums of the journal and of the pending transactions.
LEMMA ChangeKeepsTotals ==
    ASSUME TypeOK, TypeOK', PostedTotals, PendingTotals, NEW k \in Keys,
           NEW u \in Entries, NEW e \in Entries, NEW rel \in [Accounts -> Nat],
           NEW st \in {"pending", "posted", "archived"}, TransactionChange(k, u, e, st, rel)
    PROVE  PostedTotals' /\ PendingTotals'
<1>1. ASSUME NEW s \in Side, NEW a \in Accounts PROVE posted'[s][a] = Moved("posted", s, a)'
  <2>1. Moved("posted", s, a)'
          = Moved("posted", s, a) - Part(txn[k], "posted", s, a) + Part(txn'[k], "posted", s, a)
    BY MovedUpdate DEF TransactionChange
  <2>2. Part(txn[k], "posted", s, a) = 0
    BY DEF Part, TransactionChange
  <2>3. Part(txn'[k], "posted", s, a) = IF st = "posted" THEN e[s][a] ELSE 0
    BY DEF Part, TransactionChange
  <2>4. posted'[s][a] = posted[s][a] + (IF st = "posted" THEN e[s][a] ELSE 0)
    BY DEF TransactionChange, Transition, PostedAfter
  <2>5. posted[s][a] = Moved("posted", s, a) /\ posted[s][a] \in Nat /\ e[s][a] \in Nat
    BY DEF PostedTotals, TypeOK, Entries
  <2> QED BY <2>1, <2>2, <2>3, <2>4, <2>5
<1>2. ASSUME NEW s \in Side, NEW a \in Accounts PROVE pending'[s][a] = Moved("pending", s, a)'
  <2>1. Moved("pending", s, a)'
          = Moved("pending", s, a) - Part(txn[k], "pending", s, a) + Part(txn'[k], "pending", s, a)
    BY MovedUpdate DEF TransactionChange
  <2>2. Part(txn[k], "pending", s, a) = u[s][a]
    BY DEF Part, TransactionChange, NoEntries
  <2>3. Part(txn'[k], "pending", s, a) = IF st = "pending" THEN e[s][a] ELSE 0
    BY DEF Part, TransactionChange
  <2>4. pending'[s][a] = pending[s][a] - u[s][a] + (IF st = "pending" THEN e[s][a] ELSE 0)
    BY DEF TransactionChange, Transition, PendingAfter
  <2>5. pending[s][a] = Moved("pending", s, a) /\ pending[s][a] \in Nat /\ e[s][a] \in Nat /\ u[s][a] \in Nat
    BY DEF PendingTotals, TypeOK, Entries
  <2> QED BY <2>1, <2>2, <2>3, <2>4, <2>5
<1> QED BY <1>1, <1>2 DEF PostedTotals, PendingTotals

-------------------------------------------------------------------------------
(***************************************************************************)
(* Trial balance.                                                          *)
(***************************************************************************)

\* Admissible entries balance in the book of every account: those of one ledger
\* and one currency are all the entries in the currency, or none.
LEMMA BookBalanced ==
    ASSUME NEW e \in Entries, Admissible(e), NEW a \in Accounts
    PROVE  SumOf(e["debit"], Book(a)) = SumOf(e["credit"], Book(a))
<1> DEFINE same == {b \in Accounts : CurrencyOf[b] = CurrencyOf[a]}
<1>1. \A s \in Side, b \in Accounts : b \notin Touched(e) => e[s][b] = 0
  BY DEF Touched, Entries
<1>2. CASE \E b \in Book(a) : b \in Touched(e)
  <2>1. \A s \in Side : \A b \in same \ Book(a) : e[s][b] = 0
    BY <1>1, <1>2 DEF Admissible, Book
  <2>2. Book(a) \subseteq same
    BY DEF Book
  <2>3. SumOf(e["debit"], same) = SumOf(e["credit"], same)
    BY DEF Admissible, Balanced
  <2> HIDE DEF same
  <2>4. ASSUME NEW s \in Side PROVE SumOf(e[s], same) = SumOf(e[s], Book(a))
    BY <2>1, <2>2, SumSupport
  <2> QED BY <2>3, <2>4 DEF Side
<1>3. CASE ~ \E b \in Book(a) : b \in Touched(e)
  <2>1. \A s \in Side : \A b \in Book(a) : e[s][b] = 0
    BY <1>1, <1>3 DEF Book
  <2>2. ASSUME NEW s \in Side PROVE SumOf(e[s], Book(a)) = 0
    BY <2>1, SumZero
  <2> QED BY <2>2 DEF Side
<1> QED BY <1>2, <1>3

\* Entries that balance keep the trial balance.
LEMMA TransitionKeepsTrialBalance ==
    ASSUME TypeOK, TrialBalance, NEW u, NEW e \in Entries, NEW st, NEW rel, Transition(u, e, st, rel)
    PROVE  TrialBalance'
<1> SUFFICES ASSUME NEW a \in Accounts
             PROVE  SumOf(posted'["debit"], Book(a)) = SumOf(posted'["credit"], Book(a))
  BY DEF TrialBalance, Book
<1>1. CASE st = "posted"
  <2>1. ASSUME NEW s \in Side
        PROVE  SumOf(posted'[s], Book(a)) = SumOf(posted[s], Book(a)) + SumOf(e[s], Book(a))
    <3>1. \A b \in Book(a) : /\ posted[s][b] \in Nat /\ e[s][b] \in Nat
                             /\ posted'[s][b] = posted[s][b] + e[s][b]
      BY <1>1 DEF Book, TypeOK, Entries, Transition, PostedAfter
    <3>2. IsFiniteSet(Book(a))
      BY CoreAssumption, FS_Subset DEF Book
    <3> QED BY <3>1, <3>2, SumPlus
  <2>2. SumOf(e["debit"], Book(a)) = SumOf(e["credit"], Book(a))
    BY BookBalanced DEF Transition, Allowed
  <2>3. SumOf(posted["debit"], Book(a)) = SumOf(posted["credit"], Book(a))
    BY DEF TrialBalance
  <2> QED BY <2>1, <2>2, <2>3 DEF Side
<1>2. CASE st # "posted"
  <2>1. ASSUME NEW s \in Side PROVE SumOf(posted'[s], Book(a)) = SumOf(posted[s], Book(a))
    <3>1. \A b \in Book(a) : posted'[s][b] = posted[s][b]
      BY <1>2 DEF Book, TypeOK, Entries, Transition, PostedAfter
    <3> QED BY <3>1, SumEqual
  <2> QED BY <2>1 DEF TrialBalance, Side
<1> QED BY <1>1, <1>2

-------------------------------------------------------------------------------
(***************************************************************************)
(* Funds and closed accounts.                                              *)
(***************************************************************************)

\* Balances are integers.
LEMMA AvailableType ==
    ASSUME NEW po \in Entries, NEW pe \in Entries, NEW h \in [Accounts -> Nat], NEW a \in Accounts
    PROVE  Available(po, pe, h, a) \in Int
BY CoreAssumption DEF Available, Outgoing, Opposite, Entries, Side

\* A change that checkFunds accepts, or that leaves no less available, keeps the floor.
LEMMA FloorStep ==
    ASSUME TypeOK, TypeOK', FundsFloor, NEW a \in Accounts,
           \/ CheckFunds(posted', pending', held', a)
           \/ Available(posted', pending', held', a) >= Available(posted, pending, held, a)
    PROVE  AllowNegative[a] \/ Available(posted', pending', held', a) + OverdraftLimit[a] >= 0
<1> DEFINE prior == Available(posted, pending, held, a)
           after == Available(posted', pending', held', a)
<1>1. prior \in Int /\ after \in Int
  BY AvailableType DEF TypeOK
<1>2. AllowNegative[a] \/ prior + OverdraftLimit[a] >= 0
  BY DEF FundsFloor
<1>3. AllowNegative[a] \/ after >= prior \/ after + OverdraftLimit[a] \in 0 .. MaxAmount
  <2>1. CASE CheckFunds(posted', pending', held', a)
    BY <2>1 DEF CheckFunds
  <2>2. CASE after >= prior
    BY <2>2
  <2> QED BY <2>1, <2>2
<1>4. OverdraftLimit[a] \in Nat /\ MaxAmount \in Nat
  BY CoreAssumption
<1> HIDE DEF prior, after
<1>5. AllowNegative[a] \/ after + OverdraftLimit[a] >= 0
  BY <1>1, <1>2, <1>3, <1>4
<1> QED BY <1>5 DEF after

\* checkFunds on the accounts a transition touches keeps every account above its
\* floor, those it does not touch included.
LEMMA TransitionKeepsFloor ==
    ASSUME TypeOK, TypeOK', FundsFloor, NEW u \in Entries, NEW e \in Entries, NEW st,
           NEW rel \in [Accounts -> Nat], Transition(u, e, st, rel)
    PROVE  FundsFloor'
<1> SUFFICES ASSUME NEW a \in Accounts
             PROVE  AllowNegative[a] \/ Available(posted', pending', held', a) + OverdraftLimit[a] >= 0
  BY DEF FundsFloor, Available, Outgoing
<1>1. CASE a \in Touched(u) \cup Touched(e) \cup {b \in Accounts : rel[b] > 0}
  <2>1. CheckFunds(posted', pending', held', a)
    BY <1>1 DEF Transition, Allowed, HeldAfter
  <2> QED BY <2>1, FloorStep
<1>2. CASE a \notin Touched(u) \cup Touched(e) \cup {b \in Accounts : rel[b] > 0}
  <2>1. rel[a] = 0 /\ \A s \in Side : u[s][a] = 0 /\ e[s][a] = 0
    BY <1>2 DEF Touched, Entries
  <2>2. \A s \in Side : posted'[s][a] = posted[s][a] /\ pending'[s][a] = pending[s][a]
    BY <2>1 DEF Transition, PostedAfter, PendingAfter, TypeOK, Entries
  <2>3. held'[a] = held[a]
    BY <2>1 DEF Transition, HeldAfter, TypeOK
  <2>4. NormalSide[a] \in Side /\ Opposite(NormalSide[a]) \in Side
    BY CoreAssumption DEF Opposite, Side
  <2>5. Available(posted', pending', held', a) = Available(posted, pending, held, a)
    BY <2>2, <2>3, <2>4 DEF Available, Outgoing
  <2>6. Available(posted, pending, held, a) \in Int
    BY AvailableType DEF TypeOK
  <2>7. Available(posted', pending', held', a) >= Available(posted, pending, held, a)
    BY <2>5, <2>6
  <2> QED BY <2>7, FloorStep
<1> QED BY <1>1, <1>2

\* A transition adds entries to open accounts only, so a closed account stays empty.
LEMMA TransitionKeepsClosedEmpty ==
    ASSUME TypeOK, ClosedEmpty, NEW u \in Entries, NEW e \in Entries, NEW st,
           NEW rel \in [Accounts -> Nat], Transition(u, e, st, rel), status' = status
    PROVE  ClosedEmpty'
<1> SUFFICES ASSUME NEW a \in Accounts, status[a] = "closed" PROVE Empty(a)'
  BY DEF ClosedEmpty
<1>1. Empty(a)
  BY DEF ClosedEmpty
<1>2. \A s \in Side : e[s][a] = 0
  BY DEF Transition, Allowed, Admissible, Touched, Entries
<1>3. \A s \in Side : u[s][a] = 0
  BY <1>1 DEF Transition, Allowed, Empty, Entries
<1>4. rel[a] = 0
  BY <1>1 DEF Transition, Allowed, Empty
<1>5. held'[a] = 0
  BY <1>1, <1>4 DEF Transition, HeldAfter, Empty
<1>6. \A s \in Side : posted'[s][a] = posted[s][a] /\ pending'[s][a] = 0
  BY <1>1, <1>2, <1>3 DEF Transition, PostedAfter, PendingAfter, TypeOK, Entries, Empty
<1> QED BY <1>1, <1>5, <1>6 DEF Empty, Side

-------------------------------------------------------------------------------
(***************************************************************************)
(* Held funds.                                                             *)
(***************************************************************************)

\* What a hold reserves on account a.
Reserved(hd, a) == IF hd.status = "pending" /\ hd.account = a THEN hd.amount ELSE 0

\* PendingHolds, written for any value of hold, so that it can be compared across a step.
LEMMA PendingHoldsIs ==
    ASSUME NEW a \in Accounts
    PROVE  /\ PendingHolds(a) = SumOf([h \in HoldKeys |-> Reserved(hold[h], a)], HoldKeys)
           /\ PendingHolds(a)' = SumOf([h \in HoldKeys |-> Reserved(hold'[h], a)], HoldKeys)
BY DEF PendingHolds, Reserved

\* Holds that reserve what they reserved before keep the held funds.
LEMMA HoldsSame ==
    ASSUME HeldFunds, held' = held,
           \A h \in HoldKeys, a \in Accounts : Reserved(hold'[h], a) = Reserved(hold[h], a)
    PROVE  HeldFunds'
<1> SUFFICES ASSUME NEW a \in Accounts PROVE held'[a] = PendingHolds(a)'
  BY DEF HeldFunds
<1> DEFINE f == [h \in HoldKeys |-> Reserved(hold[h], a)]
           g == [h \in HoldKeys |-> Reserved(hold'[h], a)]
<1>1. f = g
  OBVIOUS
<1>2. PendingHolds(a) = SumOf(f, HoldKeys) /\ PendingHolds(a)' = SumOf(g, HoldKeys)
  BY PendingHoldsIs
<1> HIDE DEF f, g
<1> QED BY <1>1, <1>2 DEF HeldFunds

\* Resolving the pending holds of S takes what they reserve out of the sum.
LEMMA HoldsReleased ==
    ASSUME TypeOK, TypeOK', HeldFunds, NEW S \in SUBSET HoldKeys,
           \A h \in S : hold[h].status = "pending" /\ hold'[h].status # "pending",
           \A h \in HoldKeys \ S : hold'[h] = hold[h],
           held' = [a \in Accounts |-> held[a] - HeldBy(S)[a]]
    PROVE  HeldFunds'
<1> SUFFICES ASSUME NEW a \in Accounts PROVE held'[a] = PendingHolds(a)'
  BY DEF HeldFunds
<1> DEFINE f == [h \in HoldKeys |-> Reserved(hold[h], a)]
           g == [h \in HoldKeys |-> Reserved(hold'[h], a)]
           all == [h \in HoldKeys |-> IF hold[h].account = a THEN hold[h].amount ELSE 0]
           gone == [h \in HoldKeys |-> IF h \in S THEN all[h] ELSE 0]
<1>1. \A h \in HoldKeys : g[h] \in Nat /\ gone[h] \in Nat /\ f[h] = g[h] + gone[h]
  BY DEF Reserved, TypeOK, Hold
<1>2. \A h \in HoldKeys \ S : gone[h] = 0
  OBVIOUS
<1>3. \A h \in S : gone[h] = all[h]
  OBVIOUS
<1>4. HeldBy(S)[a] = SumOf(all, S)
  BY DEF HeldBy
<1>5. PendingHolds(a) = SumOf(f, HoldKeys) /\ PendingHolds(a)' = SumOf(g, HoldKeys)
  BY PendingHoldsIs
<1> HIDE DEF f, g, all, gone
<1>6. SumOf(f, HoldKeys) = SumOf(g, HoldKeys) + SumOf(gone, HoldKeys)
  BY <1>1, SumPlus, CoreAssumption
<1>7. SumOf(gone, HoldKeys) = SumOf(gone, S)
  BY <1>2, SumSupport
<1>8. SumOf(gone, S) = SumOf(all, S)
  BY <1>3, SumEqual
<1>9. SumOf(g, HoldKeys) \in Nat /\ SumOf(gone, HoldKeys) \in Nat
  BY <1>1, SumType, CoreAssumption
<1>10. held[a] = PendingHolds(a)
  BY DEF HeldFunds
<1> QED BY <1>4, <1>5, <1>6, <1>7, <1>8, <1>9, <1>10

\* createHold reserves on the account what the new hold adds to its pending holds.
LEMMA CreateHoldKeepsHeldFunds ==
    ASSUME TypeOK, TypeOK', HeldFunds, NEW h \in HoldKeys, NEW a \in Accounts,
           NEW amount \in HoldAmounts, NEW due \in BOOLEAN, CreateHold(h, a, amount, due)
    PROVE  HeldFunds'
<1> SUFFICES ASSUME NEW b \in Accounts PROVE held'[b] = PendingHolds(b)'
  BY DEF HeldFunds
<1> DEFINE f == [q \in HoldKeys |-> Reserved(hold[q], b)]
           g == [q \in HoldKeys |-> Reserved(hold'[q], b)]
<1>1. \A q \in HoldKeys : f[q] \in Nat /\ g[q] \in Nat
  BY DEF Reserved, TypeOK, Hold
<1>2. \A q \in HoldKeys \ {h} : f[q] = g[q]
  BY DEF CreateHold, TypeOK
<1>3. f[h] = 0 /\ g[h] = IF a = b THEN amount ELSE 0
  BY DEF CreateHold, TypeOK, Reserved
<1>4. held'[b] = held[b] + (IF a = b THEN amount ELSE 0) /\ held[b] \in Nat /\ amount \in Nat
  BY CoreAssumption DEF CreateHold, TypeOK
<1>5. PendingHolds(b) = SumOf(f, HoldKeys) /\ PendingHolds(b)' = SumOf(g, HoldKeys)
  BY PendingHoldsIs
<1> HIDE DEF f, g
<1>6. SumOf(g, HoldKeys) = SumOf(f, HoldKeys) - f[h] + g[h]
  BY <1>1, <1>2, SumUpdate, CoreAssumption
<1>7. held[b] = SumOf(f, HoldKeys)
  BY <1>5 DEF HeldFunds
<1> QED BY <1>3, <1>4, <1>5, <1>6, <1>7

-------------------------------------------------------------------------------
(***************************************************************************)
(* The integrity checks, together.                                         *)
(***************************************************************************)
MoneyInv == PostedTotals /\ PendingTotals /\ TrialBalance /\ FundsFloor /\ ClosedEmpty

Integrity == TypeOK /\ MoneyInv /\ HeldFunds

\* The empty ledger is consistent.
LEMMA InitIntegrity == Init => Integrity
<1> SUFFICES ASSUME Init PROVE Integrity
  OBVIOUS
<1>1. TypeOK
  BY InitType
<1>2. ASSUME NEW st \in {"posted", "pending"}, NEW s \in Side, NEW a \in Accounts
      PROVE  Moved(st, s, a) = 0
  <2> DEFINE f == [k \in Keys |-> Part(txn[k], st, s, a)]
  <2>1. \A k \in Keys : f[k] = 0
    BY DEF Init, NoTransaction, Part
  <2> HIDE DEF f
  <2>2. SumOf(f, Keys) = 0
    BY <2>1, SumZero
  <2> QED BY <2>2 DEF Moved, f
<1>3. PostedTotals /\ PendingTotals
  BY <1>2 DEF PostedTotals, PendingTotals, Init, NoEntries
<1>4. TrialBalance
  <2>1. ASSUME NEW s \in Side, NEW a \in Accounts PROVE SumOf(posted[s], Book(a)) = 0
    <3>1. \A b \in Book(a) : posted[s][b] = 0
      BY DEF Init, NoEntries, Book
    <3> QED BY <3>1, SumZero
  <2> QED BY <2>1 DEF TrialBalance, Side
<1>5. FundsFloor
  <2>1. \A s \in Side, a \in Accounts : posted[s][a] = 0 /\ pending[s][a] = 0 /\ held[a] = 0
    BY DEF Init, NoEntries
  <2>2. \A a \in Accounts : NormalSide[a] \in Side /\ Opposite(NormalSide[a]) \in Side
    BY CoreAssumption DEF Opposite, Side
  <2>3. \A a \in Accounts : Available(posted, pending, held, a) = 0
    BY <2>1, <2>2 DEF Available, Outgoing
  <2> QED BY <2>3, CoreAssumption DEF FundsFloor
<1>6. ClosedEmpty
  BY DEF ClosedEmpty, Init
<1>7. HeldFunds
  <2> SUFFICES ASSUME NEW a \in Accounts PROVE PendingHolds(a) = 0
    BY DEF HeldFunds, Init
  <2> DEFINE f == [h \in HoldKeys |-> Reserved(hold[h], a)]
  <2>1. \A h \in HoldKeys : f[h] = 0
    BY DEF Init, NoHold, Reserved
  <2> HIDE DEF f
  <2>2. SumOf(f, HoldKeys) = 0
    BY <2>1, SumZero
  <2> QED BY <2>2, PendingHoldsIs DEF f
<1> QED BY <1>1, <1>3, <1>4, <1>5, <1>6, <1>7 DEF Integrity, MoneyInv

\* A transition that writes the transaction k as it moves the totals keeps the money
\* invariants, whatever funds it releases.
LEMMA ChangeKeepsMoney ==
    ASSUME TypeOK, TypeOK', MoneyInv, NEW k \in Keys,
           NEW u \in Entries, NEW e \in Entries, NEW rel \in [Accounts -> Nat],
           NEW st \in {"pending", "posted", "archived"}, TransactionChange(k, u, e, st, rel)
    PROVE  MoneyInv'
<1>1. Transition(u, e, st, rel) /\ status' = status
  BY DEF TransactionChange
<1>2. PostedTotals' /\ PendingTotals'
  BY ChangeKeepsTotals DEF MoneyInv
<1>3. TrialBalance'
  BY <1>1, TransitionKeepsTrialBalance DEF MoneyInv
<1>4. FundsFloor'
  BY <1>1, TransitionKeepsFloor DEF MoneyInv
<1>5. ClosedEmpty'
  BY <1>1, TransitionKeepsClosedEmpty DEF MoneyInv
<1> QED BY <1>2, <1>3, <1>4, <1>5 DEF MoneyInv

\* A change of a transaction that resolves no hold.
LEMMA ChangeKeepsIntegrity ==
    ASSUME Integrity, TypeOK', NEW k \in Keys, NEW u \in Entries, NEW e \in Entries,
           NEW st \in {"pending", "posted", "archived"},
           TransactionChange(k, u, e, st, NoRelease), hold' = hold
    PROVE  Integrity'
<1>1. MoneyInv'
  BY ChangeKeepsMoney, NoEntriesType DEF Integrity
<1>2. held' = held
  BY DEF TransactionChange, Transition, HeldAfter, NoRelease, Integrity, TypeOK
<1>3. HeldFunds'
  BY <1>2, HoldsSame DEF Integrity
<1> QED BY <1>1, <1>3 DEF Integrity

\* The totals of the journal do not see a transaction that is archived at once.
LEMMA PostArchivedKeepsIntegrity ==
    ASSUME Integrity, TypeOK', NEW k \in Keys, NEW e \in Entries, NEW st, PostArchived(k, e, st)
    PROVE  Integrity'
<1>1. ASSUME NEW kind \in {"posted", "pending"}, NEW s \in Side, NEW a \in Accounts
      PROVE  Moved(kind, s, a)' = Moved(kind, s, a)
  <2>1. \A q \in Keys \ {k} : txn'[q] = txn[q]
    BY DEF PostArchived, Write, Integrity, TypeOK
  <2>2. Moved(kind, s, a)' = Moved(kind, s, a) - Part(txn[k], kind, s, a) + Part(txn'[k], kind, s, a)
    BY <2>1, MovedUpdate DEF Integrity
  <2>3. Part(txn[k], kind, s, a) = 0 /\ Part(txn'[k], kind, s, a) = 0
    BY DEF Part, PostArchived, Write, Integrity, TypeOK
  <2>4. Moved(kind, s, a) \in Nat
    BY DEF Integrity, MoneyInv, TypeOK, PostedTotals, PendingTotals, Entries
  <2> QED BY <2>2, <2>3, <2>4
<1>2. UNCHANGED <<status, posted, pending, held, hold>>
  BY DEF PostArchived
<1>3. PostedTotals' /\ PendingTotals'
  BY <1>1, <1>2 DEF Integrity, MoneyInv, PostedTotals, PendingTotals
<1>4. TrialBalance' /\ FundsFloor' /\ ClosedEmpty'
  BY <1>2 DEF Integrity, MoneyInv, TrialBalance, FundsFloor, ClosedEmpty, Empty, Available, Outgoing, Book
<1>5. HeldFunds'
  BY <1>2, HoldsSame DEF Integrity
<1> QED BY <1>3, <1>4, <1>5 DEF Integrity, MoneyInv

\* Totals that do not change, on transactions that do not change, stay right.
LEMMA MoneyUnchanged ==
    ASSUME MoneyInv, UNCHANGED <<posted, pending, txn>>, FundsFloor', ClosedEmpty'
    PROVE  MoneyInv'
<1>1. PostedTotals' /\ PendingTotals'
  BY DEF MoneyInv, PostedTotals, PendingTotals, Moved
<1>2. TrialBalance'
  BY DEF MoneyInv, TrialBalance, Book
<1> QED BY <1>1, <1>2 DEF MoneyInv

\* createHold keeps the ledger consistent.
LEMMA CreateHoldKeepsIntegrity ==
    ASSUME Integrity, TypeOK', NEW h \in HoldKeys, NEW a \in Accounts, NEW amount \in HoldAmounts,
           NEW due \in BOOLEAN, CreateHold(h, a, amount, due)
    PROVE  Integrity'
<1>1. HeldFunds'
  BY CreateHoldKeepsHeldFunds DEF Integrity
<1>2. UNCHANGED <<status, posted, pending, txn>>
  BY DEF CreateHold
<1>3. \A b \in Accounts \ {a} : held'[b] = held[b]
  BY DEF CreateHold, Integrity, TypeOK
<1>4. FundsFloor'
  <2> SUFFICES ASSUME NEW b \in Accounts
               PROVE  AllowNegative[b] \/ Available(posted', pending', held', b) + OverdraftLimit[b] >= 0
    BY DEF FundsFloor, Available, Outgoing
  <2>1. CASE b = a
    <3>1. CheckFunds(posted', pending', held', b)
      BY <2>1, <1>2 DEF CreateHold
    <3> QED BY <3>1, FloorStep DEF Integrity, MoneyInv
  <2>2. CASE b # a
    <3>1. Available(posted', pending', held', b) = Available(posted, pending, held, b)
      BY <2>2, <1>2, <1>3 DEF Available, Outgoing
    <3>2. Available(posted, pending, held, b) \in Int
      BY AvailableType DEF Integrity, TypeOK
    <3>3. Available(posted', pending', held', b) >= Available(posted, pending, held, b)
      BY <3>1, <3>2
    <3> QED BY <3>3, FloorStep DEF Integrity, MoneyInv
  <2> QED BY <2>1, <2>2
<1>5. ClosedEmpty'
  BY <1>2, <1>3 DEF CreateHold, ClosedEmpty, Empty, Integrity, MoneyInv
<1>6. MoneyInv'
  BY <1>2, <1>4, <1>5, MoneyUnchanged DEF Integrity
<1> QED BY <1>1, <1>6 DEF Integrity

\* voidHold and expireHolds keep the ledger consistent.
LEMMA ReleaseKeepsIntegrity ==
    ASSUME Integrity, TypeOK', NEW S \in SUBSET HoldKeys, \A h \in S : hold[h].status = "pending",
           NEW final \in {"voided", "expired"}, Release(S, final)
    PROVE  Integrity'
<1>1. held' = [a \in Accounts |-> held[a] - HeldBy(S)[a]]
  BY DEF Release, HeldAfter
<1>2. \A h \in HoldKeys \ S : hold'[h] = hold[h]
  BY DEF Release
<1>3. \A h \in S : hold'[h].status # "pending"
  BY DEF Release, Integrity, TypeOK, Hold
<1>4. HeldFunds'
  BY <1>1, <1>2, <1>3, HoldsReleased DEF Integrity
<1>5. UNCHANGED <<status, posted, pending, txn>>
  BY DEF Release
<1>6. HeldBy(S) \in [Accounts -> Nat]
  BY HeldByType DEF Integrity, TypeOK
<1>7. FundsFloor'
  <2> SUFFICES ASSUME NEW b \in Accounts
               PROVE  AllowNegative[b] \/ Available(posted', pending', held', b) + OverdraftLimit[b] >= 0
    BY DEF FundsFloor, Available, Outgoing
  <2>1. held[b] \in Nat /\ held'[b] \in Nat /\ held'[b] <= held[b]
    BY <1>1, <1>6 DEF Integrity, TypeOK
  <2>2. NormalSide[b] \in Side /\ Opposite(NormalSide[b]) \in Side
    BY CoreAssumption DEF Opposite, Side
  <2>3. Available(posted', pending', held', b) >= Available(posted, pending, held, b)
    BY <1>5, <2>1, <2>2 DEF Available, Outgoing, Integrity, TypeOK, Entries
  <2> QED BY <2>3, FloorStep DEF Integrity, MoneyInv
<1>8. ClosedEmpty'
  <2> SUFFICES ASSUME NEW a \in Accounts, status[a] = "closed" PROVE Empty(a)'
    BY <1>5 DEF ClosedEmpty
  <2>1. Empty(a)
    BY DEF Integrity, MoneyInv, ClosedEmpty
  <2>2. held'[a] = 0
    BY <2>1, <1>1, <1>6 DEF Empty, Release, Releasable, HeldAfter
  <2> QED BY <2>1, <2>2, <1>5 DEF Empty
<1>9. MoneyInv'
  BY <1>5, <1>7, <1>8, MoneyUnchanged DEF Integrity
<1> QED BY <1>4, <1>9 DEF Integrity

\* captureHold keeps the ledger consistent: it releases the whole hold and posts part of it.
LEMMA CaptureKeepsIntegrity ==
    ASSUME Integrity, TypeOK', NEW h \in HoldKeys, NEW k \in Keys, NEW dest \in Accounts,
           NEW amount \in HoldAmounts, CaptureHold(h, k, dest, amount)
    PROVE  Integrity'
<1> DEFINE e == CaptureEntries(hold[h].account, dest, amount)
<1>1. e \in Entries
  BY CaptureEntriesType, CoreAssumption DEF Integrity, TypeOK, Hold
<1>2. HeldBy({h}) \in [Accounts -> Nat]
  BY HeldByType DEF Integrity, TypeOK
<1>3. /\ Transition(NoEntries, e, "posted", HeldBy({h}))
      /\ txn' = [txn EXCEPT ![k] = [status |-> "posted", entries |-> e, reverses |-> NoKey]]
      /\ txn[k].status = "none" /\ status' = status
  BY DEF CaptureHold, Write
<1> HIDE DEF e
<1>4. TransactionChange(k, NoEntries, e, "posted", HeldBy({h}))
  BY <1>3 DEF TransactionChange, Integrity, TypeOK
<1>5. MoneyInv'
  BY <1>1, <1>2, <1>4, ChangeKeepsMoney, NoEntriesType DEF Integrity
<1>6. HeldFunds'
  <2>1. held' = [a \in Accounts |-> held[a] - HeldBy({h})[a]]
    BY <1>3 DEF Transition, HeldAfter
  <2>2. hold[h].status = "pending" /\ hold'[h].status = "captured"
    BY DEF CaptureHold, Captured, Integrity, TypeOK
  <2>3. \A q \in HoldKeys \ {h} : hold'[q] = hold[q]
    BY DEF CaptureHold, Captured, Integrity, TypeOK
  <2> QED BY <2>1, <2>2, <2>3, HoldsReleased DEF Integrity
<1> QED BY <1>5, <1>6 DEF Integrity

\* Every database transaction of the service keeps the ledger consistent.
LEMMA NextIntegrity == Integrity /\ [Next]_vars => Integrity'
<1> SUFFICES ASSUME Integrity, [Next]_vars PROVE Integrity'
  OBVIOUS
<1>a. TypeOK'
  BY NextType DEF Integrity
<1>b. TypeOK
  BY DEF Integrity
<1>1. ASSUME NEW a \in Accounts, CreateAccount(a) PROVE Integrity'
  <2>1. UNCHANGED <<posted, pending, held, txn, hold>>
    BY <1>1 DEF CreateAccount
  <2>2. FundsFloor' /\ HeldFunds'
    BY <2>1, HoldsSame DEF Integrity, MoneyInv, FundsFloor, Available, Outgoing
  <2>3. ClosedEmpty'
    BY <2>1, <1>1, <1>b DEF CreateAccount, Integrity, MoneyInv, ClosedEmpty, Empty, TypeOK
  <2>4. MoneyInv'
    BY <2>1, <2>2, <2>3, MoneyUnchanged DEF Integrity
  <2> QED BY <2>2, <2>4, <1>a DEF Integrity
<1>2. ASSUME NEW a \in Accounts, NEW target \in {"open", "frozen", "closed"}, SetAccountStatus(a, target)
      PROVE  Integrity'
  <2>1. UNCHANGED <<posted, pending, held, txn, hold>>
    BY <1>2 DEF SetAccountStatus
  <2>2. FundsFloor' /\ HeldFunds'
    BY <2>1, HoldsSame DEF Integrity, MoneyInv, FundsFloor, Available, Outgoing
  <2>3. ClosedEmpty'
    BY <2>1, <1>2, <1>b DEF SetAccountStatus, Integrity, MoneyInv, ClosedEmpty, Empty, TypeOK
  <2>4. MoneyInv'
    BY <2>1, <2>2, <2>3, MoneyUnchanged DEF Integrity
  <2> QED BY <2>2, <2>4, <1>a DEF Integrity
<1>3. ASSUME NEW k \in Keys, NEW e \in EntryInputs, NEW st \in {"pending", "posted"}, Post(k, e, st)
      PROVE  Integrity'
  <2>1. TransactionChange(k, NoEntries, e, st, NoRelease) /\ hold' = hold
    BY <1>3, <1>b DEF Post, Write, TransactionChange, TypeOK
  <2> QED BY <2>1, <1>a, ChangeKeepsIntegrity, NoEntriesType, CoreAssumption
<1>4. ASSUME NEW k \in Keys, NEW e \in EntryInputs, NEW st \in {"pending", "posted"}, PostArchived(k, e, st)
      PROVE  Integrity'
  BY <1>4, <1>a, PostArchivedKeepsIntegrity, CoreAssumption
<1>5. ASSUME NEW k \in Keys, NEW e \in EntryInputs, UpdatePending(k, e) PROVE Integrity'
  <2>1. TransactionChange(k, txn[k].entries, e, "pending", NoRelease) /\ hold' = hold
    BY <1>5, <1>b DEF UpdatePending, TransactionChange, TypeOK, Transaction
  <2>2. txn[k].entries \in Entries
    BY <1>b DEF TypeOK, Transaction
  <2> QED BY <2>1, <2>2, <1>a, ChangeKeepsIntegrity, CoreAssumption
<1>6. ASSUME NEW k \in Keys, NEW e \in Entries, PostPending(k, e) PROVE Integrity'
  <2>1. TransactionChange(k, txn[k].entries, e, "posted", NoRelease) /\ hold' = hold
    BY <1>6, <1>b DEF PostPending, TransactionChange, TypeOK, Transaction
  <2>2. txn[k].entries \in Entries
    BY <1>b DEF TypeOK, Transaction
  <2> QED BY <2>1, <2>2, <1>a, ChangeKeepsIntegrity
<1>7. ASSUME NEW k \in Keys, ArchiveTransaction(k) PROVE Integrity'
  <2>1. TransactionChange(k, txn[k].entries, NoEntries, "archived", NoRelease) /\ hold' = hold
    BY <1>7, <1>b DEF ArchiveTransaction, TransactionChange, TypeOK, Transaction
  <2>2. txn[k].entries \in Entries
    BY <1>b DEF TypeOK, Transaction
  <2> QED BY <2>1, <2>2, <1>a, ChangeKeepsIntegrity, NoEntriesType
<1>8. ASSUME NEW k \in Keys, NEW original \in Keys, Reverse(k, original) PROVE Integrity'
  <2> DEFINE e == Mirror(txn[original].entries)
  <2>1. e \in Entries
    BY <1>b, MirrorType DEF TypeOK, Transaction
  <2>2. TransactionChange(k, NoEntries, e, "posted", NoRelease) /\ hold' = hold
    BY <1>8, <1>b DEF Reverse, Write, TransactionChange, TypeOK
  <2> HIDE DEF e
  <2> QED BY <2>1, <2>2, <1>a, ChangeKeepsIntegrity, NoEntriesType
<1>9. ASSUME NEW h \in HoldKeys, HoldFallsDue(h) PROVE Integrity'
  <2>1. UNCHANGED <<status, posted, pending, held, txn>>
    BY <1>9 DEF HoldFallsDue
  <2>2. \A q \in HoldKeys, a \in Accounts : Reserved(hold'[q], a) = Reserved(hold[q], a)
    BY <1>9, <1>b DEF HoldFallsDue, Reserved, TypeOK, Hold
  <2>3. HeldFunds'
    BY <2>1, <2>2, HoldsSame DEF Integrity
  <2>4. FundsFloor' /\ ClosedEmpty'
    BY <2>1 DEF Integrity, MoneyInv, FundsFloor, Available, Outgoing, ClosedEmpty, Empty
  <2>5. MoneyInv'
    BY <2>1, <2>4, MoneyUnchanged DEF Integrity
  <2> QED BY <2>3, <2>5, <1>a DEF Integrity
<1>10. CASE UNCHANGED vars
  <2>1. UNCHANGED <<status, posted, pending, held, txn, hold>>
    BY <1>10 DEF vars
  <2>2. FundsFloor' /\ ClosedEmpty' /\ HeldFunds'
    BY <2>1, HoldsSame DEF Integrity, MoneyInv, FundsFloor, Available, Outgoing, ClosedEmpty, Empty
  <2>3. MoneyInv'
    BY <2>1, <2>2, MoneyUnchanged DEF Integrity
  <2> QED BY <2>2, <2>3, <1>a DEF Integrity
<1>11. CASE AccountStep
  BY <1>1, <1>2, <1>11 DEF AccountStep
<1>12. CASE TransactionStep
  BY <1>3, <1>4, <1>5, <1>6, <1>7, <1>8, <1>12, <1>b, CoreAssumption DEF TransactionStep, TypeOK, Transaction
<1>13. CASE HoldStep
  <2>1. ASSUME NEW h \in HoldKeys, VoidHold(h) PROVE Integrity'
    BY <2>1, <1>a, ReleaseKeepsIntegrity DEF VoidHold
  <2>2. ASSUME NEW S \in SUBSET HoldKeys, ExpireHolds(S) PROVE Integrity'
    BY <2>2, <1>a, ReleaseKeepsIntegrity DEF ExpireHolds
  <2> QED BY <2>1, <2>2, <1>9, <1>13, <1>a, CreateHoldKeepsIntegrity, CaptureKeepsIntegrity DEF HoldStep
<1> QED BY <1>10, <1>11, <1>12, <1>13 DEF Next

\* The integrity checks hold in every reachable state.
THEOREM IntegrityHolds == Spec => []Integrity
BY InitIntegrity, NextIntegrity, PTL DEF Spec

\* verify.go would find the posted totals, the pending totals and the held funds of
\* every account equal to its journal, its pending transactions and its pending holds.
THEOREM TotalsAreSumsHolds == Spec => []TotalsAreSums
<1>1. Integrity => TotalsAreSums
  BY DEF Integrity, MoneyInv, TotalsAreSums
<1> QED BY <1>1, IntegrityHolds, PTL

\* Every ledger is in balance in every currency, always.
THEOREM TrialBalanceHolds == Spec => []TrialBalance
<1>1. Integrity => TrialBalance
  BY DEF Integrity, MoneyInv
<1> QED BY <1>1, IntegrityHolds, PTL

\* Whatever operations come in whatever order, verify.go finds nothing.
THEOREM LedgerVerifiesHolds == Spec => []LedgerVerifies
<1>1. TotalsAreSums /\ TrialBalance => LedgerVerifies
  BY DEF LedgerVerifies
<1> QED BY <1>1, TotalsAreSumsHolds, TrialBalanceHolds, PTL

\* No account goes below its floor, counting what is pending and held against it.
THEOREM FundsFloorHolds == Spec => []FundsFloor
<1>1. Integrity => FundsFloor
  BY DEF Integrity, MoneyInv
<1> QED BY <1>1, IntegrityHolds, PTL

\* A closed account stays empty.
THEOREM ClosedEmptyHolds == Spec => []ClosedEmpty
<1>1. Integrity => ClosedEmpty
  BY DEF Integrity, MoneyInv
<1> QED BY <1>1, IntegrityHolds, PTL

\* No account is below its floor, and none that is closed has anything left.
THEOREM AccountsAreSoundHolds == Spec => []AccountsAreSound
<1>1. FundsFloor /\ ClosedEmpty => AccountsAreSound
  BY DEF AccountsAreSound
<1> QED BY <1>1, FundsFloorHolds, ClosedEmptyHolds, PTL

-------------------------------------------------------------------------------
(***************************************************************************)
(* The journal is append-only, and accounts that are not open only drain.  *)
(***************************************************************************)
Final(t, tNext) == t.status \in {"posted", "archived"} => tNext = t
FinalHold(h, hNext) == h.status \in {"captured", "voided", "expired"} => hNext = h

\* No step changes a resolved transaction or hold.
LEMMA NextFinal ==
    ASSUME TypeOK, [Next]_vars
    PROVE  /\ \A k \in Keys : Final(txn[k], txn'[k])
           /\ \A h \in HoldKeys : FinalHold(hold[h], hold'[h])
<1> DEFINE Goal == /\ \A k \in Keys : Final(txn[k], txn'[k])
                   /\ \A h \in HoldKeys : FinalHold(hold[h], hold'[h])
<1> USE DEF Final, FinalHold
<1>1. CASE UNCHANGED vars \/ AccountStep
  BY <1>1 DEF vars, AccountStep, CreateAccount, SetAccountStatus
<1>2. ASSUME NEW k \in Keys, NEW e, NEW st,
             \/ Post(k, e, st) \/ PostArchived(k, e, st) \/ UpdatePending(k, e)
             \/ PostPending(k, e) \/ ArchiveTransaction(k) \/ \E original \in Keys : Reverse(k, original)
      PROVE  Goal
  <2>1. \A q \in Keys \ {k} : txn'[q] = txn[q]
    BY <1>2 DEF Post, PostArchived, UpdatePending, PostPending, ArchiveTransaction, Reverse, Write, TypeOK
  <2>2. txn[k].status \in {"none", "pending"} /\ hold' = hold
    BY <1>2 DEF Post, PostArchived, UpdatePending, PostPending, ArchiveTransaction, Reverse
  <2> QED BY <2>1, <2>2
<1>3. CASE TransactionStep
  BY <1>2, <1>3 DEF TransactionStep
<1>4. ASSUME NEW h \in HoldKeys, NEW k \in Keys, NEW dest \in Accounts, NEW amount \in HoldAmounts,
             CaptureHold(h, k, dest, amount)
      PROVE  Goal
  BY <1>4 DEF CaptureHold, Write, Captured, TypeOK
<1>5. ASSUME NEW S \in SUBSET HoldKeys, \A h \in S : hold[h].status = "pending",
             NEW final, Release(S, final)
      PROVE  Goal
  BY <1>5 DEF Release
<1>6. ASSUME NEW h \in HoldKeys, NEW a \in Accounts, NEW amount \in HoldAmounts, NEW due \in BOOLEAN,
             CreateHold(h, a, amount, due)
      PROVE  Goal
  BY <1>6 DEF CreateHold, TypeOK
<1>7. ASSUME NEW h \in HoldKeys, HoldFallsDue(h) PROVE Goal
  BY <1>7 DEF HoldFallsDue, TypeOK
<1>8. ASSUME HoldStep PROVE Goal
  <2> HIDE DEF Goal
  <2>1. ASSUME NEW h \in HoldKeys, VoidHold(h) PROVE Goal
    BY <1>5, <2>1 DEF VoidHold
  <2>2. ASSUME NEW S \in SUBSET HoldKeys, ExpireHolds(S) PROVE Goal
    BY <1>5, <2>2 DEF ExpireHolds
  <2> QED BY <1>4, <1>6, <1>7, <1>8, <2>1, <2>2 DEF HoldStep
<1> QED BY <1>1, <1>3, <1>8 DEF Next

\* No call changes a posted or archived transaction or a resolved hold again.
THEOREM ResolvedIsFinalHolds == Spec => ResolvedIsFinal
<1>1. TypeOK /\ [Next]_vars =>
        [ /\ \A k \in Keys : txn[k].status \in {"posted", "archived"} => txn'[k] = txn[k]
          /\ \A h \in HoldKeys : hold[h].status \in {"captured", "voided", "expired"} => hold'[h] = hold[h]
        ]_vars
  BY NextFinal DEF Final, FinalHold
<1> QED BY <1>1, TypeCorrect, PTL DEF Spec, ResolvedIsFinal

Drains(a) ==
    /\ held'[a] <= held[a]
    /\ \A s \in Side : posted'[s][a] = posted[s][a] /\ pending'[s][a] <= pending[s][a]

\* A transition adds nothing to an account that is not open (checkOpen).
LEMMA TransitionDrains ==
    ASSUME TypeOK, NEW u \in Entries, NEW e \in Entries, NEW st, NEW rel \in [Accounts -> Nat],
           Transition(u, e, st, rel), NEW a \in Accounts, status[a] # "open"
    PROVE  Drains(a)
<1>1. \A s \in Side : e[s][a] = 0
  BY DEF Transition, Allowed, Admissible, Touched, Entries
<1>2. \A s \in Side : posted'[s][a] = posted[s][a] /\ pending'[s][a] <= pending[s][a]
  BY <1>1 DEF Transition, PostedAfter, PendingAfter, TypeOK, Entries
<1>3. held'[a] <= held[a]
  BY DEF Transition, HeldAfter, TypeOK
<1> QED BY <1>2, <1>3 DEF Drains

\* No step adds anything to an account that is not open.
LEMMA NextDrains ==
    ASSUME TypeOK, [Next]_vars, NEW a \in Accounts, status[a] # "open"
    PROVE  Drains(a)
<1>1. ASSUME UNCHANGED <<posted, pending, held>> PROVE Drains(a)
  BY <1>1 DEF Drains, TypeOK, Entries
<1>2. CASE UNCHANGED vars \/ AccountStep
  BY <1>1, <1>2 DEF vars, AccountStep, CreateAccount, SetAccountStatus
<1>3. ASSUME NEW k \in Keys, NEW e \in Entries, NEW st,
             Post(k, e, st) \/ UpdatePending(k, e) \/ PostPending(k, e) \/ ArchiveTransaction(k)
      PROVE  Drains(a)
  <2>1. txn[k].entries \in Entries
    BY DEF TypeOK, Transaction
  <2> QED BY <1>3, <2>1, TransitionDrains, NoEntriesType
          DEF Post, UpdatePending, PostPending, ArchiveTransaction
<1>4. ASSUME NEW k \in Keys, NEW original \in Keys, Reverse(k, original) PROVE Drains(a)
  <2>1. Mirror(txn[original].entries) \in Entries
    BY MirrorType DEF TypeOK, Transaction
  <2> QED BY <1>4, <2>1, TransitionDrains, NoEntriesType DEF Reverse
<1>5. ASSUME NEW k \in Keys, NEW e, NEW st, PostArchived(k, e, st) PROVE Drains(a)
  BY <1>1, <1>5 DEF PostArchived
<1>6. CASE TransactionStep
  BY <1>3, <1>4, <1>5, <1>6, CoreAssumption DEF TransactionStep, TypeOK, Transaction
<1>7. ASSUME NEW h \in HoldKeys, NEW k \in Keys, NEW dest \in Accounts, NEW amount \in HoldAmounts,
             CaptureHold(h, k, dest, amount)
      PROVE  Drains(a)
  <2>1. CaptureEntries(hold[h].account, dest, amount) \in Entries
    BY CaptureEntriesType, CoreAssumption DEF TypeOK, Hold
  <2>2. HeldBy({h}) \in [Accounts -> Nat]
    BY HeldByType DEF TypeOK
  <2> QED BY <1>7, <2>1, <2>2, TransitionDrains, NoEntriesType DEF CaptureHold
<1>8. ASSUME NEW S \in SUBSET HoldKeys, NEW final, Release(S, final) PROVE Drains(a)
  <2>1. HeldBy(S) \in [Accounts -> Nat]
    BY HeldByType DEF TypeOK
  <2> QED BY <1>8, <2>1 DEF Release, HeldAfter, Drains, TypeOK, Entries
<1>9. ASSUME NEW h \in HoldKeys, NEW b \in Accounts, NEW amount \in HoldAmounts, NEW due \in BOOLEAN,
             CreateHold(h, b, amount, due)
      PROVE  Drains(a)
  BY <1>9 DEF CreateHold, Drains, TypeOK, Entries
<1>10. ASSUME NEW h \in HoldKeys, HoldFallsDue(h) PROVE Drains(a)
  BY <1>1, <1>10 DEF HoldFallsDue
<1>11. CASE HoldStep
  BY <1>7, <1>8, <1>9, <1>10, <1>11 DEF HoldStep, VoidHold, ExpireHolds
<1> QED BY <1>2, <1>6, <1>11 DEF Next

\* A frozen or closed account takes no new posting, pending entry or hold.
THEOREM NotOpenOnlyDrainsHolds == Spec => NotOpenOnlyDrains
<1>1. TypeOK /\ [Next]_vars =>
        [ \A a \in Accounts : status[a] # "open" =>
              /\ held'[a] <= held[a]
              /\ \A s \in Side : posted'[s][a] = posted[s][a] /\ pending'[s][a] <= pending[s][a]
        ]_vars
  BY NextDrains DEF Drains
<1> QED BY <1>1, TypeCorrect, PTL DEF Spec, NotOpenOnlyDrains

-------------------------------------------------------------------------------
(***************************************************************************)
(* Reversals and captures.  The link of a captured hold to its transaction *)
(* is unique because no other hold names a transaction.                    *)
(***************************************************************************)
LinkedIffCaptured == \A h \in HoldKeys : hold[h].status = "captured" <=> hold[h].txn # NoKey

Links == ReversalsCancel /\ CapturesPosted /\ LinkedIffCaptured

\* At first nothing is reversed and nothing captured.
LEMMA InitLinks == Init => Links
BY DEF Init, NoTransaction, NoHold, Links, ReversalsCancel, CapturesPosted, LinkedIffCaptured

\* A transaction that is new or pending changes and does not become a reversal.
LEMMA ReversalsUntouched ==
    ASSUME TypeOK, TypeOK', ReversalsCancel, NEW k \in Keys,
           txn[k].status \in {"none", "pending"}, txn'[k].reverses = NoKey,
           \A q \in Keys \ {k} : txn'[q] = txn[q]
    PROVE  ReversalsCancel'
<1> SUFFICES ASSUME NEW q \in Keys, txn'[q].reverses # NoKey
             PROVE  /\ txn'[q].status = "posted"
                    /\ txn'[txn'[q].reverses].status = "posted"
                    /\ txn'[q].entries = Mirror(txn'[txn'[q].reverses].entries)
                    /\ \A r \in Keys \ {q} : txn'[r].reverses # txn'[q].reverses
  BY DEF ReversalsCancel, Mirror
<1>1. q # k /\ txn'[q] = txn[q]
  OBVIOUS
<1>2. /\ txn[q].status = "posted"
      /\ txn[txn[q].reverses].status = "posted"
      /\ txn[q].entries = Mirror(txn[txn[q].reverses].entries)
      /\ \A r \in Keys \ {q} : txn[r].reverses # txn[q].reverses
  BY <1>1 DEF ReversalsCancel
<1>3. txn[q].reverses \in Keys \ {k}
  BY <1>1, <1>2 DEF TypeOK, Transaction
<1> QED BY <1>1, <1>2, <1>3

\* A transaction that is not a reversal reverses nothing while it is new or pending.
LEMMA OpenReversesNothing ==
    ASSUME TypeOK, ReversalsCancel, NEW k \in Keys, txn[k].status \in {"none", "pending"}
    PROVE  txn[k].reverses = NoKey
BY DEF ReversalsCancel

\* reverse links one new reversal to an original that had none.
LEMMA ReverseKeepsReversals ==
    ASSUME TypeOK, TypeOK', ReversalsCancel, NEW k \in Keys, NEW original \in Keys, Reverse(k, original)
    PROVE  ReversalsCancel'
<1> DEFINE e == Mirror(txn[original].entries)
<1>1. /\ txn' = [txn EXCEPT ![k] = [status |-> "posted", entries |-> e, reverses |-> original]]
      /\ txn[k].status = "none" /\ txn[original].status = "posted"
      /\ \A r \in Keys : txn[r].reverses # original
  BY DEF Reverse, Write
<1>2. /\ txn'[k].status = "posted" /\ txn'[k].entries = e /\ txn'[k].reverses = original
      /\ \A q \in Keys \ {k} : txn'[q] = txn[q]
      /\ original # k
  BY <1>1 DEF TypeOK
<1> SUFFICES ASSUME NEW q \in Keys, txn'[q].reverses # NoKey
             PROVE  /\ txn'[q].status = "posted"
                    /\ txn'[txn'[q].reverses].status = "posted"
                    /\ txn'[q].entries = Mirror(txn'[txn'[q].reverses].entries)
                    /\ \A r \in Keys \ {q} : txn'[r].reverses # txn'[q].reverses
  BY DEF ReversalsCancel, Mirror
<1>3. CASE q = k
  BY <1>1, <1>2, <1>3
<1>4. CASE q # k
  <2>1. /\ txn[q].status = "posted"
        /\ txn[txn[q].reverses].status = "posted"
        /\ txn[q].entries = Mirror(txn[txn[q].reverses].entries)
        /\ \A r \in Keys \ {q} : txn[r].reverses # txn[q].reverses
    BY <1>2, <1>4 DEF ReversalsCancel
  <2>2. txn[q].reverses \in Keys \ {k}
    BY <1>1, <1>2, <1>4, <2>1 DEF TypeOK, Transaction
  <2> HIDE DEF e
  <2> QED BY <1>1, <1>2, <1>4, <2>1, <2>2
<1> QED BY <1>3, <1>4

\* What is posted stays, and so do the links of the captured holds to it.
LEMMA CapturesUntouched ==
    ASSUME CapturesPosted, LinkedIffCaptured, TypeOK,
           \A k \in Keys : Final(txn[k], txn'[k]),
           \A h \in HoldKeys : /\ hold'[h].status = "captured" <=> hold[h].status = "captured"
                               /\ hold[h].status = "captured" => hold'[h] = hold[h]
                               /\ hold'[h].txn = hold[h].txn
    PROVE  CapturesPosted' /\ LinkedIffCaptured'
<1>1. LinkedIffCaptured'
  BY DEF LinkedIffCaptured
<1>2. ASSUME NEW h \in HoldKeys, hold'[h].status = "captured"
      PROVE  /\ hold'[h].captured \in 1 .. hold'[h].amount
             /\ txn'[hold'[h].txn].status = "posted"
             /\ \E dest \in Accounts :
                    txn'[hold'[h].txn].entries = CaptureEntries(hold'[h].account, dest, hold'[h].captured)
             /\ \A g \in HoldKeys \ {h} : hold'[g].txn # hold'[h].txn
  <2>1. hold[h].status = "captured" /\ hold'[h] = hold[h]
    BY <1>2
  <2>2. /\ hold[h].captured \in 1 .. hold[h].amount
        /\ txn[hold[h].txn].status = "posted"
        /\ \E dest \in Accounts :
               txn[hold[h].txn].entries = CaptureEntries(hold[h].account, dest, hold[h].captured)
        /\ \A g \in HoldKeys \ {h} : hold[g].txn # hold[h].txn
    BY <2>1 DEF CapturesPosted
  <2>3. hold[h].txn \in Keys
    BY <2>1 DEF LinkedIffCaptured, TypeOK, Hold
  <2>4. txn'[hold[h].txn] = txn[hold[h].txn]
    BY <2>2, <2>3 DEF Final
  <2> QED BY <2>1, <2>2, <2>4
<1> QED BY <1>1, <1>2 DEF CapturesPosted, CaptureEntries

\* captureHold links one hold to a transaction whose key was free.
LEMMA CaptureKeepsCaptures ==
    ASSUME TypeOK, TypeOK', CapturesPosted, LinkedIffCaptured, NEW h \in HoldKeys, NEW k \in Keys,
           NEW dest \in Accounts, NEW amount \in HoldAmounts, CaptureHold(h, k, dest, amount)
    PROVE  CapturesPosted' /\ LinkedIffCaptured'
<1> DEFINE e == CaptureEntries(hold[h].account, dest, amount)
<1>1. /\ hold[h].status = "pending" /\ txn[k].status = "none" /\ amount <= hold[h].amount
      /\ txn' = [txn EXCEPT ![k] = [status |-> "posted", entries |-> e, reverses |-> NoKey]]
      /\ Captured(h, k, amount)
  BY DEF CaptureHold, Write
<1>2. /\ hold'[h].status = "captured" /\ hold'[h].account = hold[h].account
      /\ hold'[h].amount = hold[h].amount /\ hold'[h].captured = amount /\ hold'[h].txn = k
      /\ \A g \in HoldKeys \ {h} : hold'[g] = hold[g]
  BY <1>1 DEF Captured, TypeOK
<1>3. /\ txn'[k].status = "posted" /\ txn'[k].entries = e
      /\ \A q \in Keys \ {k} : txn'[q] = txn[q]
  BY <1>1 DEF TypeOK
<1>4. LinkedIffCaptured'
  BY <1>2, CoreAssumption DEF LinkedIffCaptured
<1>5. ASSUME NEW g \in HoldKeys \ {h} PROVE hold[g].txn # k
  <2>1. CASE hold[g].status = "captured"
    BY <2>1, <1>1 DEF CapturesPosted
  <2>2. CASE hold[g].status # "captured"
    BY <2>2, CoreAssumption DEF LinkedIffCaptured
  <2> QED BY <2>1, <2>2
<1>6. amount \in 1 .. hold[h].amount
  BY <1>1, CoreAssumption DEF TypeOK, Hold
<1>7. ASSUME NEW g \in HoldKeys, hold'[g].status = "captured"
      PROVE  /\ hold'[g].captured \in 1 .. hold'[g].amount
             /\ txn'[hold'[g].txn].status = "posted"
             /\ \E d \in Accounts :
                    txn'[hold'[g].txn].entries = CaptureEntries(hold'[g].account, d, hold'[g].captured)
             /\ \A r \in HoldKeys \ {g} : hold'[r].txn # hold'[g].txn
  <2>1. CASE g = h
    BY <2>1, <1>2, <1>3, <1>5, <1>6
  <2>2. CASE g # h
    <3>1. hold[g].status = "captured" /\ hold'[g] = hold[g]
      BY <1>2, <1>7, <2>2
    <3>2. /\ hold[g].captured \in 1 .. hold[g].amount
          /\ txn[hold[g].txn].status = "posted"
          /\ \E d \in Accounts :
                 txn[hold[g].txn].entries = CaptureEntries(hold[g].account, d, hold[g].captured)
          /\ \A r \in HoldKeys \ {g} : hold[r].txn # hold[g].txn
      BY <3>1 DEF CapturesPosted
    <3>3. hold[g].txn \in Keys \ {k}
      BY <2>2, <3>1, <1>5 DEF LinkedIffCaptured, TypeOK, Hold
    <3>4. \A r \in HoldKeys \ {g} : hold'[r].txn # hold[g].txn
      BY <1>2, <3>2, <3>3
    <3> HIDE DEF e
    <3> QED BY <1>3, <3>1, <3>2, <3>3, <3>4
  <2> QED BY <2>1, <2>2
<1> QED BY <1>4, <1>7 DEF CapturesPosted, CaptureEntries

\* Every step keeps the links between transactions and between holds and transactions.
LEMMA NextLinks == TypeOK /\ Links /\ [Next]_vars => Links'
<1> SUFFICES ASSUME TypeOK, Links, [Next]_vars PROVE Links'
  OBVIOUS
<1> USE DEF Links
<1>a. TypeOK'
  BY NextType
<1>b. \A k \in Keys : Final(txn[k], txn'[k])
  BY NextFinal
<1>1. ASSUME UNCHANGED txn PROVE ReversalsCancel'
  BY <1>1 DEF ReversalsCancel, Mirror
<1>2. ASSUME UNCHANGED hold PROVE CapturesPosted' /\ LinkedIffCaptured'
  BY <1>2, <1>b, CapturesUntouched
<1>3. CASE UNCHANGED vars \/ AccountStep
  BY <1>1, <1>2, <1>3 DEF vars, AccountStep, CreateAccount, SetAccountStatus
<1>4. ASSUME NEW k \in Keys, NEW e, NEW st,
             \/ Post(k, e, st) \/ PostArchived(k, e, st) \/ UpdatePending(k, e)
             \/ PostPending(k, e) \/ ArchiveTransaction(k)
      PROVE  Links'
  <2>1. txn[k].status \in {"none", "pending"} /\ hold' = hold
    BY <1>4 DEF Post, PostArchived, UpdatePending, PostPending, ArchiveTransaction
  <2>2. txn[k].reverses = NoKey
    BY <2>1, OpenReversesNothing
  <2>3. txn'[k].reverses = NoKey /\ \A q \in Keys \ {k} : txn'[q] = txn[q]
    BY <1>4, <2>2 DEF Post, PostArchived, UpdatePending, PostPending, ArchiveTransaction, Write, TypeOK, Transaction
  <2> QED BY <2>1, <2>3, <1>a, <1>2, ReversalsUntouched
<1>5. ASSUME NEW k \in Keys, NEW original \in Keys, Reverse(k, original) PROVE Links'
  BY <1>5, <1>a, <1>2, ReverseKeepsReversals DEF Reverse
<1>6. CASE TransactionStep
  BY <1>4, <1>5, <1>6 DEF TransactionStep
<1>7. ASSUME NEW h \in HoldKeys, NEW k \in Keys, NEW dest \in Accounts, NEW amount \in HoldAmounts,
             CaptureHold(h, k, dest, amount)
      PROVE  Links'
  <2>1. txn[k].status = "none" /\ txn'[k].reverses = NoKey /\ \A q \in Keys \ {k} : txn'[q] = txn[q]
    BY <1>7 DEF CaptureHold, Write, TypeOK
  <2>2. ReversalsCancel'
    BY <2>1, <1>a, ReversalsUntouched
  <2>3. CapturesPosted' /\ LinkedIffCaptured'
    BY <1>7, <1>a, CaptureKeepsCaptures
  <2> QED BY <2>2, <2>3
<1>8. ASSUME NEW S \in SUBSET HoldKeys, \A h \in S : hold[h].status = "pending",
             NEW final \in {"voided", "expired"}, Release(S, final)
      PROVE  Links'
  <2>1. UNCHANGED txn /\ \A h \in HoldKeys \ S : hold'[h] = hold[h]
    BY <1>8 DEF Release
  <2>2. \A h \in S : hold'[h].status = final /\ hold'[h].txn = hold[h].txn
    BY <1>8 DEF Release, TypeOK, Hold
  <2>3. CapturesPosted' /\ LinkedIffCaptured'
    BY <1>8, <1>b, <2>1, <2>2, CapturesUntouched
  <2> QED BY <2>1, <2>3, <1>1
<1>9. ASSUME NEW h \in HoldKeys, NEW a \in Accounts, NEW amount \in HoldAmounts, NEW due \in BOOLEAN,
             CreateHold(h, a, amount, due)
      PROVE  Links'
  <2>1. /\ UNCHANGED txn /\ hold[h].status = "none"
        /\ hold'[h].status = "pending" /\ hold'[h].txn = NoKey
        /\ \A g \in HoldKeys \ {h} : hold'[g] = hold[g]
    BY <1>9 DEF CreateHold, TypeOK
  <2>2. hold[h].txn = NoKey
    BY <2>1 DEF LinkedIffCaptured
  <2>3. CapturesPosted' /\ LinkedIffCaptured'
    BY <1>b, <2>1, <2>2, CapturesUntouched
  <2> QED BY <2>1, <2>3, <1>1
<1>10. ASSUME NEW h \in HoldKeys, HoldFallsDue(h) PROVE Links'
  <2>1. /\ UNCHANGED txn /\ hold[h].status = "pending"
        /\ hold'[h].status = "pending" /\ hold'[h].txn = hold[h].txn
        /\ \A g \in HoldKeys \ {h} : hold'[g] = hold[g]
    BY <1>10 DEF HoldFallsDue, TypeOK, Hold
  <2>2. CapturesPosted' /\ LinkedIffCaptured'
    BY <1>b, <2>1, CapturesUntouched
  <2> QED BY <2>1, <2>2, <1>1
<1>11. ASSUME HoldStep PROVE Links'
  <2> HIDE DEF Links
  <2>1. ASSUME NEW h \in HoldKeys, VoidHold(h) PROVE Links'
    BY <1>8, <2>1 DEF VoidHold
  <2>2. ASSUME NEW S \in SUBSET HoldKeys, ExpireHolds(S) PROVE Links'
    BY <1>8, <2>2 DEF ExpireHolds
  <2> QED BY <1>7, <1>9, <1>10, <1>11, <2>1, <2>2 DEF HoldStep
<1> QED BY <1>3, <1>6, <1>11 DEF Next

\* The links between transactions and from holds to transactions, in every reachable state.
THEOREM LinksHold == Spec => [](TypeOK /\ Links)
<1>1. Init => TypeOK /\ Links
  BY InitType, InitLinks
<1>2. (TypeOK /\ Links) /\ [Next]_vars => (TypeOK /\ Links)'
  BY NextType, NextLinks
<1> QED BY <1>1, <1>2, PTL DEF Spec

\* No transaction is reversed twice, a reversal mirrors what it reverses, and a
\* captured hold has a posted transaction of its own for the captured part.
THEOREM LinksAreTrueHolds == Spec => []LinksAreTrue
<1>1. TypeOK /\ Links => LinksAreTrue
  BY DEF Links, LinksAreTrue
<1> QED BY <1>1, LinksHold, PTL

-------------------------------------------------------------------------------
(***************************************************************************)
(* What is pending can be let go.  That funds suffice follows from the     *)
(* totals being sums; that the check of funds does not overflow needs one  *)
(* more invariant, since it adds up what leaves an account again.          *)
(***************************************************************************)
Leaving(a) == Outgoing(posted, pending, held, a)

OutgoingFits == \A a \in Accounts : Leaving(a) <= MaxAmount

\* What leaves an account is a number, and falls with what is pending and held.
LEMMA OutgoingIs ==
    ASSUME NEW po \in Entries, NEW pe \in Entries, NEW h \in [Accounts -> Nat],
           NEW qe \in Entries, NEW g \in [Accounts -> Nat], NEW a \in Accounts,
           g[a] <= h[a], \A s \in Side : qe[s][a] <= pe[s][a]
    PROVE  /\ Outgoing(po, pe, h, a) \in Nat /\ Outgoing(po, qe, g, a) \in Nat
           /\ Outgoing(po, qe, g, a) <= Outgoing(po, pe, h, a)
           /\ Available(po, qe, g, a) >= Available(po, pe, h, a)
<1>1. NormalSide[a] \in Side /\ Opposite(NormalSide[a]) \in Side
  BY CoreAssumption DEF Opposite, Side
<1> DEFINE o == Opposite(NormalSide[a])
           n == NormalSide[a]
<1>2. /\ po[o][a] \in Nat /\ po[n][a] \in Nat /\ pe[o][a] \in Nat /\ qe[o][a] \in Nat
      /\ h[a] \in Nat /\ g[a] \in Nat /\ qe[o][a] <= pe[o][a]
  BY <1>1 DEF Entries
<1>3. /\ Outgoing(po, pe, h, a) = po[o][a] + pe[o][a] + h[a]
      /\ Outgoing(po, qe, g, a) = po[o][a] + qe[o][a] + g[a]
      /\ Available(po, pe, h, a) = po[n][a] - (po[o][a] + pe[o][a] + h[a])
      /\ Available(po, qe, g, a) = po[n][a] - (po[o][a] + qe[o][a] + g[a])
  BY DEF Outgoing, Available
<1> HIDE DEF o, n
<1> QED BY <1>2, <1>3

\* checkFunds lets an account have back what is pending or held.
LEMMA FallingFunds ==
    ASSUME TypeOK, OutgoingFits, NEW pe \in Entries, NEW h \in [Accounts -> Nat], NEW a \in Accounts,
           h[a] <= held[a], \A s \in Side : pe[s][a] <= pending[s][a]
    PROVE  CheckFunds(posted, pe, h, a)
<1>1. posted \in Entries /\ pending \in Entries /\ held \in [Accounts -> Nat] /\ MaxAmount \in Nat
  BY CoreAssumption DEF TypeOK
<1>2. /\ Outgoing(posted, pending, held, a) \in Nat /\ Outgoing(posted, pe, h, a) \in Nat
      /\ Outgoing(posted, pe, h, a) <= Outgoing(posted, pending, held, a)
      /\ Available(posted, pe, h, a) >= Available(posted, pending, held, a)
  BY <1>1, OutgoingIs
<1>3. Outgoing(posted, pending, held, a) <= MaxAmount
  BY DEF OutgoingFits, Leaving
<1>4. Outgoing(posted, pe, h, a) <= MaxAmount
  BY <1>1, <1>2, <1>3
<1> QED BY <1>2, <1>4 DEF CheckFunds

\* An account that a step does not touch, or lets have something back, fits as before.
LEMMA FitsStep ==
    ASSUME TypeOK, TypeOK', OutgoingFits, NEW a \in Accounts, held'[a] <= held[a],
           \A s \in Side : posted'[s][a] = posted[s][a] /\ pending'[s][a] <= pending[s][a]
    PROVE  Outgoing(posted', pending', held', a) <= MaxAmount
<1>1. NormalSide[a] \in Side /\ Opposite(NormalSide[a]) \in Side
  BY CoreAssumption DEF Opposite, Side
<1> DEFINE o == Opposite(NormalSide[a])
<1>2. /\ posted[o][a] \in Nat /\ pending[o][a] \in Nat /\ held[a] \in Nat /\ MaxAmount \in Nat
      /\ pending'[o][a] \in Nat /\ held'[a] \in Nat
      /\ posted'[o][a] = posted[o][a] /\ pending'[o][a] <= pending[o][a]
  BY <1>1, CoreAssumption DEF TypeOK, Entries
<1>3. /\ Outgoing(posted', pending', held', a) = posted'[o][a] + pending'[o][a] + held'[a]
      /\ posted[o][a] + pending[o][a] + held[a] <= MaxAmount
  BY DEF Outgoing, OutgoingFits, Leaving
<1> HIDE DEF o
<1> QED BY <1>2, <1>3

LEMMA TransitionFits ==
    ASSUME TypeOK, TypeOK', OutgoingFits, NEW u \in Entries, NEW e \in Entries, NEW st,
           NEW rel \in [Accounts -> Nat], Transition(u, e, st, rel)
    PROVE  OutgoingFits'
<1> SUFFICES ASSUME NEW a \in Accounts
             PROVE  Outgoing(posted', pending', held', a) <= MaxAmount
  BY DEF OutgoingFits, Leaving, Outgoing
<1>1. CASE a \in Touched(u) \cup Touched(e) \cup {b \in Accounts : rel[b] > 0}
  <2>1. CheckFunds(posted', pending', held', a)
    BY <1>1 DEF Transition, Allowed
  <2> QED BY <2>1 DEF CheckFunds
<1>2. CASE a \notin Touched(u) \cup Touched(e) \cup {b \in Accounts : rel[b] > 0}
  <2>1. rel[a] = 0 /\ \A s \in Side : u[s][a] = 0 /\ e[s][a] = 0
    BY <1>2 DEF Touched, Entries
  <2>2. \A s \in Side : posted'[s][a] = posted[s][a] /\ pending'[s][a] <= pending[s][a]
    BY <2>1 DEF Transition, PostedAfter, PendingAfter, TypeOK, Entries
  <2>3. held'[a] <= held[a]
    BY <2>1 DEF Transition, HeldAfter, TypeOK
  <2> QED BY <2>2, <2>3, FitsStep
<1> QED BY <1>1, <1>2

\* No step lets more leave an account than an amount can be.
LEMMA NextFits == TypeOK /\ TypeOK' /\ OutgoingFits /\ [Next]_vars => OutgoingFits'
<1> SUFFICES ASSUME TypeOK, TypeOK', OutgoingFits, [Next]_vars PROVE OutgoingFits'
  OBVIOUS
<1>1. ASSUME \A a \in Accounts : /\ held'[a] <= held[a]
                                 /\ \A s \in Side : posted'[s][a] = posted[s][a] /\ pending'[s][a] <= pending[s][a]
      PROVE  OutgoingFits'
  <2>1. \A a \in Accounts : Outgoing(posted', pending', held', a) <= MaxAmount
    BY <1>1, FitsStep
  <2> QED BY <2>1 DEF OutgoingFits, Leaving, Outgoing
<1>2. ASSUME UNCHANGED <<posted, pending, held>> PROVE OutgoingFits'
  BY <1>1, <1>2 DEF TypeOK, Entries
<1>3. CASE UNCHANGED vars \/ AccountStep
  BY <1>2, <1>3 DEF vars, AccountStep, CreateAccount, SetAccountStatus
<1>4. ASSUME NEW k \in Keys, NEW e \in Entries, NEW st,
             Post(k, e, st) \/ UpdatePending(k, e) \/ PostPending(k, e) \/ ArchiveTransaction(k)
      PROVE  OutgoingFits'
  <2>1. txn[k].entries \in Entries
    BY DEF TypeOK, Transaction
  <2> QED BY <1>4, <2>1, TransitionFits, NoEntriesType
          DEF Post, UpdatePending, PostPending, ArchiveTransaction
<1>5. ASSUME NEW k \in Keys, NEW original \in Keys, Reverse(k, original) PROVE OutgoingFits'
  <2>1. Mirror(txn[original].entries) \in Entries
    BY MirrorType DEF TypeOK, Transaction
  <2> QED BY <1>5, <2>1, TransitionFits, NoEntriesType DEF Reverse
<1>6. ASSUME NEW k \in Keys, NEW e, NEW st, PostArchived(k, e, st) PROVE OutgoingFits'
  BY <1>2, <1>6 DEF PostArchived
<1>7. CASE TransactionStep
  BY <1>4, <1>5, <1>6, <1>7, CoreAssumption DEF TransactionStep, TypeOK, Transaction
<1>8. ASSUME NEW h \in HoldKeys, NEW k \in Keys, NEW dest \in Accounts, NEW amount \in HoldAmounts,
             CaptureHold(h, k, dest, amount)
      PROVE  OutgoingFits'
  <2>1. CaptureEntries(hold[h].account, dest, amount) \in Entries
    BY CaptureEntriesType, CoreAssumption DEF TypeOK, Hold
  <2>2. HeldBy({h}) \in [Accounts -> Nat]
    BY HeldByType DEF TypeOK
  <2> QED BY <1>8, <2>1, <2>2, TransitionFits, NoEntriesType DEF CaptureHold
<1>9. ASSUME NEW S \in SUBSET HoldKeys, NEW final, Release(S, final) PROVE OutgoingFits'
  <2>1. HeldBy(S) \in [Accounts -> Nat]
    BY HeldByType DEF TypeOK
  <2> QED BY <1>1, <1>9, <2>1 DEF Release, HeldAfter, TypeOK, Entries
<1>10. ASSUME NEW h \in HoldKeys, NEW b \in Accounts, NEW amount \in HoldAmounts, NEW due \in BOOLEAN,
              CreateHold(h, b, amount, due)
       PROVE  OutgoingFits'
  <2>1. UNCHANGED <<posted, pending>> /\ CheckFunds(posted', pending', held', b)
    BY <1>10 DEF CreateHold
  <2>2. \A a \in Accounts \ {b} : held'[a] = held[a] /\ held[a] \in Nat
    BY <1>10 DEF CreateHold, TypeOK
  <2>3. ASSUME NEW a \in Accounts PROVE Outgoing(posted', pending', held', a) <= MaxAmount
    <3>1. CASE a = b
      BY <2>1, <3>1 DEF CheckFunds
    <3>2. CASE a # b
      <4>1. held'[a] <= held[a] /\ \A s \in Side : posted'[s][a] = posted[s][a] /\ pending'[s][a] <= pending[s][a]
        BY <2>1, <2>2, <3>2 DEF TypeOK, Entries
      <4> QED BY <4>1, FitsStep
    <3> QED BY <3>1, <3>2
  <2> QED BY <2>3 DEF OutgoingFits, Leaving, Outgoing
<1>11. ASSUME NEW h \in HoldKeys, HoldFallsDue(h) PROVE OutgoingFits'
  BY <1>2, <1>11 DEF HoldFallsDue
<1>12. CASE HoldStep
  BY <1>8, <1>9, <1>10, <1>11, <1>12 DEF HoldStep, VoidHold, ExpireHolds
<1> QED BY <1>3, <1>7, <1>12 DEF Next

LEMMA OutgoingFitsHolds == Spec => []OutgoingFits
<1>1. Init => OutgoingFits
  <2> SUFFICES ASSUME Init, NEW a \in Accounts PROVE Leaving(a) <= MaxAmount
    BY DEF OutgoingFits
  <2>1. NormalSide[a] \in Side /\ Opposite(NormalSide[a]) \in Side /\ MaxAmount \in Nat
    BY CoreAssumption DEF Opposite, Side
  <2>2. Leaving(a) = 0
    BY <2>1 DEF Init, NoEntries, Leaving, Outgoing
  <2> QED BY <2>1, <2>2
<1> QED BY <1>1, NextFits, TypeCorrect, PTL DEF Spec

\* What pending holds reserve is held.
LEMMA ReservedIsHeld ==
    ASSUME TypeOK, HeldFunds, NEW S \in SUBSET HoldKeys, \A h \in S : hold[h].status = "pending",
           NEW a \in Accounts
    PROVE  HeldBy(S)[a] <= held[a]
<1> DEFINE f == [h \in HoldKeys |-> Reserved(hold[h], a)]
           all == [h \in HoldKeys |-> IF hold[h].account = a THEN hold[h].amount ELSE 0]
           in == [h \in HoldKeys |-> IF h \in S THEN all[h] ELSE 0]
           out == [h \in HoldKeys |-> IF h \in S THEN 0 ELSE f[h]]
<1>1. \A h \in HoldKeys : in[h] \in Nat /\ out[h] \in Nat /\ f[h] = in[h] + out[h]
  BY DEF Reserved, TypeOK, Hold
<1>2. (\A h \in HoldKeys \ S : in[h] = 0) /\ \A h \in S : in[h] = all[h]
  OBVIOUS
<1>3. HeldBy(S)[a] = SumOf(all, S)
  BY DEF HeldBy
<1>4. held[a] = SumOf(f, HoldKeys)
  BY PendingHoldsIs DEF HeldFunds
<1> HIDE DEF f, all, in, out
<1>5. SumOf(f, HoldKeys) = SumOf(in, HoldKeys) + SumOf(out, HoldKeys)
  BY <1>1, SumPlus, CoreAssumption
<1>6. SumOf(in, HoldKeys) = SumOf(in, S) /\ SumOf(in, S) = SumOf(all, S)
  BY <1>2, SumSupport, SumEqual
<1>7. SumOf(in, HoldKeys) \in Nat /\ SumOf(out, HoldKeys) \in Nat
  BY <1>1, SumType, CoreAssumption
<1> QED BY <1>3, <1>4, <1>5, <1>6, <1>7

\* What a pending transaction has is in the pending totals.
LEMMA PendingIsCounted ==
    ASSUME TypeOK, PendingTotals, NEW k \in Keys, txn[k].status = "pending",
           NEW s \in Side, NEW a \in Accounts
    PROVE  txn[k].entries[s][a] <= pending[s][a]
<1> DEFINE f == [q \in Keys |-> Part(txn[q], "pending", s, a)]
<1>1. \A q \in Keys : f[q] \in Nat
  BY DEF Part, TypeOK, Transaction, Entries
<1>2. f[k] = txn[k].entries[s][a]
  BY DEF Part
<1>3. pending[s][a] = SumOf(f, Keys)
  BY DEF PendingTotals, Moved
<1> HIDE DEF f
<1> QED BY <1>1, <1>2, <1>3, SumBound, CoreAssumption

\* Taking back the entries of a pending transaction passes every check of transition.
LEMMA ArchiveAllowed ==
    ASSUME TypeOK, PendingTotals, OutgoingFits, NEW k \in Keys, txn[k].status = "pending"
    PROVE  Allowed(txn[k].entries, NoEntries, "archived", NoRelease)
<1> DEFINE u == txn[k].entries
           pe == PendingAfter(u, NoEntries, "archived")
<1>1. u \in Entries /\ \A s \in Side : \A a \in Accounts : u[s][a] <= pending[s][a]
  BY PendingIsCounted DEF TypeOK, Transaction
<1> HIDE DEF u
<1>2. PostedAfter(NoEntries, "archived") = posted
  BY DEF PostedAfter, TypeOK, Entries
<1>3. pe \in Entries /\ \A s \in Side : \A a \in Accounts : pe[s][a] <= pending[s][a]
  <2>1. pending \in Entries
    BY DEF TypeOK
  <2>2. ASSUME NEW s \in Side, NEW a \in Accounts
        PROVE  /\ pe[s][a] = pending[s][a] - u[s][a]
               /\ pe[s][a] \in Nat /\ pe[s][a] <= pending[s][a]
    BY <1>1, <2>1 DEF PendingAfter, Entries
  <2> QED BY <2>2 DEF PendingAfter, Entries
<1>4. HeldAfter(NoRelease) = held /\ \A a \in Accounts : NoRelease[a] <= held[a] /\ held[a] <= held[a]
  BY DEF HeldAfter, NoRelease, TypeOK
<1>5. Touched(NoEntries) = {}
  BY DEF Touched, NoEntries
<1>6. Admissible(NoEntries)
  BY <1>5 DEF Admissible, Balanced, NoEntries, Side
<1> HIDE DEF pe
<1>7. \A a \in Accounts : CheckFunds(posted, pe, held, a)
  BY <1>3, <1>4, FallingFunds DEF TypeOK
<1>8. Touched(u) \cup Touched(NoEntries) \cup {b \in Accounts : NoRelease[b] > 0} \subseteq Accounts
  BY DEF Touched
<1>9. Representable(posted, pe, NoEntries)
  BY <1>5 DEF Representable
<1>10. Allowed(u, NoEntries, "archived", NoRelease)
  BY <1>1, <1>2, <1>4, <1>6, <1>7, <1>8, <1>9 DEF Allowed, pe
<1> QED BY <1>10 DEF u

\* Giving back what pending holds reserve passes every check of release.
LEMMA ReleaseAllowed ==
    ASSUME TypeOK, HeldFunds, OutgoingFits, NEW S \in SUBSET HoldKeys,
           \A h \in S : hold[h].status = "pending"
    PROVE  Releasable(S)
<1>1. HeldBy(S) \in [Accounts -> Nat] /\ \A a \in Accounts : HeldBy(S)[a] <= held[a]
  BY HeldByType, ReservedIsHeld DEF TypeOK
<1>2. HeldAfter(HeldBy(S)) \in [Accounts -> Nat] /\ \A a \in Accounts : HeldAfter(HeldBy(S))[a] <= held[a]
  BY <1>1 DEF HeldAfter, TypeOK
<1>3. pending \in Entries /\ \A s \in Side, a \in Accounts : pending[s][a] <= pending[s][a]
  BY DEF TypeOK, Entries
<1>4. \A a \in Accounts : CheckFunds(posted, pending, HeldAfter(HeldBy(S)), a)
  BY <1>2, <1>3, FallingFunds
<1>5. \A h \in S : hold[h].account \in Accounts
  BY DEF TypeOK, Hold
<1> QED BY <1>1, <1>4, <1>5 DEF Releasable

\* Whatever is pending can be let go at any time, on a frozen account too: no check of
\* archiveTransaction, voidHold or expireHolds refuses it.
THEOREM PendingReleasableHolds == Spec => []PendingReleasable
<1>1. Integrity /\ OutgoingFits => PendingReleasable
  <2> SUFFICES ASSUME Integrity, OutgoingFits PROVE PendingReleasable
    OBVIOUS
  <2>1. TypeOK /\ PendingTotals /\ HeldFunds
    BY DEF Integrity, MoneyInv
  <2>2. \A k \in Keys : txn[k].status = "pending" => Allowed(txn[k].entries, NoEntries, "archived", NoRelease)
    BY <2>1, ArchiveAllowed
  <2>3. \A S \in SUBSET {h \in HoldKeys : hold[h].status = "pending"} : Releasable(S)
    BY <2>1, ReleaseAllowed
  <2> QED BY <2>2, <2>3 DEF PendingReleasable
<1> QED BY <1>1, IntegrityHolds, OutgoingFitsHolds, PTL
===============================================================================
