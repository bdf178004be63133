---------------------------- MODULE MCLedgerCore ----------------------------
(***************************************************************************)
(* A small ledger for TLC: cash (debit-normal, may go negative) and a user *)
(* (credit-normal, overdraft 1) share a book, and an account of another    *)
(* ledger tests the boundary between ledgers.                              *)
(***************************************************************************)
EXTENDS LedgerCore, FiniteSetsExt, TLC

CONSTANTS cash, user, other

Move(d, da, c, ca) ==
    [s \in Side |-> [a \in Accounts |->
        IF s = "debit" /\ a = d THEN da ELSE IF s = "credit" /\ a = c THEN ca ELSE 0]]

\* Keys are interchangeable: nothing compares them but for equality.
Symmetry == Permutations(Keys) \cup Permutations(HoldKeys)

MCAccounts == {cash, user, other}

\* Deposits of 2 and 1, a withdrawal, and two transfers no check should let by:
\* an unbalanced one and one across ledgers.
MCEntryInputs ==
    {Move(cash, 2, user, 2), Move(cash, 1, user, 1), Move(user, 2, cash, 2),
     Move(cash, 2, user, 1), Move(cash, 1, other, 1)}

MCLedgerOf == [a \in MCAccounts |-> IF a = other THEN "l2" ELSE "l1"]
MCCurrencyOf == [a \in MCAccounts |-> "USD"]
MCNormalSide == [a \in MCAccounts |-> IF a = cash THEN "debit" ELSE "credit"]
MCAllowNegative == [a \in MCAccounts |-> a = cash]
MCOverdraftLimit == [a \in MCAccounts |-> IF a = user THEN 1 ELSE 0]

\* The definition of sums by units agrees with the fold of the community modules.
ASSUME SumsAgree ==
    \A f \in [1 .. 3 -> 0 .. 3] : \A S \in SUBSET (1 .. 3) :
        SumOf(f, S) = MapThenSumSet(LAMBDA x : f[x], S)
=============================================================================
