------------------------------ MODULE MCServices ------------------------------
(***************************************************************************)
(* Settlements: c1 and c2 are one call, repeated; c3 settles the same      *)
(* account up to a bound, under another key; c4 uses the key of c1 for     *)
(* other accounts.  Categories: g1, g2 and g3 are of one kind, x1 of       *)
(* another ledger, w2 of another currency.  Keys: one of the two admins    *)
(* expires; both requests come to the same instance, as the caches of two  *)
(* instances have nothing to do with each other.  Details: patches that    *)
(* set, replace, extend and remove a member and its parts, and one without *)
(* a name, which is refused.  The batches and the monitor of MCMonitors.   *)
(***************************************************************************)
EXTENDS Services, MCMonitors

CONSTANTS p1, p2, c1, c2, c3, c4, s1, s2, g1, g2, g3, x1, w1, w2, e1, e2, k1, k2, i1, i2, h1, h2, fa, fb, tx, ty

MCTouches ==
    p1 :> {1, 2} @@ p2 :> {2, 3} @@ c1 :> {1, 2} @@ c2 :> {1, 2} @@ c3 :> {1, 2} @@ c4 :> {3, 4}
MCAmountOf == p1 :> (1 :> 2 @@ 2 :> -2) @@ p2 :> (2 :> 1 @@ 3 :> -1)
MCEffectiveOf == p1 :> 1 @@ p2 :> 2
Settle(key, settled, contra, bound) ==
    [key |-> key, settled |-> settled, contra |-> contra, bound |-> bound, text |-> "x"]
MCSettleOf ==
    c1 :> Settle("k", 2, 1, 3) @@ c2 :> Settle("k", 2, 1, 3) @@ c3 :> Settle("j", 2, 1, 2) @@ c4 :> Settle("k", 3, 4, 3)
MCStatementOf == s1 :> [acct |-> 2, from |-> 2, until |-> 3] @@ s2 :> [acct |-> 2, from |-> 1, until |-> 2]

MCLedgerOf == [x \in {g1, g2, g3, x1, w1, w2} |-> IF x = x1 THEN "m" ELSE "l"]
MCCurrencyOf == [x \in {g1, g2, g3, x1, w1, w2} |-> IF x = w2 THEN "eur" ELSE "usd"]
MCBalanceOf == w1 :> 5 @@ w2 :> 1

MCRoleOf == k1 :> "admin" @@ k2 :> "admin"
MCInstanceOf == h1 :> i1 @@ h2 :> i1
MCExpiryOf == k1 :> Never @@ k2 :> MaxTime

Only(f, member) == [NoMembers EXCEPT ![f] = member]
MCPatches ==
    {[name |-> "second", metadata |-> Null],
     [name |-> "", metadata |-> Only(fa, tx)],
     [name |-> Absent, metadata |-> Only(fa, tx)],
     [name |-> Absent, metadata |-> [Only(fa, Only(fb, tx)) EXCEPT ![fb] = ty]],
     [name |-> Absent, metadata |-> Only(fa, [Only(fa, ty) EXCEPT ![fb] = Null])],
     [name |-> "third", metadata |-> Only(fa, Null)]}

\* Two calls of one settlement, two categories of one kind, two callers and two requests
\* are alike; a behaviour has one of these pairs at work, so all are swapped at once.
Swap(x, y) == x :> y @@ y :> x
Same == [x \in {c1, c2, g1, g2, e1, e2, h1, h2} |-> x]
Swaps == {Same, Swap(c1, c2) @@ Swap(g1, g2) @@ Swap(e1, e2) @@ Swap(h1, h2)}
MCSymmetry == Swaps
===============================================================================
