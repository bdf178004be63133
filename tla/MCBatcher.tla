------------------------------- MODULE MCBatcher -------------------------------
(***************************************************************************)
(* Four calls: r1 and r2 use one key for two bodies, on disjoint accounts; *)
(* r3 has another key and shares the account of r1; r4 repeats r1.         *)
(***************************************************************************)
EXTENDS Batcher

CONSTANTS r1, r2, r3, r4, w1, w2

MCKeyOf == (r1 :> "k1") @@ (r2 :> "k1") @@ (r3 :> "k2") @@ (r4 :> "k1")
MCBodyOf == (r1 :> "x") @@ (r2 :> "y") @@ (r3 :> "x") @@ (r4 :> "x")
MCAccountsOf == (r1 :> {"a"}) @@ (r2 :> {"b"}) @@ (r3 :> {"a"}) @@ (r4 :> {"a"})

WorkerSymmetry == Permutations({w1, w2})
===============================================================================
