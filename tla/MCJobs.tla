-------------------------------- MODULE MCJobs --------------------------------
(***************************************************************************)
(* A bulk request of three items, and a schedule and a client that use the *)
(* key of its second item for another body.                                *)
(***************************************************************************)
EXTENDS Jobs, TLC

CONSTANTS b1, i0, i1, i2, s1, c1

MCRequests == {i0, i1, i2, s1, c1}
MCKeyOf == (i0 :> "k0") @@ (i1 :> "k1") @@ (i2 :> "k2") @@ (s1 :> "k1") @@ (c1 :> "k1")
MCBodyOf == [r \in MCRequests |-> IF r \in {s1, c1} THEN "y" ELSE "x"]
MCTotal == b1 :> 3
MCItemOf == b1 :> (0 :> i0 @@ 1 :> i1 @@ 2 :> i2)
===============================================================================
