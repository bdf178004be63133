------------------------------- MODULE MCKernel -------------------------------
(***************************************************************************)
(* Three calls of one key: two send the same request, whose success is a   *)
(* secret, and the third sends another one.  Of the releases, r2 has one   *)
(* script more than r1, and r3 another text of the second.                 *)
(***************************************************************************)
EXTENDS Kernel, TLC

CONSTANTS c1, c2, c3, r1, r2, r3

MCKeyOf == [c \in {c1, c2, c3} |-> "k"]
MCHashOf == c1 :> "x" @@ c2 :> "x" @@ c3 :> "y"

Script(v, text) == [version |-> v, checksum |-> text]
MCReleaseOf ==
    r1 :> <<Script(1, "a"), Script(2, "b")>> @@
    r2 :> <<Script(1, "a"), Script(2, "b"), Script(3, "c")>> @@
    r3 :> <<Script(1, "a"), Script(2, "d")>>
===============================================================================
