------------------------------- MODULE MCMonitors -------------------------------
(***************************************************************************)
(* Four batches.  The group b1 has a withdrawal that is refused, a deposit *)
(* and a withdrawal that take the wallet over a limit and back, two        *)
(* repetitions of the key that was refused, and the key of the deposit     *)
(* again, with another body and with the same; b2 works on other accounts  *)
(* and uses that key and its external id; b3 is all or nothing; b4 is a    *)
(* single call that moves the version of the wallet.                       *)
(***************************************************************************)
EXTENDS Monitors, TLC

CONSTANTS d1, d2, d3, q1, q2, q3, q4, q5, q6, q7, b1, b2, b3, b4, m1

Item(key, body, moves) ==
    [valid |-> TRUE, key |-> key, body |-> body, ext |-> NoExternal, refused |-> FALSE, moves |-> moves,
     at |-> <<>>, least |-> <<>>, archive |-> FALSE]

\* Account 1 is the wallet, 2 and 4 may be overdrawn.
Deposit(n) == 1 :> n @@ 2 :> -n
Transfer(n) == 3 :> n @@ 4 :> -n
MCItemOf ==
    d1 :> Item("k1", "d", Deposit(2))
    @@ d2 :> Item("k6", "d", Deposit(1))
    @@ d3 :> Item("k1", "e", Deposit(2))
    @@ q1 :> [Item("k2", "x", Deposit(-3)) EXCEPT !.ext = "e"]
    @@ q2 :> [Item("k3", "x", Deposit(-2)) EXCEPT !.at = 1 :> 1, !.archive = TRUE]
    @@ q3 :> [Item("k2", "y", Deposit(-1)) EXCEPT !.ext = "e"]
    @@ q4 :> [Item("k2", "z", Transfer(1)) EXCEPT !.ext = "e", !.least = 3 :> 1]
    @@ q5 :> [Item("k4", "x", Transfer(2)) EXCEPT !.ext = "e"]
    @@ q6 :> [Item("k5", "x", 3 :> 1) EXCEPT !.refused = TRUE]
    @@ q7 :> [Item("k7", "x", Transfer(1)) EXCEPT !.valid = FALSE]
MCGroupOf ==
    b1 :> [kind |-> "group", items |-> <<q1, d1, q2, q1, q3, d3, d1>>]
    @@ b2 :> [kind |-> "batch", items |-> <<q7, q4, q6, q5>>]
    @@ b3 :> [kind |-> "atomic", items |-> <<d1, q5>>]
    @@ b4 :> [kind |-> "group", items |-> <<d2>>]
MCAlarmOf == m1 :> [purse |-> 1, operator |-> "gte", value |-> 2]
===============================================================================
