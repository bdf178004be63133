----------------------------- MODULE MCPeriodClose -----------------------------
(***************************************************************************)
(* Transactions that post against requests that close and reopen.          *)
(***************************************************************************)
EXTENDS PeriodClose

CONSTANTS p1, c1, c2, c3
===============================================================================
