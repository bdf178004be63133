------------------------------- MODULE Snapshots -------------------------------
(***************************************************************************)
(* The two parts of the ledger that go by the oldest transaction in        *)
(* progress of PostgreSQL: the sealer, which reads below it, and the close *)
(* of a period, which waits for it.  They share no row, so a behaviour     *)
(* follows one of them, chosen at the start.                               *)
(***************************************************************************)
EXTENDS SealChain, PeriodClose

VARIABLE part   \* what is followed

snapshotVars == <<part, vars, periodVars>>

SnapshotsInit ==
    /\ part \in {"seals", "period"}
    /\ Init
    /\ PeriodInit

SealsPart ==
    /\ part = "seals"
    /\ Next
    /\ UNCHANGED <<part, periodVars>>

PeriodPart ==
    /\ part = "period"
    /\ PeriodNext
    /\ UNCHANGED <<part, vars>>

\* Database transactions end, and some instance keeps sweeping (the ticker of sweep); its
\* calls of seal do not fail for ever.
SealsFairness ==
    /\ \A x \in 1 .. Cardinality(Rows) : WF_vars(part = "seals" /\ EndPosting(x))
    /\ \A s \in Sealers : /\ WF_vars(part = "seals" /\ StoreHighest(s))
                          /\ SF_vars(part = "seals" /\ BeginSeal(s))
                          /\ SF_vars(part = "seals" /\ Choose(s))
                          /\ SF_vars(part = "seals" /\ CommitSeal(s))

\* The fairness of PeriodClose.
ClosersFairness ==
    /\ \A p \in Posters : WF_periodVars(part = "period" /\ (Insert(p) \/ CommitPosting(p) \/ AbortPosting(p)))
    /\ \A c \in Closers : /\ WF_periodVars(part = "period" /\ (CommitClose(c) \/ AbortClose(c)))
                          /\ WF_periodVars(part = "period" /\ Respond(c))

SnapshotsSpec ==
    SnapshotsInit /\ [][SealsPart \/ PeriodPart]_snapshotVars /\ SealsFairness /\ ClosersFairness
===============================================================================
