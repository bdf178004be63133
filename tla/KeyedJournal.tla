----------------------------- MODULE KeyedJournal -----------------------------
(***************************************************************************)
(* The journal as the background jobs of internal/modules/ledger see it: a *)
(* set of requests is posted in one database transaction (applyRequests),  *)
(* each of them replayed when its key is taken.  The index on the key is   *)
(* UNIQUE and a conflict runs the transaction again (module Batcher), so   *)
(* that what commits has looked the keys up when it commits.  What the     *)
(* ledger refuses (module LedgerCore) is a choice here.                    *)
(***************************************************************************)
CONSTANTS
    Requests,   \* requests to post: of clients, bulk items and schedules
    NoRequest,  \* a key that nothing was posted under
    KeyOf,      \* request -> its idempotency key
    BodyOf      \* request -> what it asks for

Keys == {KeyOf[r] : r \in Requests}

ASSUME JournalAssumption == NoRequest \notin Requests

VARIABLE journal   \* key -> the request whose transaction has the key

Free(r) == journal[KeyOf[r]] = NoRequest

\* The journal has what r asks for.
Posted(r) == ~Free(r) /\ BodyOf[journal[KeyOf[r]]] = BodyOf[r]

\* resolveRequest, when the ledger refuses the requests of bad.
Succeeds(r, bad) == Posted(r) \/ (Free(r) /\ r \notin bad)

\* The journal after the requests of S, whose keys differ, were posted.
After(S, bad) ==
    LET accepted == {r \in S : Free(r) /\ r \notin bad}
    IN  [k \in Keys |-> IF \E r \in accepted : KeyOf[r] = k
                        THEN CHOOSE r \in accepted : KeyOf[r] = k
                        ELSE journal[k]]
===============================================================================
