---------------------------- MODULE PostingService ----------------------------
(***************************************************************************)
(* What posting promises a client of internal/modules/ledger, whatever     *)
(* queues, batches and retries lie between the call and the database:      *)
(* an answer "ok" means that the transaction is in the journal, a refusal  *)
(* or ErrStopped means that this call put nothing there and never will,    *)
(* and a key is written once.  A call that is cancelled, or that fails     *)
(* without a decision of the database, may have been posted; the client    *)
(* finds out by sending the same key again.                                *)
(***************************************************************************)
EXTENDS FiniteSets

CONSTANTS
    Requests,   \* calls of post
    NoRequest,  \* a key that nothing was posted under
    KeyOf,      \* request -> its idempotency key
    BodyOf      \* request -> what it asks for

Keys == {KeyOf[r] : r \in Requests}

VARIABLES
    journal,  \* key -> the request whose transaction has the key
    ret       \* request -> what the call returned

Answers == {"ok", "refused", "failed", "canceled", "stopped"}

Init ==
    /\ journal = [k \in Keys |-> NoRequest]
    /\ ret = [r \in Requests |-> "none"]

\* What the keys hold once the requests of R are posted.
Journal(R) ==
    [k \in Keys |-> IF \E r \in R : KeyOf[r] = k THEN CHOOSE r \in R : KeyOf[r] = k ELSE journal[k]]

\* One database transaction posts the requests of R together.
Write(R) ==
    /\ R # {}
    /\ \A r \in R : ret[r] \in {"none", "canceled"} /\ journal[KeyOf[r]] = NoRequest
    /\ \A r, q \in R : KeyOf[r] = KeyOf[q] => r = q
    /\ journal' = Journal(R)
    /\ UNCHANGED ret

\* The journal has what r asks for, posted by r or by a call with the same key.
Posted(r) ==
    /\ journal[KeyOf[r]] # NoRequest
    /\ BodyOf[journal[KeyOf[r]]] = BodyOf[r]

Return(r, answer) ==
    /\ ret[r] = "none"
    /\ answer = "ok" => Posted(r)
    /\ answer \in {"refused", "stopped"} => journal[KeyOf[r]] # r
    /\ ret' = [ret EXCEPT ![r] = answer]
    /\ UNCHANGED journal

Next ==
    \/ \E R \in SUBSET Requests : Write(R)
    \/ \E r \in Requests, answer \in Answers : Return(r, answer)

Spec == Init /\ [][Next]_<<journal, ret>>
===============================================================================
