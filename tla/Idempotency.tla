------------------------------ MODULE Idempotency ------------------------------
(***************************************************************************)
(* The middleware of internal/kernel/idempotency: a call claims its key    *)
(* with a token of its own, runs the handler and stores the answer; other  *)
(* calls with the key are turned away or get the stored answer.  A claim   *)
(* that is a minute old may be taken over while the handler of the first   *)
(* call still runs, or after its instance has stopped.                     *)
(*                                                                         *)
(* A call that was turned away or met an error may be repeated by its      *)
(* client, with a new token.  Two calls with one key and one hash are also *)
(* a call whose answer was lost on the way, and the client's repetition.   *)
(* NoCall is the token of a call that is over, which nobody shows again.   *)
(***************************************************************************)
EXTENDS Integers, FiniteSets

CONSTANTS
    Calls,     \* requests of clients that carry an idempotency key
    NoCall,
    KeyOf,     \* call -> its key, with the scope
    HashOf,    \* call -> hash of its method, URI and body
    NoHash,
    Secret,    \* calls whose success is answered with Cache-Control: no-store
    MaxFaults  \* bound on errors of the database, server errors and stopped instances

Keys == {KeyOf[c] : c \in Calls}

ASSUME CallsAssumption ==
    /\ NoCall \notin Calls
    /\ \A c \in Calls : HashOf[c] # NoHash
    /\ Secret \subseteq Calls
    /\ MaxFaults \in Nat

VARIABLES
    row,        \* idempotency_keys: [status, hash, owner, late, answer]
    pc,         \* call -> its progress in Middleware
    answer,     \* call -> what its client was told last
    ran,        \* history: calls whose handler has ended below 500
    overtaken,  \* history: calls whose claim was taken over
    faults,     \* errors and stops so far
    excused     \* history: keys whose claim was taken over or whose row was pruned

vars == <<row, pc, answer, ran, faults, overtaken, excused>>

NoRow == [status |-> "none", hash |-> NoHash, owner |-> NoCall, late |-> FALSE, answer |-> "none"]

Claimed(c, token) ==
    [status |-> "processing", hash |-> HashOf[c], owner |-> token, late |-> FALSE, answer |-> "none"]

\* Answers that a client does not repeat its call after.
Final == {"ok", "rejected", "reused", "done"}

Goto(c, label) == pc' = [pc EXCEPT ![c] = label]
Tell(c, what) == answer' = [answer EXCEPT ![c] = what]
Fault == faults < MaxFaults /\ faults' = faults + 1

-------------------------------------------------------------------------------
(***************************************************************************)
(* claim and resolveExisting.                                              *)
(***************************************************************************)

\* Mutant: a claim may be taken over at once.
TakesOverAtOnce(c) ==
    /\ row[KeyOf[c]].status = "processing"
    /\ row[KeyOf[c]].hash = HashOf[c]

\* Mutant: ON CONFLICT DO NOTHING.
TakesOverNever(c) == FALSE

\* The WHERE of ON CONFLICT DO UPDATE.
TakesOver(c) ==
    /\ row[KeyOf[c]].status = "processing"
    /\ row[KeyOf[c]].hash = HashOf[c]
    /\ row[KeyOf[c]].late

\* The statement claims the key for a token: of c, or NoCall if its answer is lost.
Claims(c, token) ==
    LET k == KeyOf[c]
    IN  /\ row[k] = NoRow \/ TakesOver(c)
        /\ row' = [row EXCEPT ![k] = Claimed(c, token)]
        /\ overtaken' = IF row[k].owner = NoCall THEN overtaken ELSE overtaken \cup {row[k].owner}
        /\ excused' = IF row[k] = NoRow \/ ~row[k].late THEN excused ELSE excused \cup {k}

Claim(c) ==
    /\ pc[c] = "new"
    /\ Claims(c, c)
    /\ Goto(c, "running")
    /\ UNCHANGED <<answer, ran, faults>>

Claimless(c) ==
    /\ pc[c] = "new"
    /\ row[KeyOf[c]] # NoRow /\ ~TakesOver(c)
    /\ Goto(c, "existing")
    /\ UNCHANGED <<row, answer, ran, faults, overtaken, excused>>

\* The statement fails, before it has committed or after.
ClaimFails(c) ==
    /\ pc[c] = "new"
    /\ Fault
    /\ Claims(c, NoCall) \/ UNCHANGED <<row, overtaken, excused>>
    /\ Goto(c, "over")
    /\ Tell(c, "error")
    /\ UNCHANGED ran

\* Mutant: the hash is not compared.
ExistingAnyHash(c) ==
    LET r == row[KeyOf[c]]
    IN  IF r.status = "completed" THEN r.answer ELSE "busy"

\* What resolveExisting answers: by now the row may be gone or completed.
Existing(c) ==
    LET r == row[KeyOf[c]]
    IN  IF r = NoRow THEN "busy"
        ELSE IF r.hash # HashOf[c] THEN "reused"
        ELSE IF r.status = "processing" THEN "busy" ELSE r.answer

ResolveExisting(c) ==
    /\ pc[c] = "existing"
    /\ Tell(c, Existing(c))
    /\ Goto(c, "over")
    /\ UNCHANGED <<row, ran, faults, overtaken, excused>>

\* The lookup fails.
ResolveFails(c) ==
    /\ pc[c] = "existing"
    /\ Fault
    /\ Tell(c, "error")
    /\ Goto(c, "over")
    /\ UNCHANGED <<row, ran, overtaken, excused>>

-------------------------------------------------------------------------------
(***************************************************************************)
(* The handler and finish.                                                 *)
(***************************************************************************)

\* The handler answers its client with success or a refusal.
Handle(c, what) ==
    /\ pc[c] = "running"
    /\ Tell(c, what)
    /\ ran' = ran \cup {c}
    /\ Goto(c, "finishing")
    /\ UNCHANGED <<row, faults, overtaken, excused>>

\* It answers with a server error, or panics.
HandlerFails(c) ==
    /\ pc[c] = "running"
    /\ Fault
    /\ Tell(c, "error")
    /\ Goto(c, "finishing")
    /\ UNCHANGED <<row, ran, overtaken, excused>>

\* A secret is not stored, only that the call is done.
Stored(c) == IF c \in Secret /\ answer[c] = "ok" THEN "done" ELSE answer[c]

\* Mutant: without lock_token in the WHERE.
OwnsAny(c) == row[KeyOf[c]].status = "processing"

Owns(c) == row[KeyOf[c]].owner = c

\* After a server error the key is free again.
Releases(c) == answer[c] = "error"

Finish(c) ==
    LET k == KeyOf[c]
    IN  /\ pc[c] = "finishing"
        /\ row' = [row EXCEPT ![k] =
                      IF ~Owns(c) THEN @
                      ELSE IF Releases(c) THEN NoRow
                      ELSE [@ EXCEPT !.status = "completed", !.answer = Stored(c)]]
        /\ Goto(c, "over")
        /\ UNCHANGED <<answer, ran, faults, overtaken, excused>>

\* The instance stops, or finish fails: the row keeps a token that nobody shows again.
Abandon(c) ==
    LET k == KeyOf[c]
    IN  /\ pc[c] \in {"running", "finishing"}
        /\ Fault
        /\ row' = [row EXCEPT ![k].owner = IF @ = c THEN NoCall ELSE @]
        /\ IF pc[c] = "running" THEN Tell(c, "error") ELSE UNCHANGED answer
        /\ Goto(c, "over")
        /\ UNCHANGED <<ran, overtaken, excused>>

-------------------------------------------------------------------------------
\* lockTimeout passes.
LockTimesOut(k) ==
    /\ row[k].status = "processing" /\ ~row[k].late
    /\ row' = [row EXCEPT ![k].late = TRUE]
    /\ UNCHANGED <<pc, answer, ran, faults, overtaken, excused>>

\* Prune, once retention has passed.
Prune(k) ==
    /\ row[k].status = "completed"
    /\ row' = [row EXCEPT ![k] = NoRow]
    /\ excused' = excused \cup {k}
    /\ UNCHANGED <<pc, answer, ran, faults, overtaken>>

\* The client sends the request again.
Repeat(c) ==
    /\ pc[c] = "over"
    /\ answer[c] \notin Final
    /\ Goto(c, "new")
    /\ UNCHANGED <<row, answer, ran, faults, overtaken, excused>>

Init ==
    /\ row = [k \in Keys |-> NoRow]
    /\ pc = [c \in Calls |-> "new"]
    /\ answer = [c \in Calls |-> "none"]
    /\ faults = 0 /\ ran = {} /\ overtaken = {} /\ excused = {}

\* A call's own steps, and those that an error or a stop takes in their place.
Middleware(c) ==
    \/ Claim(c) \/ Claimless(c) \/ ResolveExisting(c)
    \/ (\E what \in {"ok", "rejected"} : Handle(c, what))
    \/ Finish(c)

Fails(c) == ClaimFails(c) \/ ResolveFails(c) \/ HandlerFails(c) \/ Abandon(c)

Next ==
    \/ \E c \in Calls : Middleware(c) \/ Fails(c) \/ Repeat(c)
    \/ \E k \in Keys : LockTimesOut(k) \/ Prune(k)

Spec == Init /\ [][Next]_vars

-------------------------------------------------------------------------------
(***************************************************************************)
(* Properties.                                                             *)
(***************************************************************************)

Row ==
    [status : {"none", "processing", "completed"}, hash : {HashOf[c] : c \in Calls} \cup {NoHash},
     owner : Calls \cup {NoCall}, late : BOOLEAN, answer : {"none", "ok", "rejected", "done"}]

\* Every variable has its type.
TypeOK ==
    /\ row \in [Keys -> Row]
    /\ pc \in [Calls -> {"new", "existing", "running", "finishing", "over"}]
    /\ answer \in [Calls -> {"none", "busy", "error"} \cup Final]
    /\ faults \in 0..MaxFaults
    /\ ran \subseteq Calls /\ overtaken \subseteq Calls /\ excused \subseteq Keys

\* While a handler runs whose claim was not taken over, the row is its call's: no
\* other call runs, and none that comes late releases or completes it (claim, finish).
Exclusive ==
    \A c \in Calls : pc[c] \in {"running", "finishing"} /\ c \notin overtaken =>
        row[KeyOf[c]].status = "processing" /\ row[KeyOf[c]].owner = c

\* A handler ends below 500 once for a key, however calls and repetitions interleave,
\* unless a claim was taken over or the row was pruned (claim, finish).
RunsOnce ==
    \A c, d \in ran : KeyOf[c] = KeyOf[d] /\ KeyOf[c] \notin excused => c = d

\* A handler runs alone on the row of its key and to an end once, unless a claim was
\* taken over or the row was pruned (claim, finish).
RunsAlone == Exclusive /\ RunsOnce

\* Clients of one key that are told an outcome are told the one of the run, and only if
\* they asked for the same; a secret is told once (resolveExisting, finish).
AnswersAgree ==
    \A c, d \in Calls :
        /\ KeyOf[c] = KeyOf[d] /\ KeyOf[c] \notin excused
        /\ d \in ran /\ answer[c] \in {"ok", "rejected", "done"}
        => /\ HashOf[c] = HashOf[d]
           /\ c = d \/ answer[c] = IF d \in Secret /\ answer[d] = "ok" THEN "done" ELSE answer[d]

\* A client that repeats its call gets an answer in the end, though handlers fail,
\* instances stop and their claims are left behind (claim: the takeover).
EveryAnswered == \A c \in Calls : <>(answer[c] \in Final)
===============================================================================
