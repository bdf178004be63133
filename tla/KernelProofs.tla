----------------------------- MODULE KernelProofs -----------------------------
(***************************************************************************)
(* What the services of Kernel promise, for any number of calls,           *)
(* deliveries, senders, requests and instances, any releases, rates and    *)
(* bounds.  A step of Kernel is a step of one service and leaves the       *)
(* variables of the others alone, so each has an invariant of its own.     *)
(***************************************************************************)
EXTENDS Kernel, SequenceTheorems, TLAPS

\* A step of the composition is a step of each service, or none of it.
LEMMA StepOfEach ==
    ASSUME [KernelNext]_kernelVars
    PROVE  /\ [Next]_vars
           /\ [DeliveriesNext]_deliveryVars
           /\ [RateStep]_rateVars
           /\ [MigrationsStep]_migrateVars
BY DEF KernelNext, CallsPart, DeliveriesPart, RatesPart, MigrationsPart, kernelVars

-------------------------------------------------------------------------------
(***************************************************************************)
(* Idempotent calls: Exclusive, RunsOnce and AnswersAgree of Idempotency,  *)
(* for any calls, keys and faults.                                         *)
(***************************************************************************)

\* A claim carries the key and the hash of the call that made it.
OwnerClaims ==
    \A k \in Keys : row[k].owner # NoCall =>
        KeyOf[row[k].owner] = k /\ row[k].hash = HashOf[row[k].owner]

\* A row that is not there has nothing in it.
FreeIsNoRow == \A k \in Keys : row[k].status = "none" => row[k] = NoRow

\* A call whose claim was taken over is excused.
OvertakenExcused == \A c \in overtaken : KeyOf[c] \in excused

\* A call that ran has told its client so, and does not come back.
RanIsFinal == \A c \in ran : pc[c] \in {"finishing", "over"} /\ answer[c] \in {"ok", "rejected"}

\* What is about to be stored is the answer of a handler that ran, or an error.
FinishingRan == \A c \in Calls : pc[c] = "finishing" => answer[c] = "error" \/ c \in ran

\* After a run the row stays: with its call until that has finished, then with nobody.
RanHoldsRow ==
    \A c \in ran : KeyOf[c] \notin excused =>
        /\ row[KeyOf[c]].status # "none"
        /\ row[KeyOf[c]].hash = HashOf[c]
        /\ row[KeyOf[c]].owner \in {c, NoCall}
        /\ row[KeyOf[c]].status = "processing" /\ row[KeyOf[c]].owner = c => pc[c] = "finishing"
        /\ row[KeyOf[c]].status = "completed" => row[KeyOf[c]].answer = Stored(c)

\* Whoever was told an outcome was told the one of a run, as a completed row is.
OutcomesRan ==
    /\ \A c \in Calls : answer[c] \in {"ok", "rejected", "done"} /\ KeyOf[c] \notin excused =>
           \E d \in ran : KeyOf[d] = KeyOf[c]
    /\ \A k \in Keys : row[k].status = "completed" /\ k \notin excused => \E d \in ran : KeyOf[d] = k

(***************************************************************************)
(* The inductive invariant: who has the row, what has run, and what was    *)
(* told.                                                                   *)
(***************************************************************************)
ClaimsInv == OwnerClaims /\ FreeIsNoRow /\ OvertakenExcused /\ Exclusive
RunsInv == RanIsFinal /\ FinishingRan /\ RanHoldsRow /\ RunsOnce
Inv == TypeOK /\ ClaimsInv /\ RunsInv /\ OutcomesRan /\ AnswersAgree

-------------------------------------------------------------------------------
\* Nothing is claimed at first.
LEMMA InitInv == Init => Inv
BY CallsAssumption
   DEF Init, Inv, ClaimsInv, RunsInv, TypeOK, Row, OwnerClaims, FreeIsNoRow, OvertakenExcused, Exclusive,
       RanIsFinal, FinishingRan, RanHoldsRow, RunsOnce, OutcomesRan, AnswersAgree, NoRow, Final

\* A claim is new, or takes over the claim of a call that is then excused.
LEMMA ClaimInv ==
    ASSUME Inv, NEW c \in Calls, Claim(c)
    PROVE  Inv'
<1>1. TypeOK'
  BY CallsAssumption
     DEF Inv, TypeOK, Row, Keys, Final, Claim, Claims, TakesOver, Claimed, NoRow, Goto
<1>2. ClaimsInv'
  <2>1. OwnerClaims'
    BY CallsAssumption DEF Inv, TypeOK, Row, Keys, ClaimsInv, OwnerClaims, Claim, Claims, TakesOver,
           Claimed, NoRow, Goto
  <2>2. FreeIsNoRow'
    BY CallsAssumption DEF Inv, TypeOK, Row, Keys, ClaimsInv, FreeIsNoRow, Claim, Claims, TakesOver,
           Claimed, NoRow, Goto
  <2>3. OvertakenExcused'
    BY CallsAssumption DEF Inv, TypeOK, Row, Keys, ClaimsInv, OvertakenExcused, OwnerClaims, Claim, Claims,
           TakesOver, Claimed, NoRow, Goto
  <2>4. Exclusive'
    BY CallsAssumption DEF Inv, TypeOK, Row, Keys, ClaimsInv, Exclusive, Claim, Claims, TakesOver, Claimed,
           NoRow, Goto
  <2> QED BY <2>1, <2>2, <2>3, <2>4 DEF ClaimsInv
<1>3. RunsInv'
  BY CallsAssumption
     DEF Inv, TypeOK, Row, Keys, ClaimsInv, OwnerClaims, FreeIsNoRow, OvertakenExcused,
         Exclusive, RunsInv, RanIsFinal, FinishingRan, RanHoldsRow, RunsOnce, Stored, Claim,
         Claims, TakesOver, Claimed, NoRow, Goto
<1>4. OutcomesRan' /\ AnswersAgree'
  BY CallsAssumption
     DEF Inv, TypeOK, Row, Keys, ClaimsInv, OwnerClaims, FreeIsNoRow, OvertakenExcused,
         Exclusive, RunsInv, RanIsFinal, FinishingRan, RanHoldsRow, RunsOnce, OutcomesRan,
         AnswersAgree, Stored, Claim, Claims, TakesOver, Claimed, NoRow, Goto
<1> QED BY <1>1, <1>2, <1>3, <1>4 DEF Inv

\* A call that does not get the key changes no row.
LEMMA ClaimlessInv ==
    ASSUME Inv, NEW c \in Calls, Claimless(c)
    PROVE  Inv'
<1>1. TypeOK'
  BY CallsAssumption
     DEF Inv, TypeOK, Row, Keys, Final, Claimless, Goto
<1>2. ClaimsInv'
  BY CallsAssumption
     DEF Inv, TypeOK, Row, Keys, ClaimsInv, OwnerClaims, FreeIsNoRow, OvertakenExcused,
         Exclusive, Claimless, Goto
<1>3. RunsInv'
  BY CallsAssumption
     DEF Inv, TypeOK, Row, Keys, ClaimsInv, OwnerClaims, FreeIsNoRow, OvertakenExcused,
         Exclusive, RunsInv, RanIsFinal, FinishingRan, RanHoldsRow, RunsOnce, Stored,
         Claimless, Goto
<1>4. OutcomesRan' /\ AnswersAgree'
  BY CallsAssumption
     DEF Inv, TypeOK, Row, Keys, ClaimsInv, OwnerClaims, FreeIsNoRow, OvertakenExcused,
         Exclusive, RunsInv, RanIsFinal, FinishingRan, RanHoldsRow, RunsOnce, OutcomesRan,
         AnswersAgree, Stored, Claimless, Goto
<1> QED BY <1>1, <1>2, <1>3, <1>4 DEF Inv

\* A claim whose answer is lost belongs to nobody.
LEMMA ClaimFailsInv ==
    ASSUME Inv, NEW c \in Calls, ClaimFails(c)
    PROVE  Inv'
<1>1. TypeOK'
  <2>1. Claimed(c, NoCall) \in Row
    BY CallsAssumption DEF Claimed, Row
  <2>2. row' \in [Keys -> Row]
    BY <2>1 DEF Inv, TypeOK, ClaimFails, Claims, Keys
  <2>3. overtaken' \subseteq Calls /\ excused' \subseteq Keys
    BY DEF Inv, TypeOK, Row, ClaimFails, Claims, Keys
  <2> QED BY <2>2, <2>3, CallsAssumption DEF Inv, TypeOK, ClaimFails, Goto, Tell, Fault
<1>2. ClaimsInv'
  <2>1. OwnerClaims'
    BY CallsAssumption DEF Inv, TypeOK, Row, Keys, ClaimsInv, OwnerClaims, ClaimFails, Claims, TakesOver,
           Claimed, NoRow, Goto, Tell, Fault
  <2>2. FreeIsNoRow'
    <3>1. CASE Claims(c, NoCall)
      BY <3>1 DEF Inv, TypeOK, ClaimsInv, FreeIsNoRow, Claims, Claimed, Keys
    <3>2. CASE UNCHANGED row
      BY <3>2 DEF Inv, ClaimsInv, FreeIsNoRow
    <3> QED BY <3>1, <3>2 DEF ClaimFails
  <2>3. OvertakenExcused'
    BY CallsAssumption DEF Inv, TypeOK, Row, Keys, ClaimsInv, OvertakenExcused, OwnerClaims, ClaimFails,
           Claims, TakesOver, Claimed, NoRow, Goto, Tell, Fault
  <2>4. Exclusive'
    BY CallsAssumption DEF Inv, TypeOK, Row, Keys, ClaimsInv, Exclusive, ClaimFails, Claims, TakesOver,
           Claimed, NoRow, Goto, Tell, Fault
  <2> QED BY <2>1, <2>2, <2>3, <2>4 DEF ClaimsInv
<1>3. RunsInv'
  BY CallsAssumption
     DEF Inv, TypeOK, Row, Keys, ClaimsInv, OwnerClaims, FreeIsNoRow, OvertakenExcused,
         Exclusive, RunsInv, RanIsFinal, FinishingRan, RanHoldsRow, RunsOnce, Stored,
         ClaimFails, Claims, TakesOver, Claimed, NoRow, Goto, Tell, Fault
<1>4. OutcomesRan' /\ AnswersAgree'
  BY CallsAssumption
     DEF Inv, TypeOK, Row, Keys, ClaimsInv, OwnerClaims, FreeIsNoRow, OvertakenExcused,
         Exclusive, RunsInv, RanIsFinal, FinishingRan, RanHoldsRow, RunsOnce, OutcomesRan,
         AnswersAgree, Stored, ClaimFails, Claims, TakesOver, Claimed, NoRow, Goto, Tell,
         Fault
<1> QED BY <1>1, <1>2, <1>3, <1>4 DEF Inv

\* A stored answer is the one of the run, and goes to calls with its hash.
LEMMA ResolveExistingInv ==
    ASSUME Inv, NEW c \in Calls, ResolveExisting(c)
    PROVE  Inv'
<1>1. TypeOK'
  BY CallsAssumption
     DEF Inv, TypeOK, Row, Keys, Final, ResolveExisting, Existing, NoRow, Goto, Tell
<1>2. ClaimsInv'
  BY CallsAssumption
     DEF Inv, TypeOK, Row, Keys, ClaimsInv, OwnerClaims, FreeIsNoRow, OvertakenExcused,
         Exclusive, ResolveExisting, Existing, NoRow, Goto, Tell
<1>3. RunsInv'
  BY CallsAssumption
     DEF Inv, TypeOK, Row, Keys, ClaimsInv, OwnerClaims, FreeIsNoRow, OvertakenExcused,
         Exclusive, RunsInv, RanIsFinal, FinishingRan, RanHoldsRow, RunsOnce, Stored,
         ResolveExisting, Existing, NoRow, Goto, Tell
<1>4. OutcomesRan' /\ AnswersAgree'
  BY CallsAssumption
     DEF Inv, TypeOK, Row, Keys, ClaimsInv, OwnerClaims, FreeIsNoRow, OvertakenExcused,
         Exclusive, RunsInv, RanIsFinal, FinishingRan, RanHoldsRow, RunsOnce, OutcomesRan,
         AnswersAgree, Stored, ResolveExisting, Existing, NoRow, Goto, Tell
<1> QED BY <1>1, <1>2, <1>3, <1>4 DEF Inv

\* An error is no outcome.
LEMMA ResolveFailsInv ==
    ASSUME Inv, NEW c \in Calls, ResolveFails(c)
    PROVE  Inv'
<1>1. TypeOK'
  BY CallsAssumption
     DEF Inv, TypeOK, Row, Keys, Final, ResolveFails, Goto, Tell, Fault
<1>2. ClaimsInv'
  BY CallsAssumption
     DEF Inv, TypeOK, Row, Keys, ClaimsInv, OwnerClaims, FreeIsNoRow, OvertakenExcused,
         Exclusive, ResolveFails, Goto, Tell, Fault
<1>3. RunsInv'
  BY CallsAssumption
     DEF Inv, TypeOK, Row, Keys, ClaimsInv, OwnerClaims, FreeIsNoRow, OvertakenExcused,
         Exclusive, RunsInv, RanIsFinal, FinishingRan, RanHoldsRow, RunsOnce, Stored,
         ResolveFails, Goto, Tell, Fault
<1>4. OutcomesRan' /\ AnswersAgree'
  BY CallsAssumption
     DEF Inv, TypeOK, Row, Keys, ClaimsInv, OwnerClaims, FreeIsNoRow, OvertakenExcused,
         Exclusive, RunsInv, RanIsFinal, FinishingRan, RanHoldsRow, RunsOnce, OutcomesRan,
         AnswersAgree, Stored, ResolveFails, Goto, Tell, Fault
<1> QED BY <1>1, <1>2, <1>3, <1>4 DEF Inv

\* A handler ends while its call has the row, so that no other call of the key has run.
LEMMA HandleInv ==
    ASSUME Inv, NEW c \in Calls, NEW what \in {"ok", "rejected"}, Handle(c, what)
    PROVE  Inv'
<1>1. TypeOK'
  BY CallsAssumption
     DEF Inv, TypeOK, Row, Keys, Final, Handle, Goto, Tell
<1>2. ClaimsInv'
  BY CallsAssumption
     DEF Inv, TypeOK, Row, Keys, ClaimsInv, OwnerClaims, FreeIsNoRow, OvertakenExcused,
         Exclusive, Handle, Goto, Tell
<1>3. RunsInv'
  BY CallsAssumption
     DEF Inv, TypeOK, Row, Keys, ClaimsInv, OwnerClaims, FreeIsNoRow, OvertakenExcused,
         Exclusive, RunsInv, RanIsFinal, FinishingRan, RanHoldsRow, RunsOnce, Stored,
         Handle, Goto, Tell
<1>4. OutcomesRan' /\ AnswersAgree'
  BY CallsAssumption
     DEF Inv, TypeOK, Row, Keys, ClaimsInv, OwnerClaims, FreeIsNoRow, OvertakenExcused,
         Exclusive, RunsInv, RanIsFinal, FinishingRan, RanHoldsRow, RunsOnce, OutcomesRan,
         AnswersAgree, Stored, Handle, Goto, Tell
<1> QED BY <1>1, <1>2, <1>3, <1>4 DEF Inv

\* A call that fails has not run.
LEMMA HandlerFailsInv ==
    ASSUME Inv, NEW c \in Calls, HandlerFails(c)
    PROVE  Inv'
<1>1. TypeOK'
  BY CallsAssumption
     DEF Inv, TypeOK, Row, Keys, Final, HandlerFails, Goto, Tell, Fault
<1>2. ClaimsInv'
  BY CallsAssumption
     DEF Inv, TypeOK, Row, Keys, ClaimsInv, OwnerClaims, FreeIsNoRow, OvertakenExcused,
         Exclusive, HandlerFails, Goto, Tell, Fault
<1>3. RunsInv'
  BY CallsAssumption
     DEF Inv, TypeOK, Row, Keys, ClaimsInv, OwnerClaims, FreeIsNoRow, OvertakenExcused,
         Exclusive, RunsInv, RanIsFinal, FinishingRan, RanHoldsRow, RunsOnce, Stored,
         HandlerFails, Goto, Tell, Fault
<1>4. OutcomesRan' /\ AnswersAgree'
  BY CallsAssumption
     DEF Inv, TypeOK, Row, Keys, ClaimsInv, OwnerClaims, FreeIsNoRow, OvertakenExcused,
         Exclusive, RunsInv, RanIsFinal, FinishingRan, RanHoldsRow, RunsOnce, OutcomesRan,
         AnswersAgree, Stored, HandlerFails, Goto, Tell, Fault
<1> QED BY <1>1, <1>2, <1>3, <1>4 DEF Inv

\* Only the owner of the row completes or releases it.
LEMMA FinishInv ==
    ASSUME Inv, NEW c \in Calls, Finish(c)
    PROVE  Inv'
<1>1. TypeOK'
  <2> DEFINE k == KeyOf[c]
  <2>1. k \in Keys /\ row[k] \in Row
    BY DEF Inv, TypeOK, Keys
  <2>2. ~Releases(c) => Stored(c) \in {"ok", "rejected", "done"}
    BY DEF Inv, RunsInv, RanIsFinal, FinishingRan, Finish, Releases, Stored
  <2>3. ~Releases(c) => [row[k] EXCEPT !.status = "completed", !.answer = Stored(c)] \in Row
    BY <2>1, <2>2 DEF Row
  <2>4. NoRow \in Row
    BY DEF NoRow, Row
  <2>5. row' \in [Keys -> Row]
    BY <2>1, <2>3, <2>4 DEF Inv, TypeOK, Finish
  <2> QED BY <2>5 DEF Inv, TypeOK, Finish, Goto
<1>2. ClaimsInv'
  <2>1. OwnerClaims'
    BY CallsAssumption DEF Inv, TypeOK, Row, Keys, ClaimsInv, OwnerClaims, Finish, Owns, Releases, NoRow,
           Goto
  <2>2. FreeIsNoRow'
    BY CallsAssumption DEF Inv, TypeOK, Row, Keys, ClaimsInv, FreeIsNoRow, Finish, Owns, Releases, NoRow,
           Goto
  <2>3. OvertakenExcused'
    BY CallsAssumption DEF Inv, TypeOK, Row, Keys, ClaimsInv, OvertakenExcused, OwnerClaims, Finish, Owns,
           Releases, NoRow, Goto
  <2>4. Exclusive'
    BY CallsAssumption DEF Inv, TypeOK, Row, Keys, ClaimsInv, Exclusive, Finish, Owns, Releases, NoRow, Goto
  <2> QED BY <2>1, <2>2, <2>3, <2>4 DEF ClaimsInv
<1>3. RunsInv'
  BY CallsAssumption
     DEF Inv, TypeOK, Row, Keys, ClaimsInv, OwnerClaims, FreeIsNoRow, OvertakenExcused,
         Exclusive, RunsInv, RanIsFinal, FinishingRan, RanHoldsRow, RunsOnce, Stored,
         Finish, Owns, Releases, NoRow, Goto
<1>4. OutcomesRan' /\ AnswersAgree'
  BY CallsAssumption
     DEF Inv, TypeOK, Row, Keys, ClaimsInv, OwnerClaims, FreeIsNoRow, OvertakenExcused,
         Exclusive, RunsInv, RanIsFinal, FinishingRan, RanHoldsRow, RunsOnce, OutcomesRan,
         AnswersAgree, Stored, Finish, Owns, Releases, NoRow, Goto
<1> QED BY <1>1, <1>2, <1>3, <1>4 DEF Inv

\* A claim that is left behind belongs to nobody.
LEMMA AbandonInv ==
    ASSUME Inv, NEW c \in Calls, Abandon(c)
    PROVE  Inv'
<1>1. TypeOK'
  <2> DEFINE k == KeyOf[c]
  <2>1. k \in Keys /\ row[k] \in Row
    BY DEF Inv, TypeOK, Keys
  <2>2. [row[k] EXCEPT !.owner = IF @ = c THEN NoCall ELSE @] \in Row
    BY <2>1 DEF Row
  <2>3. row' = [row EXCEPT ![k] = [row[k] EXCEPT !.owner = IF @ = c THEN NoCall ELSE @]]
    BY DEF Abandon
  <2>4. row' \in [Keys -> Row]
    BY <2>1, <2>2, <2>3 DEF Inv, TypeOK
  <2> QED BY <2>4, CallsAssumption DEF Inv, TypeOK, Abandon, Goto, Tell, Fault
<1>2. ClaimsInv'
  <2>1. OwnerClaims'
    BY CallsAssumption DEF Inv, TypeOK, Row, Keys, ClaimsInv, OwnerClaims, Abandon, Goto, Tell, Fault
  <2>2. FreeIsNoRow'
    <3>1. /\ \A k \in Keys : row'[k].status = row[k].status /\ row'[k].hash = row[k].hash
                           /\ row'[k].late = row[k].late /\ row'[k].answer = row[k].answer
          /\ \A k \in Keys : row'[k].owner \in {row[k].owner, NoCall}
      BY DEF Inv, TypeOK, Row, Keys, Abandon
    <3>2. \A k \in Keys : row'[k].status = "none" => row'[k] = NoRow
      BY <1>1, <3>1 DEF Inv, TypeOK, Row, ClaimsInv, FreeIsNoRow, NoRow
    <3> QED BY <3>2 DEF FreeIsNoRow
  <2>3. OvertakenExcused'
    BY CallsAssumption DEF Inv, TypeOK, Row, Keys, ClaimsInv, OvertakenExcused, OwnerClaims, Abandon, Goto,
           Tell, Fault
  <2>4. Exclusive'
    BY CallsAssumption DEF Inv, TypeOK, Row, Keys, ClaimsInv, Exclusive, Abandon, Goto, Tell, Fault
  <2> QED BY <2>1, <2>2, <2>3, <2>4 DEF ClaimsInv
<1>3. RunsInv'
  BY CallsAssumption
     DEF Inv, TypeOK, Row, Keys, ClaimsInv, OwnerClaims, FreeIsNoRow, OvertakenExcused,
         Exclusive, RunsInv, RanIsFinal, FinishingRan, RanHoldsRow, RunsOnce, Stored,
         Abandon, Goto, Tell, Fault
<1>4. OutcomesRan' /\ AnswersAgree'
  BY CallsAssumption
     DEF Inv, TypeOK, Row, Keys, ClaimsInv, OwnerClaims, FreeIsNoRow, OvertakenExcused,
         Exclusive, RunsInv, RanIsFinal, FinishingRan, RanHoldsRow, RunsOnce, OutcomesRan,
         AnswersAgree, Stored, Abandon, Goto, Tell, Fault
<1> QED BY <1>1, <1>2, <1>3, <1>4 DEF Inv

\* A call that ran is not repeated.
LEMMA RepeatInv ==
    ASSUME Inv, NEW c \in Calls, Repeat(c)
    PROVE  Inv'
<1>1. TypeOK'
  BY CallsAssumption
     DEF Inv, TypeOK, Row, Keys, Final, Repeat, Goto, Final
<1>2. ClaimsInv'
  BY CallsAssumption
     DEF Inv, TypeOK, Row, Keys, ClaimsInv, OwnerClaims, FreeIsNoRow, OvertakenExcused,
         Exclusive, Repeat, Goto, Final
<1>3. RunsInv'
  BY CallsAssumption
     DEF Inv, TypeOK, Row, Keys, ClaimsInv, OwnerClaims, FreeIsNoRow, OvertakenExcused,
         Exclusive, RunsInv, RanIsFinal, FinishingRan, RanHoldsRow, RunsOnce, Stored,
         Repeat, Goto, Final
<1>4. OutcomesRan' /\ AnswersAgree'
  BY CallsAssumption
     DEF Inv, TypeOK, Row, Keys, ClaimsInv, OwnerClaims, FreeIsNoRow, OvertakenExcused,
         Exclusive, RunsInv, RanIsFinal, FinishingRan, RanHoldsRow, RunsOnce, OutcomesRan,
         AnswersAgree, Stored, Repeat, Goto, Final
<1> QED BY <1>1, <1>2, <1>3, <1>4 DEF Inv

\* Only the age of a claim changes.
LEMMA LockTimesOutInv ==
    ASSUME Inv, NEW k \in Keys, LockTimesOut(k)
    PROVE  Inv'
<1>1. TypeOK'
  <2>1. row[k] \in Row
    BY DEF Inv, TypeOK
  <2>2. [row[k] EXCEPT !.late = TRUE] \in Row
    BY <2>1 DEF Row
  <2>3. row' \in [Keys -> Row]
    BY <2>2 DEF Inv, TypeOK, LockTimesOut
  <2> QED BY <2>3 DEF Inv, TypeOK, LockTimesOut
<1>2. ClaimsInv'
  BY CallsAssumption
     DEF Inv, TypeOK, Row, Keys, ClaimsInv, OwnerClaims, FreeIsNoRow, OvertakenExcused,
         Exclusive, LockTimesOut
<1>3. RunsInv'
  BY CallsAssumption
     DEF Inv, TypeOK, Row, Keys, ClaimsInv, OwnerClaims, FreeIsNoRow, OvertakenExcused,
         Exclusive, RunsInv, RanIsFinal, FinishingRan, RanHoldsRow, RunsOnce, Stored,
         LockTimesOut
<1>4. OutcomesRan' /\ AnswersAgree'
  BY CallsAssumption
     DEF Inv, TypeOK, Row, Keys, ClaimsInv, OwnerClaims, FreeIsNoRow, OvertakenExcused,
         Exclusive, RunsInv, RanIsFinal, FinishingRan, RanHoldsRow, RunsOnce, OutcomesRan,
         AnswersAgree, Stored, LockTimesOut
<1> QED BY <1>1, <1>2, <1>3, <1>4 DEF Inv

\* A row that is pruned excuses its key.
LEMMA PruneInv ==
    ASSUME Inv, NEW k \in Keys, Prune(k)
    PROVE  Inv'
<1>1. TypeOK'
  BY CallsAssumption
     DEF Inv, TypeOK, Row, Keys, Final, Prune, NoRow
<1>2. ClaimsInv'
  <2>1. OwnerClaims'
    BY CallsAssumption DEF Inv, TypeOK, Row, Keys, ClaimsInv, OwnerClaims, Prune, NoRow
  <2>2. FreeIsNoRow'
    BY CallsAssumption DEF Inv, TypeOK, Row, Keys, ClaimsInv, FreeIsNoRow, Prune, NoRow
  <2>3. OvertakenExcused'
    BY CallsAssumption DEF Inv, TypeOK, Row, Keys, ClaimsInv, OvertakenExcused, OwnerClaims, Prune, NoRow
  <2>4. Exclusive'
    BY CallsAssumption DEF Inv, TypeOK, Row, Keys, ClaimsInv, Exclusive, Prune, NoRow
  <2> QED BY <2>1, <2>2, <2>3, <2>4 DEF ClaimsInv
<1>3. RunsInv'
  BY CallsAssumption
     DEF Inv, TypeOK, Row, Keys, ClaimsInv, OwnerClaims, FreeIsNoRow, OvertakenExcused,
         Exclusive, RunsInv, RanIsFinal, FinishingRan, RanHoldsRow, RunsOnce, Stored, Prune,
         NoRow
<1>4. OutcomesRan' /\ AnswersAgree'
  BY CallsAssumption
     DEF Inv, TypeOK, Row, Keys, ClaimsInv, OwnerClaims, FreeIsNoRow, OvertakenExcused,
         Exclusive, RunsInv, RanIsFinal, FinishingRan, RanHoldsRow, RunsOnce, OutcomesRan,
         AnswersAgree, Stored, Prune, NoRow
<1> QED BY <1>1, <1>2, <1>3, <1>4 DEF Inv

\* The invariant is inductive.
LEMMA NextInv == Inv /\ [Next]_vars => Inv'
<1> SUFFICES ASSUME Inv, [Next]_vars PROVE Inv'
  OBVIOUS
<1>1. CASE UNCHANGED vars
  BY <1>1 DEF vars, Inv, TypeOK, ClaimsInv, OwnerClaims, FreeIsNoRow, OvertakenExcused, Exclusive, RunsInv,
              RanIsFinal, FinishingRan, RanHoldsRow, RunsOnce, OutcomesRan, AnswersAgree, Stored
<1>2. ASSUME NEW c \in Calls, Middleware(c) PROVE Inv'
  BY <1>2, ClaimInv, ClaimlessInv, ResolveExistingInv, HandleInv, FinishInv DEF Middleware
<1>3. ASSUME NEW c \in Calls, Fails(c) PROVE Inv'
  BY <1>3, ClaimFailsInv, ResolveFailsInv, HandlerFailsInv, AbandonInv DEF Fails
<1> QED BY <1>1, <1>2, <1>3, RepeatInv, LockTimesOutInv, PruneInv DEF Next

\* The inductive invariant holds always.
THEOREM InvHolds == Spec => []Inv
BY InitInv, NextInv, PTL DEF Spec

\* The type invariant of the middleware.
THEOREM TypeCorrect == Spec => []TypeOK
<1>1. Inv => TypeOK
  BY DEF Inv
<1> QED BY <1>1, InvHolds, PTL

\* A call that runs its handler has the row of its key, unless its claim was taken
\* over: no other call runs, releases or completes it (claim, finish).
THEOREM ExclusiveHolds == Spec => []Exclusive
<1>1. Inv => Exclusive
  BY DEF Inv, ClaimsInv
<1> QED BY <1>1, InvHolds, PTL

\* A handler ends below 500 once for a key, for any number of calls, repetitions and
\* failures, unless a claim was taken over or the row was pruned.
THEOREM RunsOnceHolds == Spec => []RunsOnce
<1>1. Inv => RunsOnce
  BY DEF Inv, RunsInv
<1> QED BY <1>1, InvHolds, PTL

\* Handlers of a key run alone, and one of them to an end.
THEOREM RunsAloneHolds == Spec => []RunsAlone
<1>1. Exclusive /\ RunsOnce => RunsAlone
  BY DEF RunsAlone
<1> QED BY <1>1, ExclusiveHolds, RunsOnceHolds, PTL

\* Whoever is told an outcome is told the one of the run, asked for the same, and is
\* not shown a secret twice.
THEOREM AnswersAgreeHolds == Spec => []AnswersAgree
<1>1. Inv => AnswersAgree
  BY DEF Inv
<1> QED BY <1>1, InvHolds, PTL

\* The invariant of idempotent calls holds in the composition.
THEOREM CallsInvHolds == KernelSpec => []Inv
<1>1. KernelInit => Inv
  BY InitInv DEF KernelInit
<1>2. Inv /\ [KernelNext]_kernelVars => Inv'
  BY NextInv, StepOfEach
<1> QED BY <1>1, <1>2, PTL DEF KernelSpec

\* So do what it shows: handlers of a key run alone and one of them to an end, and
\* clients are told the outcome of that run.
THEOREM CallsAreSound == KernelSpec => [](RunsAlone /\ AnswersAgree)
<1>1. Inv => RunsAlone /\ AnswersAgree
  BY DEF Inv, ClaimsInv, RunsInv, RunsAlone
<1> QED BY <1>1, CallsInvHolds, PTL

-------------------------------------------------------------------------------
(***************************************************************************)
(* Deliveries.                                                             *)
(***************************************************************************)

DeliveriesTypeOK ==
    /\ delivery \in [Hooks -> [status : {"pending", "succeeded", "failed"}, attempts : Nat, due : BOOLEAN]]
    /\ claim \in [Senders -> [Hooks -> [attempts : Nat, phase : {"none", "claimed", "ok", "error"}]]]
    /\ made \in [Hooks -> Nat]
    /\ accepted \in SUBSET Hooks

\* The count that a claim carries is of attempts that were made, its own one included
\* once it is; and what a sender saw the endpoint accept, it has accepted.
ClaimsEarned ==
    \A i \in Senders, d \in Hooks :
        /\ claim[i][d].phase = "claimed" => claim[i][d].attempts <= made[d]
        /\ claim[i][d].phase \in {"ok", "error"} => claim[i][d].attempts + 1 <= made[d]
        /\ claim[i][d].phase = "ok" => d \in accepted

DeliveriesInv == DeliveriesTypeOK /\ ClaimsEarned /\ OutcomesEarned

\* The invariant holds of new deliveries.
LEMMA DeliveriesInitInv == DeliveriesInit => DeliveriesInv
<1> SUFFICES ASSUME DeliveriesInit PROVE DeliveriesInv
  OBVIOUS
<1>1. NoClaim \in [attempts : Nat, phase : {"none", "claimed", "ok", "error"}] /\ NoClaim.phase = "none"
  BY DEF NoClaim
<1>2. DeliveriesTypeOK
  BY <1>1 DEF DeliveriesInit, DeliveriesTypeOK
<1>3. ClaimsEarned /\ OutcomesEarned
  BY <1>1, DeliveriesAssumption DEF DeliveriesInit, ClaimsEarned, OutcomesEarned
<1> QED BY <1>2, <1>3 DEF DeliveriesInv

\* A claim takes the count of attempts as it is.
LEMMA ClaimDueInv ==
    ASSUME DeliveriesInv, NEW i \in Senders, NEW S \in SUBSET Hooks, ClaimDue(i, S)
    PROVE  DeliveriesInv'
<1>0. /\ DeliveriesTypeOK /\ UNCHANGED <<made, accepted>>
      /\ delivery' = [d \in Hooks |-> IF d \in S THEN [delivery[d] EXCEPT !.due = FALSE] ELSE delivery[d]]
      /\ claim' = [claim EXCEPT ![i] =
             [d \in Hooks |-> IF d \in S THEN [attempts |-> delivery[d].attempts, phase |-> "claimed"] ELSE NoClaim]]
  BY DEF ClaimDue, DeliveriesInv
<1>1. NoClaim \in [attempts : Nat, phase : {"none", "claimed", "ok", "error"}] /\ NoClaim.phase = "none"
  BY DEF NoClaim
<1>2. DeliveriesTypeOK'
  <2>1. delivery' \in [Hooks -> [status : {"pending", "succeeded", "failed"}, attempts : Nat, due : BOOLEAN]]
    BY <1>0 DEF DeliveriesTypeOK
  <2>2. [d \in Hooks |-> IF d \in S THEN [attempts |-> delivery[d].attempts, phase |-> "claimed"] ELSE NoClaim]
            \in [Hooks -> [attempts : Nat, phase : {"none", "claimed", "ok", "error"}]]
    BY <1>0, <1>1 DEF DeliveriesTypeOK
  <2>3. claim' \in [Senders -> [Hooks -> [attempts : Nat, phase : {"none", "claimed", "ok", "error"}]]]
    BY <1>0, <2>2 DEF DeliveriesTypeOK
  <2> QED BY <1>0, <2>1, <2>3 DEF DeliveriesTypeOK
<1>3. \A d \in Hooks : delivery'[d].status = delivery[d].status /\ delivery'[d].attempts = delivery[d].attempts
  BY <1>0 DEF DeliveriesTypeOK
<1>4. OutcomesEarned'
  BY <1>0, <1>3 DEF DeliveriesInv, OutcomesEarned
<1>5. ClaimsEarned'
  <2> SUFFICES ASSUME NEW j \in Senders, NEW d \in Hooks
               PROVE  /\ claim'[j][d].phase = "claimed" => claim'[j][d].attempts <= made[d]
                      /\ claim'[j][d].phase \in {"ok", "error"} => claim'[j][d].attempts + 1 <= made[d]
                      /\ claim'[j][d].phase = "ok" => d \in accepted
    BY <1>0 DEF ClaimsEarned
  <2>1. CASE j # i
    BY <1>0, <2>1 DEF DeliveriesInv, ClaimsEarned, DeliveriesTypeOK
  <2>2. CASE j = i
    <3>1. claim'[i][d] = IF d \in S THEN [attempts |-> delivery[d].attempts, phase |-> "claimed"] ELSE NoClaim
      BY <1>0 DEF DeliveriesTypeOK
    <3> QED BY <1>1, <2>2, <3>1 DEF DeliveriesInv, OutcomesEarned
  <2> QED BY <2>1, <2>2
<1> QED BY <1>2, <1>4, <1>5 DEF DeliveriesInv

\* An attempt is made.
LEMMA PostInv ==
    ASSUME DeliveriesInv, NEW i \in Senders, NEW d \in Hooks,
           NEW taken \in BOOLEAN, NEW reply \in {"ok", "error"}, Post(i, d, taken, reply)
    PROVE  DeliveriesInv'
<1>0. /\ DeliveriesTypeOK /\ delivery' = delivery
      /\ claim[i][d].phase = "claimed" /\ (reply = "ok" => taken)
      /\ made' = [made EXCEPT ![d] = @ + 1]
      /\ accepted' = IF taken THEN accepted \cup {d} ELSE accepted
      /\ claim' = [claim EXCEPT ![i][d].phase = reply]
  BY DEF Post, DeliveriesInv
<1>1. DeliveriesTypeOK'
  <2>1. claim \in [Senders -> [Hooks -> [attempts : Nat, phase : {"none", "claimed", "ok", "error"}]]]
    BY <1>0 DEF DeliveriesTypeOK
  <2>2. [claim[i][d] EXCEPT !.phase = reply] \in [attempts : Nat, phase : {"none", "claimed", "ok", "error"}]
    BY <2>1
  <2>3. [claim[i] EXCEPT ![d] = [claim[i][d] EXCEPT !.phase = reply]]
            \in [Hooks -> [attempts : Nat, phase : {"none", "claimed", "ok", "error"}]]
    BY <2>1, <2>2
  <2>4. claim' = [claim EXCEPT ![i] = [claim[i] EXCEPT ![d] = [claim[i][d] EXCEPT !.phase = reply]]]
    BY <1>0
  <2>5. claim' \in [Senders -> [Hooks -> [attempts : Nat, phase : {"none", "claimed", "ok", "error"}]]]
    BY <2>1, <2>3, <2>4
  <2> QED BY <1>0, <2>5 DEF DeliveriesTypeOK
<1>2. /\ \A h \in Hooks : made[h] \in Nat /\ made'[h] \in Nat /\ made[h] <= made'[h]
      /\ made'[d] = made[d] + 1 /\ accepted \subseteq accepted' /\ (reply = "ok" => d \in accepted')
  BY <1>0 DEF DeliveriesTypeOK
<1>3. OutcomesEarned'
  <2> SUFFICES ASSUME NEW h \in Hooks
               PROVE  /\ delivery[h].status = "failed" => made'[h] >= MaxAttempts
                      /\ delivery[h].status = "succeeded" => h \in accepted'
                      /\ delivery[h].attempts <= made'[h]
    BY <1>0 DEF OutcomesEarned
  <2>1. delivery[h].attempts \in Nat
    BY <1>0 DEF DeliveriesTypeOK
  <2> QED BY <1>2, <2>1, DeliveriesAssumption DEF DeliveriesInv, OutcomesEarned
<1>4. ClaimsEarned'
  <2> SUFFICES ASSUME NEW j \in Senders, NEW h \in Hooks
               PROVE  /\ claim'[j][h].phase = "claimed" => claim'[j][h].attempts <= made'[h]
                      /\ claim'[j][h].phase \in {"ok", "error"} => claim'[j][h].attempts + 1 <= made'[h]
                      /\ claim'[j][h].phase = "ok" => h \in accepted'
    BY DEF ClaimsEarned
  <2>1. claim[j][h].attempts \in Nat /\ claim[j][h].phase \in {"none", "claimed", "ok", "error"}
    BY <1>0 DEF DeliveriesTypeOK
  <2>2. CASE j = i /\ h = d
    <3>1. claim'[j][h].attempts = claim[j][h].attempts /\ claim'[j][h].phase = reply
      BY <1>0, <2>2 DEF DeliveriesTypeOK
    <3>2. claim[j][h].attempts <= made[h]
      BY <1>0, <2>2 DEF DeliveriesInv, ClaimsEarned
    <3> QED BY <1>2, <2>1, <2>2, <3>1, <3>2
  <2>3. CASE j # i \/ h # d
    <3>1. claim'[j][h] = claim[j][h]
      BY <1>0, <2>3 DEF DeliveriesTypeOK
    <3>2. /\ claim[j][h].phase = "claimed" => claim[j][h].attempts <= made[h]
          /\ claim[j][h].phase \in {"ok", "error"} => claim[j][h].attempts + 1 <= made[h]
          /\ claim[j][h].phase = "ok" => h \in accepted
      BY DEF DeliveriesInv, ClaimsEarned
    <3> QED BY <1>2, <2>1, <3>1, <3>2
  <2> QED BY <2>2, <2>3
<1> QED BY <1>1, <1>3, <1>4 DEF DeliveriesInv

\* A claim that ends takes nothing with it.
LEMMA DropClaims ==
    ASSUME DeliveriesTypeOK, ClaimsEarned, NEW i \in Senders, UNCHANGED <<made, accepted>>,
           (\E d \in Hooks : Drop(i, d)) \/ claim' = [claim EXCEPT ![i] = [d \in Hooks |-> NoClaim]]
    PROVE  /\ claim' \in [Senders -> [Hooks -> [attempts : Nat, phase : {"none", "claimed", "ok", "error"}]]]
           /\ ClaimsEarned'
<1>1. NoClaim \in [attempts : Nat, phase : {"none", "claimed", "ok", "error"}] /\ NoClaim.phase = "none"
  BY DEF NoClaim
<1>2. claim \in [Senders -> [Hooks -> [attempts : Nat, phase : {"none", "claimed", "ok", "error"}]]]
  BY DEF DeliveriesTypeOK
<1>3. PICK c \in [Hooks -> [attempts : Nat, phase : {"none", "claimed", "ok", "error"}]] :
          /\ claim' = [claim EXCEPT ![i] = c]
          /\ \A h \in Hooks : c[h] = claim[i][h] \/ c[h] = NoClaim
  <2>1. ASSUME NEW d \in Hooks, Drop(i, d)
        PROVE  \E c \in [Hooks -> [attempts : Nat, phase : {"none", "claimed", "ok", "error"}]] :
                   /\ claim' = [claim EXCEPT ![i] = c]
                   /\ \A h \in Hooks : c[h] = claim[i][h] \/ c[h] = NoClaim
    <3>1. claim' = [claim EXCEPT ![i] = [claim[i] EXCEPT ![d] = NoClaim]]
      BY <2>1 DEF Drop
    <3>2. [claim[i] EXCEPT ![d] = NoClaim] \in [Hooks -> [attempts : Nat, phase : {"none", "claimed", "ok", "error"}]]
      BY <1>1, <1>2
    <3> QED BY <1>2, <3>1, <3>2
  <2>2. CASE claim' = [claim EXCEPT ![i] = [d \in Hooks |-> NoClaim]]
    <3>1. [d \in Hooks |-> NoClaim] \in [Hooks -> [attempts : Nat, phase : {"none", "claimed", "ok", "error"}]]
      BY <1>1
    <3> QED BY <2>2, <3>1
  <2> QED BY <2>1, <2>2
<1>4. claim' \in [Senders -> [Hooks -> [attempts : Nat, phase : {"none", "claimed", "ok", "error"}]]]
  BY <1>2, <1>3
<1>5. \A j \in Senders, h \in Hooks : claim'[j][h] = claim[j][h] \/ claim'[j][h] = NoClaim
  BY <1>2, <1>3
<1> QED BY <1>1, <1>4, <1>5 DEF ClaimsEarned

\* An outcome is recorded: the attempts it counts were made.
LEMMA RecordInv ==
    ASSUME DeliveriesInv, NEW i \in Senders, NEW d \in Hooks, Record(i, d)
    PROVE  DeliveriesInv'
<1> DEFINE n == claim[i][d].attempts + 1
<1>0. /\ DeliveriesTypeOK /\ ClaimsEarned /\ UNCHANGED <<made, accepted>>
      /\ claim[i][d].phase \in {"ok", "error"}
      /\ delivery' = [delivery EXCEPT ![d] =
             IF claim[i][d].phase = "ok" THEN Succeeded(delivery[d], n)
             ELSE IF n >= MaxAttempts THEN GaveUp(delivery[d], n) ELSE ToRetry(delivery[d], n)]
      /\ Drop(i, d)
  BY DEF Record, DeliveriesInv, DeliveriesTypeOK
<1>1. n \in Nat /\ n <= made[d] /\ made[d] \in Nat /\ (claim[i][d].phase = "ok" => d \in accepted)
  BY <1>0 DEF DeliveriesTypeOK, ClaimsEarned
<1>2. claim' \in [Senders -> [Hooks -> [attempts : Nat, phase : {"none", "claimed", "ok", "error"}]]] /\ ClaimsEarned'
  BY <1>0, DropClaims
<1> HIDE DEF n
<1>3. delivery' \in [Hooks -> [status : {"pending", "succeeded", "failed"}, attempts : Nat, due : BOOLEAN]]
  BY <1>0, <1>1 DEF DeliveriesTypeOK, Succeeded, GaveUp, ToRetry
<1>4. DeliveriesTypeOK'
  BY <1>0, <1>2, <1>3 DEF DeliveriesTypeOK
<1>5. OutcomesEarned'
  <2> SUFFICES ASSUME NEW h \in Hooks
               PROVE  /\ delivery'[h].status = "failed" => made[h] >= MaxAttempts
                      /\ delivery'[h].status = "succeeded" => h \in accepted
                      /\ delivery'[h].attempts <= made[h]
    BY <1>0 DEF OutcomesEarned
  <2>1. /\ delivery[h].status = "failed" => made[h] >= MaxAttempts
        /\ delivery[h].status = "succeeded" => h \in accepted
        /\ delivery[h].attempts <= made[h]
    BY DEF DeliveriesInv, OutcomesEarned
  <2>2. CASE h # d
    BY <1>0, <2>1, <2>2 DEF DeliveriesTypeOK
  <2>3. CASE h = d
    <3>0. delivery[d] \in [status : {"pending", "succeeded", "failed"}, attempts : Nat, due : BOOLEAN]
      BY <1>0 DEF DeliveriesTypeOK
    <3>1. CASE claim[i][d].phase = "ok"
      <4>1. delivery'[d].status = "succeeded" /\ delivery'[d].attempts = n
        BY <1>0, <3>0, <3>1 DEF DeliveriesTypeOK, Succeeded
      <4> QED BY <1>1, <2>3, <3>1, <4>1
    <3>2. CASE claim[i][d].phase # "ok" /\ n >= MaxAttempts
      <4>1. delivery'[d] = GaveUp(delivery[d], n)
        BY <1>0, <3>2 DEF DeliveriesTypeOK
      <4>2. made[d] >= MaxAttempts
        BY <1>1, <3>2, DeliveriesAssumption
      <4> QED BY <1>1, <2>1, <2>3, <3>0, <4>1, <4>2 DEF GaveUp
    <3>3. CASE claim[i][d].phase # "ok" /\ ~(n >= MaxAttempts)
      <4>1. delivery'[d] = ToRetry(delivery[d], n)
        BY <1>0, <3>3 DEF DeliveriesTypeOK
      <4>2. delivery'[d].status = delivery[d].status /\ delivery'[d].attempts = n
        BY <3>0, <4>1 DEF ToRetry
      <4> QED BY <1>1, <2>1, <2>3, <4>2
    <3> QED BY <3>1, <3>2, <3>3
  <2> QED BY <2>2, <2>3
<1> QED BY <1>2, <1>4, <1>5 DEF DeliveriesInv

\* The steps that make no attempt and record none.
LEMMA OtherDeliveriesInv ==
    ASSUME DeliveriesInv,
           \/ \E i \in Senders : SenderStops(i) \/ \E d \in Hooks : RecordFails(i, d)
           \/ \E d \in Hooks : FallsDue(d) \/ RetryDelivery(d)
           \/ Toggle
    PROVE  DeliveriesInv'
<1>0. DeliveriesTypeOK /\ ClaimsEarned /\ OutcomesEarned
  BY DEF DeliveriesInv
<1>1. CASE \E i \in Senders : SenderStops(i) \/ \E d \in Hooks : RecordFails(i, d)
  <2>1. UNCHANGED <<delivery, made, accepted>>
    BY <1>1 DEF SenderStops, RecordFails
  <2>2. claim' \in [Senders -> [Hooks -> [attempts : Nat, phase : {"none", "claimed", "ok", "error"}]]] /\ ClaimsEarned'
    BY <1>0, <1>1, <2>1, DropClaims DEF SenderStops, RecordFails
  <2> QED BY <1>0, <2>1, <2>2 DEF DeliveriesInv, DeliveriesTypeOK, OutcomesEarned
<1>2. ASSUME NEW d \in Hooks, FallsDue(d) \/ RetryDelivery(d)
      PROVE  DeliveriesInv'
  <2>1. UNCHANGED <<claim, made, accepted>>
    BY <1>2 DEF FallsDue, RetryDelivery
  <2>2. delivery' \in [Hooks -> [status : {"pending", "succeeded", "failed"}, attempts : Nat, due : BOOLEAN]]
    <3>0. delivery \in [Hooks -> [status : {"pending", "succeeded", "failed"}, attempts : Nat, due : BOOLEAN]]
      BY <1>0 DEF DeliveriesTypeOK
    <3>1. CASE FallsDue(d)
      BY <3>0, <3>1 DEF FallsDue
    <3>2. CASE RetryDelivery(d)
      BY <3>0, <3>2 DEF RetryDelivery
    <3> QED BY <1>2, <3>1, <3>2
  <2>3. \A h \in Hooks : /\ delivery'[h].attempts = delivery[h].attempts
                         /\ delivery'[h].status \in {delivery[h].status, "pending"}
    BY <1>0, <1>2 DEF DeliveriesTypeOK, FallsDue, RetryDelivery
  <2>4. OutcomesEarned'
    BY <1>0, <2>1, <2>3 DEF OutcomesEarned
  <2> QED BY <1>0, <2>1, <2>2, <2>4 DEF DeliveriesInv, DeliveriesTypeOK, ClaimsEarned
<1>3. CASE Toggle
  BY <1>0, <1>3 DEF Toggle, DeliveriesInv, DeliveriesTypeOK, ClaimsEarned, OutcomesEarned
<1> QED BY <1>1, <1>2, <1>3

\* Every step of deliveries keeps their invariant.
LEMMA DeliveriesNextInv == DeliveriesInv /\ [DeliveriesNext]_deliveryVars => DeliveriesInv'
<1> SUFFICES ASSUME DeliveriesInv, [DeliveriesNext]_deliveryVars PROVE DeliveriesInv'
  OBVIOUS
<1>1. CASE \E i \in Senders : Deliver(i)
  <2>1. PICK i \in Senders : Deliver(i)
    BY <1>1
  <2>2. CASE \E S \in SUBSET Hooks : ClaimDue(i, S)
    BY <2>2, ClaimDueInv
  <2>3. CASE \E d \in Hooks : Send(i, d)
    BY <2>3, PostInv, RecordInv DEF Send
  <2> QED BY <2>1, <2>2, <2>3 DEF Deliver
<1>2. CASE UNCHANGED deliveryVars
  BY <1>2 DEF deliveryVars, DeliveriesInv, DeliveriesTypeOK, ClaimsEarned, OutcomesEarned
<1>3. CASE \/ \E i \in Senders : SenderStops(i) \/ \E d \in Hooks : RecordFails(i, d)
           \/ \E d \in Hooks : FallsDue(d) \/ RetryDelivery(d)
           \/ Toggle
  BY <1>3, OtherDeliveriesInv
<1> QED BY <1>1, <1>2, <1>3 DEF DeliveriesNext

\* The invariant of deliveries holds in the composition.
THEOREM DeliveriesInvHolds == KernelSpec => []DeliveriesInv
<1>1. KernelInit => DeliveriesInv
  BY DeliveriesInitInv DEF KernelInit
<1>2. DeliveriesInv /\ [KernelNext]_kernelVars => DeliveriesInv'
  BY DeliveriesNextInv, StepOfEach
<1> QED BY <1>1, <1>2, PTL DEF KernelSpec

\* A delivery is given up only after all of its attempts were made, and is recorded as
\* delivered only when the endpoint has taken it, for any number of deliveries and
\* senders, whatever leases lapse and updates are lost (send).
THEOREM OutcomesEarnedHolds == KernelSpec => []OutcomesEarned
<1>1. DeliveriesInv => OutcomesEarned
  BY DEF DeliveriesInv
<1> QED BY <1>1, DeliveriesInvHolds, PTL

\* A new row for one delivery, whose status is the old one or a move from it, is a step
\* of DeliveryStatus or changes no status.
LEMMA OneMove ==
    ASSUME DeliveriesTypeOK, NEW d \in Hooks, NEW r, delivery' = [delivery EXCEPT ![d] = r],
           r.status \in {"pending", "succeeded", "failed"},
           r.status = delivery[d].status \/ <<delivery[d].status, r.status>> \in Status!Moves
    PROVE  [Status!Next]_([h \in Hooks |-> delivery[h].status])
<1> DEFINE St == [h \in Hooks |-> delivery[h].status]
<1>0. delivery \in [Hooks -> [status : {"pending", "succeeded", "failed"}, attempts : Nat, due : BOOLEAN]]
  BY DEF DeliveriesTypeOK
<1>1. St' = [St EXCEPT ![d] = r.status]
  BY <1>0
<1>2. CASE r.status = delivery[d].status
  <2>1. St' = St
    BY <1>1, <1>2
  <2> QED BY <2>1
<1>3. CASE <<delivery[d].status, r.status>> \in Status!Moves
  <2>1. <<St[d], r.status>> \in Status!Moves
    BY <1>3
  <2>2. Status!Next
    BY <1>1, <2>1 DEF Status!Next
  <2> QED BY <2>2
<1> QED BY <1>2, <1>3

\* A step of deliveries is a step of DeliveryStatus, or changes no status.
LEMMA StatusStep ==
    ASSUME DeliveriesTypeOK, [DeliveriesNext]_deliveryVars
    PROVE  [Status!Next]_([h \in Hooks |-> delivery[h].status])
<1> DEFINE St == [h \in Hooks |-> delivery[h].status]
<1>0. \A h \in Hooks : delivery[h] \in [status : {"pending", "succeeded", "failed"}, attempts : Nat, due : BOOLEAN]
  BY DEF DeliveriesTypeOK
<1>1. CASE delivery' = delivery
  <2>1. St' = St
    BY <1>1
  <2> QED BY <2>1
<1>2. ASSUME NEW i \in Senders, NEW S \in SUBSET Hooks, ClaimDue(i, S)
      PROVE  [Status!Next]_([h \in Hooks |-> delivery[h].status])
  <2>1. \A h \in Hooks : delivery'[h].status = delivery[h].status
    BY <1>0, <1>2 DEF ClaimDue
  <2>2. St' = St
    BY <2>1
  <2> QED BY <2>2
<1>3. ASSUME NEW i \in Senders, NEW d \in Hooks, Record(i, d)
      PROVE  [Status!Next]_([h \in Hooks |-> delivery[h].status])
  <2> DEFINE n == claim[i][d].attempts + 1
             r == IF claim[i][d].phase = "ok" THEN Succeeded(delivery[d], n)
                  ELSE IF n >= MaxAttempts THEN GaveUp(delivery[d], n) ELSE ToRetry(delivery[d], n)
  <2>1. delivery' = [delivery EXCEPT ![d] = r]
    BY <1>3 DEF Record, DeliveriesTypeOK
  <2> HIDE DEF n
  <2>2. /\ r.status \in {"pending", "succeeded", "failed"}
        /\ r.status = delivery[d].status \/ <<delivery[d].status, r.status>> \in Status!Moves
    BY <1>0 DEF Succeeded, GaveUp, ToRetry, Status!Moves
  <2> HIDE DEF r
  <2> QED BY <2>1, <2>2, OneMove
<1>4. ASSUME NEW d \in Hooks, FallsDue(d) \/ RetryDelivery(d)
      PROVE  [Status!Next]_([h \in Hooks |-> delivery[h].status])
  <2>1. CASE FallsDue(d)
    <3>1. delivery' = [delivery EXCEPT ![d] = [delivery[d] EXCEPT !.due = TRUE]]
      BY <2>1 DEF FallsDue
    <3>2. [delivery[d] EXCEPT !.due = TRUE].status = delivery[d].status
      BY <1>0
    <3> QED BY <1>0, <3>1, <3>2, OneMove
  <2>2. CASE RetryDelivery(d)
    <3>1. delivery' = [delivery EXCEPT ![d] = [delivery[d] EXCEPT !.status = "pending", !.due = TRUE]]
      BY <2>2 DEF RetryDelivery
    <3>2. [delivery[d] EXCEPT !.status = "pending", !.due = TRUE].status = "pending"
      BY <1>0
    <3>3. delivery[d].status = "pending" \/ <<delivery[d].status, "pending">> \in Status!Moves
      BY <1>0, <2>2 DEF RetryDelivery, Status!Moves
    <3> QED BY <3>1, <3>2, <3>3, OneMove
  <2> QED BY <1>4, <2>1, <2>2
<1>5. CASE \E i \in Senders, d \in Hooks : \E taken \in BOOLEAN, reply \in {"ok", "error"} : Post(i, d, taken, reply)
  BY <1>1, <1>5 DEF Post
<1>6. CASE (\E i \in Senders : SenderStops(i) \/ \E d \in Hooks : RecordFails(i, d)) \/ Toggle \/ UNCHANGED deliveryVars
  BY <1>1, <1>6 DEF SenderStops, RecordFails, Toggle, deliveryVars
<1> QED BY <1>2, <1>3, <1>4, <1>5, <1>6 DEF DeliveriesNext, Deliver, Send

\* Deliveries implement DeliveryStatus: success is final, though a sender whose lease has
\* lapsed records its failure after it (send; the check of the table).
THEOREM ImplementsHolds == KernelSpec => Implements
<1>1. KernelInit => Status!Init
  BY DEF KernelInit, DeliveriesInit, Status!Init
<1>2. DeliveriesInv /\ [KernelNext]_kernelVars => [Status!Next]_([d \in Hooks |-> delivery[d].status])
  BY StepOfEach, StatusStep DEF DeliveriesInv
<1>3. KernelSpec => [][Status!Next]_([d \in Hooks |-> delivery[d].status])
  BY <1>2, DeliveriesInvHolds, PTL DEF KernelSpec
<1>4. KernelSpec => Status!Init
  BY <1>1, PTL DEF KernelSpec
<1>5. KernelSpec => Status!Spec
  BY <1>3, <1>4, PTL DEF Status!Spec
<1> QED BY <1>5 DEF Implements

-------------------------------------------------------------------------------
(***************************************************************************)
(* Migrations.                                                             *)
(***************************************************************************)

MigrationRow(checksum) == [applied |-> TRUE, checksum |-> checksum]
FileType == [version : Versions, checksum : Checksums]

MigrationsTypeOK ==
    /\ schema \in [Versions -> [applied : BOOLEAN, checksum : Checksums \cup {NoChecksum}]]
    /\ starter \in [Starters -> [step : {"new", "migrating", "refused", "stopped", "up"}, next : Nat \ {0}]]
    /\ scripts \in Seq(FileType)

\* The row of a script that was committed stays as the script left it.
ScriptsRecorded == \A m \in DOMAIN scripts : schema[scripts[m].version] = MigrationRow(scripts[m].checksum)

ScriptsOnce == \A m, n \in DOMAIN scripts : scripts[m].version = scripts[n].version => m = n

\* A row is there since before there were checksums, or a script has come with it.
RowsBacked == \A v \in Versions : schema[v].applied => v \in Legacy \/ \E m \in DOMAIN scripts : scripts[m].version = v

\* What an instance has looked at, it has found or made as its release says.
FilesBehind ==
    \A i \in Starters : \A n \in DOMAIN ReleaseOf[i] :
        starter[i].step = "up" \/ (starter[i].step = "migrating" /\ n < starter[i].next)
        => schema[ReleaseOf[i][n].version] = MigrationRow(ReleaseOf[i][n].checksum)

MigrationsInv == MigrationsTypeOK /\ ScriptsRecorded /\ ScriptsOnce /\ RowsBacked /\ FilesBehind

\* The row that a file leaves, or that has its checksum filled in.
LEMMA RowFields ==
    ASSUME NEW c \in Checksums
    PROVE  /\ MigrationRow(c) \in [applied : BOOLEAN, checksum : Checksums \cup {NoChecksum}]
           /\ MigrationRow(c).applied = TRUE /\ MigrationRow(c).checksum = c
           /\ \A r \in [applied : BOOLEAN, checksum : Checksums \cup {NoChecksum}] :
                  r.applied => [r EXCEPT !.checksum = c] = MigrationRow(c)
<1> DEFINE Rows == [applied : BOOLEAN, checksum : Checksums \cup {NoChecksum}]
<1>1. MigrationRow(c) \in Rows /\ MigrationRow(c).applied = TRUE /\ MigrationRow(c).checksum = c
  BY DEF MigrationRow
<1>2. ASSUME NEW r \in Rows, r.applied
      PROVE  [r EXCEPT !.checksum = c] = MigrationRow(c)
  <2>1. [r EXCEPT !.checksum = c] \in Rows /\ [r EXCEPT !.checksum = c].checksum = c
    OBVIOUS
  <2>2. [r EXCEPT !.checksum = c].applied = TRUE
    BY <1>2
  <2>3. \A x, y \in Rows : x.applied = y.applied /\ x.checksum = y.checksum => x = y
    OBVIOUS
  <2> QED BY <1>1, <2>1, <2>2, <2>3
<1> QED BY <1>1, <1>2

\* The invariant holds before any instance has started.
LEMMA MigrationsInitInv == MigrationsInit => MigrationsInv
<1> SUFFICES ASSUME MigrationsInit PROVE MigrationsInv
  OBVIOUS
<1>1. PICK S \in SUBSET Legacy :
          schema = [v \in Versions |-> IF v \in S THEN [applied |-> TRUE, checksum |-> NoChecksum] ELSE NotApplied]
  BY DEF MigrationsInit
<1>2. /\ starter = [i \in Starters |-> [step |-> "new", next |-> 1]]
      /\ scripts = <<>>
  BY DEF MigrationsInit
<1>3. MigrationsTypeOK
  BY <1>1, <1>2 DEF MigrationsTypeOK, NotApplied
<1>4. RowsBacked
  BY <1>1 DEF RowsBacked, NotApplied
<1>5. FilesBehind
  BY <1>2 DEF FilesBehind
<1>6. ScriptsRecorded /\ ScriptsOnce
  BY <1>2 DEF ScriptsRecorded, ScriptsOnce
<1> QED BY <1>3, <1>4, <1>5, <1>6 DEF MigrationsInv

\* The files of a release, and the one that is next.
LEMMA FileIsTyped ==
    ASSUME NEW i \in Starters
    PROVE  /\ ReleaseOf[i] \in Seq(FileType)
           /\ \A n \in DOMAIN ReleaseOf[i] : ReleaseOf[i][n] \in FileType /\ ReleaseOf[i][n].checksum # NoChecksum
           /\ MigrationsTypeOK /\ Pending(i) => File(i) \in FileType /\ File(i).checksum # NoChecksum
<1>1. ReleaseOf[i] \in Seq(FileType)
  BY MigrationsAssumption DEF FileType
<1>2. \A n \in DOMAIN ReleaseOf[i] : ReleaseOf[i][n] \in FileType
  BY <1>1
<1>3. \A n \in DOMAIN ReleaseOf[i] : ReleaseOf[i][n].checksum # NoChecksum
  BY <1>2, MigrationsAssumption DEF FileType
<1>4. ASSUME MigrationsTypeOK, Pending(i)
      PROVE  starter[i].next \in DOMAIN ReleaseOf[i]
  <2>1. starter[i].next \in Nat \ {0}
    BY <1>4 DEF MigrationsTypeOK
  <2> QED BY <1>1, <1>4, <2>1 DEF Pending
<1> QED BY <1>1, <1>2, <1>3, <1>4 DEF File

\* What a transaction of one file, or none, does to the rows: one that is applied with a
\* checksum stays as it is.
LEMMA RowsAreKept ==
    ASSUME MigrationsTypeOK, NEW i \in Starters, Pending(i),
           ApplyMigration(i) \/ VerifyChecksum(i) \/ UNCHANGED <<schema, scripts>>
    PROVE  /\ schema' \in [Versions -> [applied : BOOLEAN, checksum : Checksums \cup {NoChecksum}]]
           /\ \A v \in Versions : \A c \in Checksums : schema[v] = MigrationRow(c) => schema'[v] = MigrationRow(c)
<1> DEFINE f == File(i)
<1>0. schema \in [Versions -> [applied : BOOLEAN, checksum : Checksums \cup {NoChecksum}]]
  BY DEF MigrationsTypeOK
<1>1. f \in FileType /\ f.checksum # NoChecksum
  BY FileIsTyped
<1> HIDE DEF f
<1>2. CASE ApplyMigration(i)
  <2>1. ~schema[f.version].applied /\ schema' = [schema EXCEPT ![f.version] = MigrationRow(f.checksum)]
    BY <1>2 DEF ApplyMigration, Inserted, MigrationRow, f
  <2>2. f.version \in Versions /\ MigrationRow(f.checksum) \in [applied : BOOLEAN, checksum : Checksums \cup {NoChecksum}]
    BY <1>1, RowFields DEF FileType
  <2>3. \A c \in Checksums : schema[f.version] # MigrationRow(c)
    BY <2>1, RowFields
  <2> QED BY <1>0, <2>1, <2>2, <2>3
<1>3. CASE VerifyChecksum(i)
  <2>1. /\ schema[f.version].applied /\ schema[f.version].checksum \in {NoChecksum, f.checksum}
        /\ schema' = [schema EXCEPT ![f.version] = [schema[f.version] EXCEPT !.checksum = f.checksum]]
    BY <1>3 DEF VerifyChecksum, Inserted, f
  <2>2. [schema[f.version] EXCEPT !.checksum = f.checksum] \in [applied : BOOLEAN, checksum : Checksums \cup {NoChecksum}]
    BY <1>0, <1>1 DEF FileType
  <2>3. ASSUME NEW c \in Checksums, schema[f.version] = MigrationRow(c)
        PROVE  [schema[f.version] EXCEPT !.checksum = f.checksum] = MigrationRow(c)
    <3>1. c = f.checksum
      BY <2>1, <2>3, RowFields, MigrationsAssumption
    <3> QED BY <2>1, <2>3, <3>1, RowFields
  <2> QED BY <1>0, <1>1, <2>1, <2>2, <2>3 DEF FileType
<1> QED BY <1>0, <1>2, <1>3

\* A transaction of one file, or none, keeps what is known of scripts and rows.
LEMMA TransactionKeeps ==
    ASSUME MigrationsInv, NEW i \in Starters, Pending(i),
           ApplyMigration(i) \/ VerifyChecksum(i) \/ UNCHANGED <<schema, scripts>>
    PROVE  scripts' \in Seq(FileType) /\ ScriptsRecorded' /\ ScriptsOnce' /\ RowsBacked'
<1> DEFINE f == File(i)
<1>0. /\ schema \in [Versions -> [applied : BOOLEAN, checksum : Checksums \cup {NoChecksum}]]
      /\ scripts \in Seq(FileType)
      /\ MigrationsTypeOK /\ ScriptsRecorded /\ ScriptsOnce /\ RowsBacked
  BY DEF MigrationsInv, MigrationsTypeOK
<1>1. f \in FileType /\ f.checksum # NoChecksum
  BY <1>0, FileIsTyped
<1>2. \A v \in Versions : \A c \in Checksums : schema[v] = MigrationRow(c) => schema'[v] = MigrationRow(c)
  BY <1>0, RowsAreKept
<1> HIDE DEF f
<1>3. \A m \in DOMAIN scripts : scripts[m] \in FileType
  BY <1>0
<1>4. \A m \in DOMAIN scripts : schema'[scripts[m].version] = MigrationRow(scripts[m].checksum)
  BY <1>0, <1>2, <1>3 DEF ScriptsRecorded, FileType
<1>5. CASE ApplyMigration(i)
  <2>1. /\ ~schema[f.version].applied /\ schema' = [schema EXCEPT ![f.version] = MigrationRow(f.checksum)]
        /\ scripts' = Append(scripts, f)
    BY <1>5 DEF ApplyMigration, Inserted, MigrationRow, f
  <2>2. /\ scripts' \in Seq(FileType)
        /\ DOMAIN scripts' = DOMAIN scripts \cup {Len(scripts) + 1}
        /\ scripts'[Len(scripts) + 1] = f /\ Len(scripts) + 1 \notin DOMAIN scripts
        /\ \A m \in DOMAIN scripts : scripts'[m] = scripts[m]
    BY <1>0, <1>1, <2>1
  <2>3. schema'[f.version] = MigrationRow(f.checksum)
    BY <1>0, <1>1, <2>1 DEF FileType
  <2>4. \A m \in DOMAIN scripts : scripts[m].version # f.version
    <3> SUFFICES ASSUME NEW m \in DOMAIN scripts PROVE scripts[m].version # f.version
      OBVIOUS
    <3>1. scripts[m].checksum \in Checksums
      BY <1>3 DEF FileType
    <3>2. schema[scripts[m].version].applied
      BY <1>0, <3>1, RowFields DEF ScriptsRecorded
    <3> QED BY <2>1, <3>2
  <2>5. ScriptsRecorded'
    BY <1>4, <2>2, <2>3 DEF ScriptsRecorded
  <2>6. ScriptsOnce'
    BY <1>0, <2>2, <2>4 DEF ScriptsOnce
  <2>7. RowsBacked'
    BY <1>0, <1>1, <2>1, <2>2 DEF RowsBacked
  <2> QED BY <2>2, <2>5, <2>6, <2>7
<1>6. CASE VerifyChecksum(i) \/ UNCHANGED <<schema, scripts>>
  <2>1. scripts' = scripts
    BY <1>6 DEF VerifyChecksum
  <2>2. \A v \in Versions : schema'[v].applied = schema[v].applied
    <3>1. CASE VerifyChecksum(i)
      <4>1. schema' = [schema EXCEPT ![f.version] = [schema[f.version] EXCEPT !.checksum = f.checksum]]
        BY <3>1 DEF VerifyChecksum, f
      <4>2. [schema[f.version] EXCEPT !.checksum = f.checksum].applied = schema[f.version].applied
        BY <1>0, <1>1 DEF FileType
      <4> QED BY <1>0, <1>1, <4>1, <4>2 DEF FileType
    <3> QED BY <1>6, <3>1
  <2>3. RowsBacked'
    BY <1>0, <2>1, <2>2 DEF RowsBacked
  <2> QED BY <1>0, <1>4, <2>1, <2>3 DEF ScriptsRecorded, ScriptsOnce
<1> QED BY <1>5, <1>6

\* What an instance has behind it stays there while another one commits a file.
LEMMA OthersBehind ==
    ASSUME MigrationsInv, NEW j \in Starters, NEW n \in DOMAIN ReleaseOf[j],
           \A v \in Versions : \A c \in Checksums : schema[v] = MigrationRow(c) => schema'[v] = MigrationRow(c),
           starter[j].step = "up" \/ (starter[j].step = "migrating" /\ n < starter[j].next)
    PROVE  schema'[ReleaseOf[j][n].version] = MigrationRow(ReleaseOf[j][n].checksum)
<1>1. ReleaseOf[j][n] \in FileType
  BY FileIsTyped
<1>2. schema[ReleaseOf[j][n].version] = MigrationRow(ReleaseOf[j][n].checksum)
  BY DEF MigrationsInv, FilesBehind
<1> QED BY <1>1, <1>2 DEF FileType

\* A file is committed, or found as it should be.
LEMMA MigrateFileInv ==
    ASSUME MigrationsInv, NEW i \in Starters, MigrateFile(i)
    PROVE  MigrationsInv'
<1>0. /\ MigrationsTypeOK /\ Pending(i) /\ (ApplyMigration(i) \/ VerifyChecksum(i))
      /\ starter' = [starter EXCEPT ![i].next = @ + 1]
      /\ starter \in [Starters -> [step : {"new", "migrating", "refused", "stopped", "up"}, next : Nat \ {0}]]
  BY DEF MigrateFile, MigrationsInv, MigrationsTypeOK
<1>1. scripts' \in Seq(FileType) /\ ScriptsRecorded' /\ ScriptsOnce' /\ RowsBacked'
  BY <1>0, TransactionKeeps
<1>2. /\ schema' \in [Versions -> [applied : BOOLEAN, checksum : Checksums \cup {NoChecksum}]]
      /\ \A v \in Versions : \A c \in Checksums : schema[v] = MigrationRow(c) => schema'[v] = MigrationRow(c)
  BY <1>0, RowsAreKept
<1>3. MigrationsTypeOK'
  <2>1. starter' \in [Starters -> [step : {"new", "migrating", "refused", "stopped", "up"}, next : Nat \ {0}]]
    BY <1>0
  <2> QED BY <1>1, <1>2, <2>1 DEF MigrationsTypeOK
<1>4. schema'[File(i).version] = MigrationRow(File(i).checksum)
  <2>0. File(i) \in FileType /\ schema \in [Versions -> [applied : BOOLEAN, checksum : Checksums \cup {NoChecksum}]]
    BY <1>0, FileIsTyped DEF MigrationsTypeOK
  <2>1. CASE ApplyMigration(i)
    BY <2>0, <2>1 DEF ApplyMigration, MigrationRow, FileType
  <2>2. CASE VerifyChecksum(i)
    <3>1. /\ schema[File(i).version].applied
          /\ schema' = [schema EXCEPT ![File(i).version] = [schema[File(i).version] EXCEPT !.checksum = File(i).checksum]]
      BY <2>2 DEF VerifyChecksum, Inserted
    <3>2. schema[File(i).version] \in [applied : BOOLEAN, checksum : Checksums \cup {NoChecksum}] /\ File(i).version \in Versions
      BY <2>0 DEF FileType
    <3>3. [schema[File(i).version] EXCEPT !.checksum = File(i).checksum] = MigrationRow(File(i).checksum)
      BY <2>0, <3>1, <3>2, RowFields DEF FileType
    <3> QED BY <2>0, <3>1, <3>2, <3>3
  <2> QED BY <1>0, <2>1, <2>2
<1>5. FilesBehind'
  <2> SUFFICES ASSUME NEW j \in Starters, NEW n \in DOMAIN ReleaseOf[j],
                      starter'[j].step = "up" \/ (starter'[j].step = "migrating" /\ n < starter'[j].next)
               PROVE  schema'[ReleaseOf[j][n].version] = MigrationRow(ReleaseOf[j][n].checksum)
    BY DEF FilesBehind
  <2>1. CASE starter[j].step = "up" \/ (starter[j].step = "migrating" /\ n < starter[j].next)
    BY <1>2, <2>1, OthersBehind
  <2>2. CASE ~(starter[j].step = "up" \/ (starter[j].step = "migrating" /\ n < starter[j].next))
    <3>1. j = i
      BY <1>0, <2>2
    <3>2. n \in Nat
      BY FileIsTyped
    <3>3. starter'[i].step = starter[i].step /\ starter'[i].next = starter[i].next + 1 /\ starter[i].next \in Nat
      BY <1>0
    <3>4. n = starter[i].next
      BY <2>2, <3>1, <3>2, <3>3
    <3> QED BY <1>4, <3>1, <3>4 DEF File
  <2> QED BY <2>1, <2>2
<1> QED BY <1>1, <1>3, <1>5 DEF MigrationsInv

\* The other steps of an instance put it elsewhere, with nothing more behind it.
LEMMA GoesInv ==
    ASSUME MigrationsInv, NEW i \in Starters,
           NEW step \in {"new", "migrating", "refused", "stopped", "up"}, Goes(i, step),
           step = "up" => starter[i].step = "migrating" /\ starter[i].next > Len(ReleaseOf[i]),
           \/ UNCHANGED <<schema, scripts>>
           \/ Pending(i) /\ (ApplyMigration(i) \/ VerifyChecksum(i))
    PROVE  MigrationsInv'
<1>0. /\ MigrationsTypeOK /\ ScriptsRecorded /\ ScriptsOnce /\ RowsBacked
      /\ starter' = [starter EXCEPT ![i] = [step |-> step, next |-> 1]]
      /\ starter \in [Starters -> [step : {"new", "migrating", "refused", "stopped", "up"}, next : Nat \ {0}]]
  BY DEF MigrationsInv, MigrationsTypeOK, Goes
<1>1. scripts' \in Seq(FileType) /\ ScriptsRecorded' /\ ScriptsOnce' /\ RowsBacked'
  <2>1. CASE UNCHANGED <<schema, scripts>>
    BY <1>0, <2>1 DEF MigrationsTypeOK, ScriptsRecorded, ScriptsOnce, RowsBacked
  <2> QED BY <2>1, TransactionKeeps
<1>2. /\ schema' \in [Versions -> [applied : BOOLEAN, checksum : Checksums \cup {NoChecksum}]]
      /\ \A v \in Versions : \A c \in Checksums : schema[v] = MigrationRow(c) => schema'[v] = MigrationRow(c)
  <2>1. CASE UNCHANGED <<schema, scripts>>
    BY <1>0, <2>1 DEF MigrationsTypeOK
  <2> QED BY <1>0, <2>1, RowsAreKept
<1>3. MigrationsTypeOK'
  <2>1. starter' \in [Starters -> [step : {"new", "migrating", "refused", "stopped", "up"}, next : Nat \ {0}]]
    BY <1>0
  <2> QED BY <1>1, <1>2, <2>1 DEF MigrationsTypeOK
<1>4. FilesBehind'
  <2> SUFFICES ASSUME NEW j \in Starters, NEW n \in DOMAIN ReleaseOf[j],
                      starter'[j].step = "up" \/ (starter'[j].step = "migrating" /\ n < starter'[j].next)
               PROVE  schema'[ReleaseOf[j][n].version] = MigrationRow(ReleaseOf[j][n].checksum)
    BY DEF FilesBehind
  <2>0. n \in 1..Len(ReleaseOf[j]) /\ Len(ReleaseOf[j]) \in Nat
    BY FileIsTyped
  <2>1. starter[j].step = "up" \/ (starter[j].step = "migrating" /\ n < starter[j].next)
    <3>1. CASE j # i
      BY <1>0, <3>1
    <3>2. CASE j = i
      <4>1. starter'[i].step = step /\ starter'[i].next = 1 /\ starter[i].next \in Nat
        BY <1>0
      <4> QED BY <2>0, <3>2, <4>1
    <3> QED BY <3>1, <3>2
  <2> QED BY <1>2, <2>1, OthersBehind
<1> QED BY <1>1, <1>3, <1>4 DEF MigrationsInv

\* Every step of the migrations keeps their invariant.
LEMMA MigrationsNextInv == MigrationsInv /\ [MigrationsStep]_migrateVars => MigrationsInv'
<1> SUFFICES ASSUME MigrationsInv, [MigrationsStep]_migrateVars PROVE MigrationsInv'
  OBVIOUS
<1>1. CASE UNCHANGED migrateVars
  BY <1>1 DEF migrateVars, MigrationsInv, MigrationsTypeOK, ScriptsRecorded, ScriptsOnce, RowsBacked, FilesBehind
<1>2. ASSUME NEW i \in Starters, TakeMigrationLock(i) \/ Mismatch(i) \/ Restart(i)
      PROVE  MigrationsInv'
  BY <1>2, GoesInv DEF TakeMigrationLock, Mismatch, Restart
<1>3. ASSUME NEW i \in Starters, MigrateFile(i)
      PROVE  MigrationsInv'
  BY <1>3, MigrateFileInv
<1>4. ASSUME NEW i \in Starters, MigrationFails(i)
      PROVE  MigrationsInv'
  BY <1>4, GoesInv DEF MigrationFails
<1>5. ASSUME NEW i \in Starters, EndMigrations(i)
      PROVE  MigrationsInv'
  BY <1>5, GoesInv DEF EndMigrations
<1> QED BY <1>1, <1>2, <1>3, <1>4, <1>5 DEF MigrationsStep

\* The invariant of the migrations holds in the composition.
THEOREM MigrationsInvHolds == KernelSpec => []MigrationsInv
<1>1. KernelInit => MigrationsInv
  BY MigrationsInitInv DEF KernelInit
<1>2. MigrationsInv /\ [KernelNext]_kernelVars => MigrationsInv'
  BY MigrationsNextInv, StepOfEach
<1> QED BY <1>1, <1>2, PTL DEF KernelSpec

\* No script runs twice, and an instance that is up has each of its own behind it, with
\* the text its release has, for any releases and any number of instances that start at
\* the same time and stop half way (Migrate).
THEOREM MigratedOnceHolds == KernelSpec => []MigratedOnce
<1>1. MigrationsInv => MigratedOnce
  <2>0. HAVE MigrationsInv
  <2>1. \A m, n \in DOMAIN scripts : scripts[m].version = scripts[n].version => m = n
    BY <2>0 DEF MigrationsInv, ScriptsOnce
  <2>2. ASSUME NEW i \in Starters, starter[i].step = "up", NEW n \in DOMAIN ReleaseOf[i]
        PROVE  \/ \E m \in DOMAIN scripts : scripts[m] = ReleaseOf[i][n]
               \/ /\ ReleaseOf[i][n].version \in Legacy
                  /\ schema[ReleaseOf[i][n].version] = [applied |-> TRUE, checksum |-> ReleaseOf[i][n].checksum]
    <3> DEFINE f == ReleaseOf[i][n]
    <3>1. f \in FileType
      BY FileIsTyped
    <3>2. schema[f.version] = MigrationRow(f.checksum)
      BY <2>0, <2>2 DEF MigrationsInv, FilesBehind
    <3> HIDE DEF f
    <3>3. f.version \in Legacy \/ \E m \in DOMAIN scripts : scripts[m].version = f.version
      BY <2>0, <3>1, <3>2 DEF MigrationsInv, RowsBacked, MigrationRow, FileType
    <3>4. ASSUME NEW m \in DOMAIN scripts, scripts[m].version = f.version
          PROVE  scripts[m] = f
      <4>1. scripts[m] \in FileType
        BY <2>0 DEF MigrationsInv, MigrationsTypeOK
      <4>2. scripts[m].checksum = f.checksum
        <5>1. MigrationRow(scripts[m].checksum) = MigrationRow(f.checksum)
          BY <2>0, <3>2, <3>4 DEF MigrationsInv, ScriptsRecorded
        <5> QED BY <3>1, <4>1, <5>1, RowFields DEF FileType
      <4> QED BY <3>1, <3>4, <4>1, <4>2 DEF FileType
    <3> QED BY <3>2, <3>3, <3>4 DEF MigrationRow, f
  <2> QED BY <2>1, <2>2 DEF MigratedOnce
<1> QED BY <1>1, MigrationsInvHolds, PTL

-------------------------------------------------------------------------------
(***************************************************************************)
(* The rate limiter.                                                       *)
(***************************************************************************)

RateTypeOK ==
    /\ ticks \in Nat
    /\ visit \in [Visits -> [step : {"new", "timed", "served", "limited"}, now : Nat]]
    /\ bucket \in [tokens : Int, last : Nat]
    /\ admitted \in Seq([now : Nat, at : Nat])
    /\ retry \in [at : Int, wait : Int]

\* Requests that wait for the mutex are limited ones, and come with a time of the past.
TimedPast == \A v \in Visits : visit[v].step = "timed" => visit[v].now <= ticks /\ Limited(v)

\* There is a bucket once a request was counted; it holds no more than the burst, and
\* its time is not ahead of the clock.
BucketWithin ==
    /\ bucket = NoBucket => admitted = <<>> /\ retry = NoRetry
    /\ bucket # NoBucket => 0 <= bucket.tokens /\ bucket.tokens <= Full /\ bucket.last <= ticks

\* What the requests from any one on have taken, and what is left, came from the burst
\* and from the refill since the time of that one.
Spent ==
    \A i \in DOMAIN admitted :
        (Len(admitted) - i + 1) * TicksPerSecond + bucket.tokens <= Full + Rate * (bucket.last - admitted[i].now)

\* The bucket is as the last refusal has left it.
RetryKnown ==
    retry # NoRetry =>
        /\ retry.at \in Nat /\ Rate > 0
        /\ bucket # NoBucket /\ bucket.tokens < TicksPerSecond /\ bucket.last <= retry.at
        /\ retry.wait = RetryAfter(bucket)

RateInv == RateTypeOK /\ TimedPast /\ BucketWithin /\ Spent /\ RetryKnown /\ AdmitsWithinRate

\* Products with the rate.
LEMMA RateProducts ==
    ASSUME NEW a \in Int, NEW b \in Int
    PROVE  /\ Rate * a \in Int /\ Rate * (a + b) = Rate * a + Rate * b
           /\ a <= b => Rate * a <= Rate * b
<1>1. Rate \in Nat
  BY RateAssumption
<1>2. Rate * a \in Int /\ Rate * b \in Int /\ Rate * (a + b) = Rate * a + Rate * b
  BY <1>1
<1>3. ASSUME a <= b PROVE Rate * a <= Rate * b
  <2>1. PICK k \in Nat : b = a + k
    <3>1. b - a \in Nat /\ b = a + (b - a)
      BY <1>3
    <3> QED BY <3>1
  <2>2. Rate * k \in Nat /\ Rate * b = Rate * a + Rate * k
    BY <1>1, <2>1
  <2> QED BY <1>2, <2>2
<1> QED BY <1>2, <1>3

\* A token fits into the bucket.
LEMMA FullAtLeastOne == TicksPerSecond \in Nat /\ TicksPerSecond > 0 /\ Full \in Nat /\ TicksPerSecond <= Full
<1>1. Burst \in Nat /\ Burst >= 1 /\ TicksPerSecond \in Nat /\ TicksPerSecond > 0
  BY RateAssumption
<1>2. PICK k \in Nat : Burst = k + 1
  <2>1. Burst - 1 \in Nat /\ Burst = (Burst - 1) + 1
    BY <1>1
  <2> QED BY <2>1
<1>3. Burst * TicksPerSecond = k * TicksPerSecond + TicksPerSecond /\ k * TicksPerSecond \in Nat
  BY <1>1, <1>2
<1> QED BY <1>1, <1>3 DEF Full

\* The bucket as Allow finds it: it gains no more than the refill of the time that its
\* own time moves on, and that is not before the time of the request.
LEMMA BucketFound ==
    ASSUME RateInv, NEW v \in Visits, visit[v].step = "timed"
    PROVE  /\ BucketAt(visit[v].now) \in [tokens : Int, last : Nat]
           /\ 0 <= BucketAt(visit[v].now).tokens /\ BucketAt(visit[v].now).tokens <= Full
           /\ visit[v].now <= BucketAt(visit[v].now).last /\ BucketAt(visit[v].now).last <= ticks
           /\ bucket # NoBucket =>
                BucketAt(visit[v].now).tokens <= bucket.tokens + Rate * (BucketAt(visit[v].now).last - bucket.last)
<1> DEFINE now == visit[v].now
<1>0. /\ now \in Nat /\ now <= ticks /\ ticks \in Nat
      /\ bucket \in [tokens : Int, last : Nat]
      /\ bucket # NoBucket => 0 <= bucket.tokens /\ bucket.tokens <= Full /\ bucket.last <= ticks
  BY DEF RateInv, RateTypeOK, TimedPast, BucketWithin
<1> HIDE DEF now
<1>1. CASE bucket = NoBucket
  <2>1. BucketAt(now) = [tokens |-> Full, last |-> now]
    BY <1>1 DEF BucketAt
  <2> QED BY <1>0, <1>1, <2>1, FullAtLeastOne DEF now
<1>2. CASE bucket # NoBucket /\ now - bucket.last <= 0
  <2>1. BucketAt(now) = bucket
    BY <1>2 DEF BucketAt, Refilled
  <2>2. Rate * (bucket.last - bucket.last) = 0
    BY <1>0, RateAssumption
  <2> QED BY <1>0, <1>2, <2>1, <2>2, FullAtLeastOne DEF now
<1>3. CASE bucket # NoBucket /\ ~(now - bucket.last <= 0)
  <2> DEFINE k == Rate * (now - bucket.last)
             t == bucket.tokens + k
  <2>1. now - bucket.last \in Nat /\ (now - bucket.last) * Rate = k /\ k \in Nat
    BY <1>0, <1>3, RateAssumption
  <2> HIDE DEF k
  <2>2. BucketAt(now) = [tokens |-> IF t > Full THEN Full ELSE t, last |-> now]
    BY <1>3, <2>1 DEF BucketAt, Refilled
  <2>3. BucketAt(now).last = now /\ BucketAt(now).tokens = IF t > Full THEN Full ELSE t
    BY <2>2
  <2> QED BY <1>0, <1>3, <2>1, <2>2, <2>3, FullAtLeastOne DEF now, k
<1> QED BY <1>1, <1>2, <1>3

\* The invariant holds before the first request.
LEMMA RateInitInv == RateInit => RateInv
<1> SUFFICES ASSUME RateInit PROVE RateInv
  OBVIOUS
<1>1. RateTypeOK
  BY DEF RateInit, RateTypeOK, NoBucket, NoRetry
<1>2. TimedPast /\ BucketWithin /\ RetryKnown
  BY DEF RateInit, TimedPast, BucketWithin, RetryKnown
<1>3. Spent /\ AdmitsWithinRate
  BY DEF RateInit, Spent, AdmitsWithinRate
<1> QED BY <1>1, <1>2, <1>3 DEF RateInv

\* The steps that leave the bucket alone.
LEMMA WaitingInv ==
    ASSUME RateInv, Advance \/ (\E v \in Visits : PassThrough(v) \/ TakeTime(v))
    PROVE  RateInv'
<1>0. RateTypeOK /\ TimedPast /\ BucketWithin /\ Spent /\ RetryKnown /\ AdmitsWithinRate
  BY DEF RateInv
<1>1. UNCHANGED <<bucket, admitted, retry>>
  BY DEF Advance, PassThrough, TakeTime
<1>2. ticks \in Nat /\ ticks' \in Nat /\ ticks <= ticks'
  BY <1>0 DEF RateTypeOK, Advance, PassThrough, TakeTime
<1>3. visit' \in [Visits -> [step : {"new", "timed", "served", "limited"}, now : Nat]] /\ TimedPast'
  <2>0. visit \in [Visits -> [step : {"new", "timed", "served", "limited"}, now : Nat]]
    BY <1>0 DEF RateTypeOK
  <2>1. CASE Advance
    BY <1>0, <1>2, <2>0, <2>1 DEF Advance, TimedPast
  <2>2. ASSUME NEW v \in Visits, PassThrough(v)
        PROVE  visit' \in [Visits -> [step : {"new", "timed", "served", "limited"}, now : Nat]] /\ TimedPast'
    BY <1>0, <2>0, <2>2 DEF PassThrough, TimedPast
  <2>3. ASSUME NEW v \in Visits, TakeTime(v)
        PROVE  visit' \in [Visits -> [step : {"new", "timed", "served", "limited"}, now : Nat]] /\ TimedPast'
    BY <1>0, <1>2, <2>0, <2>3 DEF TakeTime, TimedPast
  <2> QED BY <2>1, <2>2, <2>3
<1>4. RateTypeOK'
  BY <1>0, <1>1, <1>2, <1>3 DEF RateTypeOK
<1>5. BucketWithin'
  BY <1>0, <1>1, <1>2 DEF BucketWithin, RateTypeOK
<1>6. Spent' /\ RetryKnown' /\ AdmitsWithinRate'
  BY <1>0, <1>1 DEF Spent, RetryKnown, AdmitsWithinRate, RetryAfter
<1> QED BY <1>3, <1>4, <1>5, <1>6 DEF RateInv

\* A request leaves the mutex.
LEMMA VisitLeaves ==
    ASSUME RateInv, NEW v \in Visits, NEW step \in {"served", "limited"},
           visit' = [visit EXCEPT ![v] = [step |-> step, now |-> 0]], UNCHANGED ticks
    PROVE  visit' \in [Visits -> [step : {"new", "timed", "served", "limited"}, now : Nat]] /\ TimedPast'
BY DEF RateInv, RateTypeOK, TimedPast, Limited

\* The bucket moves on as it is found: what was taken from it is still paid for.
LEMMA SpentAsFound ==
    ASSUME RateInv, NEW v \in Visits, visit[v].step = "timed", NEW i \in DOMAIN admitted
    PROVE  (Len(admitted) - i + 1) * TicksPerSecond + BucketAt(visit[v].now).tokens
               <= Full + Rate * (BucketAt(visit[v].now).last - admitted[i].now)
<1> DEFINE b == BucketAt(visit[v].now)
           k == (Len(admitted) - i + 1) * TicksPerSecond
<1>0. bucket # NoBucket
  BY DEF RateInv, BucketWithin
<1>1. k + bucket.tokens <= Full + Rate * (bucket.last - admitted[i].now)
  BY DEF RateInv, Spent
<1>2. /\ b \in [tokens : Int, last : Nat] /\ b.tokens <= bucket.tokens + Rate * (b.last - bucket.last)
  BY <1>0, BucketFound
<1>3. /\ bucket \in [tokens : Int, last : Nat]
      /\ admitted \in Seq([now : Nat, at : Nat]) /\ i \in 1..Len(admitted) /\ Len(admitted) \in Nat
      /\ admitted[i].now \in Nat
  <2>1. bucket \in [tokens : Int, last : Nat] /\ admitted \in Seq([now : Nat, at : Nat])
    BY DEF RateInv, RateTypeOK
  <2>2. Len(admitted) \in Nat /\ i \in 1..Len(admitted) /\ admitted[i] \in [now : Nat, at : Nat]
    <3>1. Len(admitted) \in Nat /\ DOMAIN admitted = 1..Len(admitted)
      BY <2>1, LenProperties
    <3>2. admitted[i] \in [now : Nat, at : Nat]
      BY <2>1, <3>1, ElementOfSeq
    <3> QED BY <3>1, <3>2
  <2> QED BY <2>1, <2>2
<1>4. k \in Int
  <2>1. Len(admitted) - i + 1 \in Int
    BY <1>3
  <2> QED BY <2>1, FullAtLeastOne
<1> HIDE DEF b, k
<1>5. /\ Rate * (b.last - bucket.last) \in Int /\ Rate * (bucket.last - admitted[i].now) \in Int
      /\ Rate * ((b.last - bucket.last) + (bucket.last - admitted[i].now))
             = Rate * (b.last - bucket.last) + Rate * (bucket.last - admitted[i].now)
  <2>1. b.last - bucket.last \in Int /\ bucket.last - admitted[i].now \in Int
    BY <1>2, <1>3
  <2> QED BY <2>1, RateProducts
<1>6. (b.last - bucket.last) + (bucket.last - admitted[i].now) = b.last - admitted[i].now
  <2>1. b.last \in Int /\ bucket.last \in Int /\ admitted[i].now \in Int
    BY <1>2, <1>3
  <2> QED BY <2>1
<1>7. k + b.tokens <= Full + Rate * (b.last - admitted[i].now)
  <2> DEFINE x == Rate * (b.last - bucket.last)
             y == Rate * (bucket.last - admitted[i].now)
  <2>1. Rate * (b.last - admitted[i].now) = x + y
    BY <1>5, <1>6
  <2>2. x \in Int /\ y \in Int /\ b.tokens \in Int /\ bucket.tokens \in Int /\ Full \in Int
    BY <1>2, <1>3, <1>5, FullAtLeastOne
  <2>3. b.tokens <= bucket.tokens + x /\ k + bucket.tokens <= Full + y
    BY <1>1, <1>2
  <2> HIDE DEF x, y
  <2> QED BY <1>4, <2>1, <2>2, <2>3
<1> QED BY <1>7 DEF b, k

\* A request is admitted.
LEMMA AdmitInv ==
    ASSUME RateInv, NEW v \in Visits, Admit(v)
    PROVE  RateInv'
<1> DEFINE b == BucketAt(visit[v].now)
           now == visit[v].now
           N == Len(admitted)
<1>0. /\ visit[v].step = "timed" /\ b.tokens >= TicksPerSecond
      /\ bucket' = [b EXCEPT !.tokens = @ - TicksPerSecond]
      /\ visit' = [visit EXCEPT ![v] = [step |-> "served", now |-> 0]]
      /\ admitted' = Append(admitted, [now |-> now, at |-> ticks])
      /\ retry' = NoRetry /\ UNCHANGED ticks
  BY DEF Admit
<1>1. /\ b \in [tokens : Int, last : Nat] /\ b.tokens <= Full
      /\ now <= b.last /\ b.last <= ticks
  BY <1>0, BucketFound
<1>2. \A i \in DOMAIN admitted : (N - i + 1) * TicksPerSecond + b.tokens <= Full + Rate * (b.last - admitted[i].now)
  BY <1>0, SpentAsFound
<1>3. ticks \in Nat /\ now \in Nat /\ admitted \in Seq([now : Nat, at : Nat]) /\ AdmitsWithinRate
  BY DEF RateInv, RateTypeOK
<1> HIDE DEF b, now
<1>4. /\ N \in Nat /\ DOMAIN admitted = 1..N
      /\ \A i \in 1..N : admitted[i] \in [now : Nat, at : Nat]
  BY <1>3, LenProperties, ElementOfSeq
<1>5. /\ admitted' \in Seq([now : Nat, at : Nat]) /\ Len(admitted') = N + 1 /\ DOMAIN admitted' = 1..(N + 1)
      /\ \A i \in 1..N : admitted'[i] = admitted[i]
      /\ admitted'[N + 1] = [now |-> now, at |-> ticks]
  BY <1>0, <1>3, <1>4
<1> HIDE DEF N
<1>6. /\ bucket' \in [tokens : Int, last : Nat] /\ bucket' # NoBucket
      /\ bucket'.tokens = b.tokens - TicksPerSecond /\ bucket'.last = b.last
      /\ 0 <= bucket'.tokens /\ bucket'.tokens <= Full
  <2>1. bucket' = [b EXCEPT !.tokens = b.tokens - TicksPerSecond]
    BY <1>0
  <2>2. b.tokens - TicksPerSecond \in Int /\ 0 <= b.tokens - TicksPerSecond /\ b.tokens - TicksPerSecond <= Full
    BY <1>0, <1>1, FullAtLeastOne
  <2>3. /\ bucket' \in [tokens : Int, last : Nat]
        /\ bucket'.tokens = b.tokens - TicksPerSecond /\ bucket'.last = b.last
    BY <1>1, <2>1, <2>2
  <2>4. bucket' # NoBucket
    BY <2>2, <2>3 DEF NoBucket
  <2> QED BY <2>2, <2>3, <2>4
<1>7. RateTypeOK' /\ TimedPast'
  <2>1. visit' \in [Visits -> [step : {"new", "timed", "served", "limited"}, now : Nat]] /\ TimedPast'
    BY <1>0, VisitLeaves
  <2>2. retry' \in [at : Int, wait : Int]
    BY <1>0 DEF NoRetry
  <2> QED BY <1>0, <1>3, <1>5, <1>6, <2>1, <2>2 DEF RateTypeOK
<1>8. BucketWithin' /\ RetryKnown'
  BY <1>0, <1>1, <1>6 DEF BucketWithin, RetryKnown
<1>9. ASSUME NEW i \in 1..(N + 1)
      PROVE  /\ ((N + 1) - i + 1) * TicksPerSecond + bucket'.tokens <= Full + Rate * (b.last - admitted'[i].now)
             /\ admitted'[i].now \in Nat
  <2>1. CASE i = N + 1
    <3>1. admitted'[i].now = now
      BY <1>5, <2>1
    <3>2. ((N + 1) - i + 1) * TicksPerSecond = TicksPerSecond
      BY <1>4, <2>1, FullAtLeastOne
    <3>3. Rate * (b.last - now) \in Int /\ 0 <= Rate * (b.last - now)
      <4>1. b.last - now \in Nat
        BY <1>1, <1>3
      <4> QED BY <4>1, RateAssumption
    <3> QED BY <1>1, <1>3, <1>6, <3>1, <3>2, <3>3, FullAtLeastOne
  <2>2. CASE i \in 1..N
    <3>1. admitted'[i] = admitted[i] /\ admitted[i] \in [now : Nat, at : Nat]
      BY <1>4, <1>5, <2>2
    <3>2. /\ ((N + 1) - i + 1) * TicksPerSecond = (N - i + 1) * TicksPerSecond + TicksPerSecond
          /\ (N - i + 1) * TicksPerSecond \in Int
      BY <1>4, <2>2, FullAtLeastOne
    <3>3. Rate * (b.last - admitted[i].now) \in Int
      BY <1>1, <3>1, RateAssumption
    <3>4. (N - i + 1) * TicksPerSecond + b.tokens <= Full + Rate * (b.last - admitted[i].now)
      BY <1>2, <1>4, <2>2
    <3>5. ((N + 1) - i + 1) * TicksPerSecond + bucket'.tokens = (N - i + 1) * TicksPerSecond + b.tokens
      BY <1>1, <1>6, <3>2, FullAtLeastOne
    <3> QED BY <3>1, <3>4, <3>5
  <2> QED BY <1>4, <2>1, <2>2
<1>10. Spent'
  BY <1>5, <1>6, <1>9 DEF Spent
<1>11. AdmitsWithinRate'
  <2> SUFFICES ASSUME NEW i \in 1..(N + 1), NEW j \in 1..(N + 1), i <= j
               PROVE  (j - i + 1) * TicksPerSecond <= Full + Rate * (admitted'[j].at - admitted'[i].now)
    BY <1>5 DEF AdmitsWithinRate
  <2>1. CASE j \in 1..N
    <3>1. i \in 1..N
      BY <1>4, <2>1
    <3> QED BY <1>3, <1>4, <1>5, <2>1, <3>1 DEF AdmitsWithinRate
  <2>2. CASE j = N + 1
    <3>1. admitted'[j].at = ticks
      BY <1>5, <2>2
    <3>2. /\ b.last - admitted'[i].now \in Int /\ ticks - admitted'[i].now \in Int
          /\ b.last - admitted'[i].now <= ticks - admitted'[i].now
      BY <1>1, <1>3, <1>9
    <3>3. /\ Rate * (b.last - admitted'[i].now) \in Int /\ Rate * (ticks - admitted'[i].now) \in Int
          /\ Rate * (b.last - admitted'[i].now) <= Rate * (ticks - admitted'[i].now)
      BY <3>2, RateProducts
    <3>4. (j - i + 1) * TicksPerSecond + bucket'.tokens <= Full + Rate * (b.last - admitted'[i].now)
      BY <1>9, <2>2
    <3>5. (j - i + 1) * TicksPerSecond \in Int
      BY <1>4, FullAtLeastOne
    <3> QED BY <1>6, <3>1, <3>3, <3>4, <3>5, FullAtLeastOne
  <2> QED BY <1>4, <2>1, <2>2
<1> QED BY <1>7, <1>8, <1>10, <1>11 DEF RateInv

\* A request is refused.
LEMMA DenyInv ==
    ASSUME RateInv, NEW v \in Visits, Deny(v)
    PROVE  RateInv'
<1> DEFINE b == BucketAt(visit[v].now)
<1>0. /\ visit[v].step = "timed" /\ b.tokens < TicksPerSecond
      /\ bucket' = b
      /\ visit' = [visit EXCEPT ![v] = [step |-> "limited", now |-> 0]]
      /\ retry' = [at |-> ticks, wait |-> RetryAfter(b)] /\ UNCHANGED <<ticks, admitted>>
  BY DEF Deny
<1>1. /\ b \in [tokens : Int, last : Nat] /\ 0 <= b.tokens /\ b.tokens <= Full /\ b.last <= ticks
  BY <1>0, BucketFound
<1>2. \A i \in DOMAIN admitted :
          (Len(admitted) - i + 1) * TicksPerSecond + b.tokens <= Full + Rate * (b.last - admitted[i].now)
  BY <1>0, SpentAsFound
<1>3. ticks \in Nat /\ admitted \in Seq([now : Nat, at : Nat]) /\ AdmitsWithinRate
  BY DEF RateInv, RateTypeOK
<1>4. Rate \in Nat /\ Rate > 0
  BY <1>0, RateAssumption DEF RateInv, TimedPast, Limited
<1> HIDE DEF b
<1>5. RetryAfter(b) \in Int
  <2>1. (TicksPerSecond - b.tokens) \div Rate \in Int
    BY <1>1, <1>4, FullAtLeastOne
  <2> QED BY <2>1, FullAtLeastOne DEF RetryAfter, CeilDiv
<1>6. RateTypeOK' /\ TimedPast'
  <2>1. visit' \in [Visits -> [step : {"new", "timed", "served", "limited"}, now : Nat]] /\ TimedPast'
    BY <1>0, VisitLeaves
  <2>2. retry' \in [at : Int, wait : Int]
    BY <1>0, <1>3, <1>5
  <2> QED BY <1>0, <1>1, <1>3, <2>1, <2>2 DEF RateTypeOK
<1>7. b # NoBucket
  BY <1>1 DEF NoBucket
<1>8. BucketWithin' /\ RetryKnown'
  BY <1>0, <1>1, <1>3, <1>4, <1>7 DEF BucketWithin, RetryKnown, RetryAfter
<1>9. Spent' /\ AdmitsWithinRate'
  BY <1>0, <1>2, <1>3 DEF Spent, AdmitsWithinRate
<1> QED BY <1>6, <1>8, <1>9 DEF RateInv

\* Every step of the rate limiter keeps its invariant.
LEMMA RateNextInv == RateInv /\ [RateStep]_rateVars => RateInv'
<1> SUFFICES ASSUME RateInv, [RateStep]_rateVars PROVE RateInv'
  OBVIOUS
<1>1. CASE UNCHANGED rateVars
  BY <1>1 DEF rateVars, RateInv, RateTypeOK, TimedPast, BucketWithin, Spent, RetryKnown, RetryAfter, AdmitsWithinRate
<1> QED BY <1>1, WaitingInv, AdmitInv, DenyInv DEF RateStep

\* The invariant of the rate limiter holds in the composition.
THEOREM RateInvHolds == KernelSpec => []RateInv
<1>1. KernelInit => RateInv
  BY RateInitInv DEF KernelInit
<1>2. RateInv /\ [KernelNext]_kernelVars => RateInv'
  BY RateNextInv, StepOfEach
<1> QED BY <1>1, <1>2, PTL DEF KernelSpec

\* From the moment a request has come, no more requests of its key are admitted than the
\* burst and what the rate allows, for any rate, burst and clock, and any number of
\* requests that wait for the mutex (Allow).
THEOREM AdmitsWithinRateHolds == KernelSpec => []AdmitsWithinRate
<1>1. RateInv => AdmitsWithinRate
  BY DEF RateInv
<1> QED BY <1>1, RateInvHolds, PTL

\* Division, and division rounded up.
LEMMA DivBounds ==
    ASSUME NEW n \in Nat, NEW d \in Nat \ {0}
    PROVE  n \div d \in Nat /\ (n \div d) * d <= n /\ n < (n \div d) * d + d
OBVIOUS

LEMMA CeilDivBounds ==
    ASSUME NEW n \in Nat, NEW d \in Nat \ {0}
    PROVE  CeilDiv(n, d) \in Nat /\ CeilDiv(n, d) * d >= n /\ (n > 0 => CeilDiv(n, d) > 0)
<1>1. n + d - 1 \in Nat
  OBVIOUS
<1>2. CeilDiv(n, d) \in Nat /\ n + d - 1 < CeilDiv(n, d) * d + d
  BY <1>1, DivBounds DEF CeilDiv
<1>3. CeilDiv(n, d) = 0 => CeilDiv(n, d) * d = 0
  OBVIOUS
<1> QED BY <1>2, <1>3

LEMMA TimesMonotone ==
    ASSUME NEW r \in Nat, NEW a \in Nat, NEW b \in Nat, a <= b
    PROVE  a * r \in Nat /\ b * r \in Nat /\ a * r <= b * r
<1>1. PICK k \in Nat : b = a + k
  <2>1. b - a \in Nat /\ b = a + (b - a)
    OBVIOUS
  <2> QED BY <2>1
<1>2. b * r = a * r + k * r /\ k * r \in Nat /\ a * r \in Nat
  BY <1>1
<1> QED BY <1>2

\* The wait that a refusal names refills what is missing of a token, if at least one
\* tick passes: the Duration is cut to whole ticks, so that it falls short of the missing
\* part by up to a tick, and rounding it up to seconds makes good for that, or there is
\* nothing to make good for.
LEMMA WaitIsEnough ==
    ASSUME NEW b \in [tokens : Int, last : Nat], 0 <= b.tokens, b.tokens < TicksPerSecond, Rate > 0,
           NEW elapsed \in Nat, elapsed >= 1, elapsed >= RetryAfter(b) * TicksPerSecond
    PROVE  b.tokens + elapsed * Rate >= TicksPerSecond
<1> DEFINE T == TicksPerSecond
           d == T - b.tokens
           q == d \div Rate
           w == CeilDiv(q, T)
<1>0. T \in Nat \ {0} /\ Rate \in Nat \ {0} /\ d \in Nat /\ d > 0 /\ d <= T /\ b.tokens \in Nat
  BY RateAssumption
<1> HIDE DEF T, d
<1>1. q \in Nat /\ q * Rate <= d /\ d < q * Rate + Rate
  BY <1>0, DivBounds
<1> HIDE DEF q
<1>2. w \in Nat /\ w * T >= q /\ (q > 0 => w > 0)
  BY <1>0, <1>1, CeilDivBounds
<1>3. elapsed >= w * T
  BY DEF RetryAfter, T, d, q
<1> HIDE DEF w
<1>4. elapsed * Rate \in Nat /\ elapsed * Rate >= d
  <2>1. CASE elapsed >= q + 1
    <3>1. (q + 1) * Rate <= elapsed * Rate /\ elapsed * Rate \in Nat
      BY <1>0, <1>1, <2>1, TimesMonotone
    <3>2. (q + 1) * Rate = q * Rate + Rate /\ q * Rate \in Nat
      BY <1>0, <1>1
    <3> QED BY <1>0, <1>1, <3>1, <3>2
  <2>2. CASE elapsed <= q
    <3>1. q > 0 /\ w >= 1
      BY <1>1, <1>2, <2>2
    <3>2. 1 * T <= w * T /\ w * T \in Nat
      BY <1>0, <1>2, <3>1, TimesMonotone
    <3>3. T <= q /\ q <= elapsed
      BY <1>0, <1>1, <1>2, <1>3, <2>2, <3>2
    <3>4. T * Rate <= q * Rate /\ T * Rate \in Nat /\ q * Rate \in Nat
      BY <1>0, <1>1, <3>3, TimesMonotone
    <3>5. T * Rate <= T
      BY <1>0, <1>1, <3>4
    <3>6. Rate = 1
      <4>1. CASE Rate >= 2
        <5>1. 2 * T <= Rate * T /\ Rate * T = T * Rate
          BY <1>0, <4>1, TimesMonotone
        <5> QED BY <1>0, <3>4, <3>5, <5>1
      <4> QED BY <1>0, <4>1
    <3> QED BY <1>0, <1>1, <3>3, <3>6
  <2> QED BY <1>1, <2>1, <2>2
<1> QED BY <1>0, <1>4 DEF T, d

\* A client that is refused and comes back when Retry-After has passed is admitted, if
\* its key has had no other request admitted since, for any rate, burst and clock (Allow,
\* Middleware).
THEOREM RetryAfterSufficesHolds == KernelSpec => RetryAfterSuffices
<1> DEFINE Kept ==
      \A v \in Visits :
        /\ retry # NoRetry
        /\ visit[v].step = "timed"
        /\ visit[v].now > retry.at
        /\ visit[v].now >= retry.at + retry.wait * TicksPerSecond
        => visit'[v].step # "limited"
<1>1. RateInv /\ [RateStep]_rateVars => [Kept]_rateVars
  <2> SUFFICES ASSUME RateInv, RateStep, NEW v \in Visits, retry # NoRetry, visit[v].step = "timed",
                      visit[v].now > retry.at, visit[v].now >= retry.at + retry.wait * TicksPerSecond,
                      visit'[v].step = "limited"
               PROVE  FALSE
    OBVIOUS
  <2>0. visit \in [Visits -> [step : {"new", "timed", "served", "limited"}, now : Nat]]
    BY DEF RateInv, RateTypeOK
  <2>1. Deny(v)
    <3>1. CASE Advance
      BY <3>1 DEF Advance
    <3>2. ASSUME NEW u \in Visits, PassThrough(u) \/ TakeTime(u) \/ Admit(u)
          PROVE  FALSE
      <4>1. PICK r : visit' = [visit EXCEPT ![u] = r] /\ r.step \in {"served", "timed"}
        <5>1. CASE PassThrough(u)
          <6>1. visit' = [visit EXCEPT ![u] = [visit[u] EXCEPT !.step = "served"]]
            BY <5>1 DEF PassThrough
          <6> QED BY <2>0, <6>1
        <5>2. CASE TakeTime(u)
          BY <5>2 DEF TakeTime
        <5>3. CASE Admit(u)
          BY <5>3 DEF Admit
        <5> QED BY <3>2, <5>1, <5>2, <5>3
      <4> QED BY <2>0, <4>1
    <3>3. ASSUME NEW u \in Visits, Deny(u), u # v
          PROVE  FALSE
      BY <2>0, <3>3 DEF Deny
    <3> QED BY <3>1, <3>2, <3>3 DEF RateStep
  <2>2. /\ bucket \in [tokens : Int, last : Nat] /\ bucket # NoBucket
        /\ 0 <= bucket.tokens /\ bucket.tokens < TicksPerSecond /\ Rate > 0
        /\ bucket.last <= retry.at /\ retry.at \in Nat /\ retry.wait = RetryAfter(bucket)
    BY DEF RateInv, RateTypeOK, RetryKnown, BucketWithin
  <2> DEFINE elapsed == visit[v].now - bucket.last
  <2>3. visit[v].now \in Nat
    BY <2>0
  <2>4. RetryAfter(bucket) * TicksPerSecond \in Int
    <3>1. retry \in [at : Int, wait : Int]
      BY DEF RateInv, RateTypeOK
    <3> QED BY <2>2, <3>1, FullAtLeastOne
  <2>5. elapsed \in Nat /\ elapsed >= 1 /\ elapsed >= RetryAfter(bucket) * TicksPerSecond
    BY <2>2, <2>3, <2>4
  <2> HIDE DEF elapsed
  <2>6. bucket.tokens + elapsed * Rate >= TicksPerSecond
    BY <2>2, <2>5, WaitIsEnough
  <2>7. elapsed * Rate \in Int
    BY <2>5, RateAssumption
  <2>8. BucketAt(visit[v].now).tokens >= TicksPerSecond
    <3>1. BucketAt(visit[v].now) =
              [tokens |-> IF bucket.tokens + elapsed * Rate > Full THEN Full ELSE bucket.tokens + elapsed * Rate,
               last   |-> visit[v].now]
      BY <2>2, <2>5 DEF BucketAt, Refilled, elapsed
    <3>2. BucketAt(visit[v].now).tokens
              = IF bucket.tokens + elapsed * Rate > Full THEN Full ELSE bucket.tokens + elapsed * Rate
      BY <3>1
    <3> QED BY <2>2, <2>6, <2>7, <3>2, FullAtLeastOne
  <2>9. BucketAt(visit[v].now).tokens \in Int
    BY BucketFound
  <2> QED BY <2>1, <2>8, <2>9, FullAtLeastOne DEF Deny
<1>2. RateInv /\ [KernelNext]_kernelVars => [Kept]_rateVars
  BY <1>1, StepOfEach
<1> HIDE DEF Kept
<1>3. KernelSpec => [][Kept]_rateVars
  BY <1>2, RateInvHolds, PTL DEF KernelSpec
<1> QED BY <1>3 DEF RetryAfterSuffices, Kept
===============================================================================
