------------------------------ MODULE Deliveries ------------------------------
(***************************************************************************)
(* The delivery of webhooks of internal/kernel/events/dispatch.go: every   *)
(* instance claims deliveries that are due, under a lease, posts them to   *)
(* the endpoint and records what came of it.  A lease is only a later      *)
(* next_attempt_at: when it lapses, another instance claims the delivery   *)
(* while the first may still be sending, and records without looking.      *)
(***************************************************************************)
EXTENDS Integers, FiniteSets

CONSTANTS
    Hooks,        \* ids of the deliveries of one endpoint
    Senders,      \* instances of the service
    BatchSize,    \* deliveries of one claim
    MaxAttempts,  \* one more than the number of retries
    MaxLosses,    \* bound on crashes and on lost updates
    MaxRequests,  \* bound on retries on request
    MaxToggles    \* bound on the updates of the endpoint

ASSUME DeliveriesAssumption ==
    /\ BatchSize \in Nat \ {0} /\ MaxAttempts \in Nat \ {0}
    /\ MaxLosses \in Nat /\ MaxRequests \in Nat /\ MaxToggles \in Nat

VARIABLES
    delivery,  \* webhook_deliveries: [status, attempts, due]
    claim,     \* instance -> delivery -> NoClaim or [attempts, phase]
    enabled,   \* whether the endpoint is enabled
    losses, requests, toggles,
    made,      \* history: delivery -> attempts that were made
    accepted   \* history: deliveries that the endpoint has answered with 2xx

deliveryVars == <<delivery, claim, enabled, losses, requests, toggles, made, accepted>>
bounds == <<losses, requests, toggles>>

NoClaim == [attempts |-> 0, phase |-> "none"]

Status == INSTANCE DeliveryStatus WITH Deliveries <- Hooks, status <- [d \in Hooks |-> delivery[d].status]

-------------------------------------------------------------------------------
Busy(i) == \E d \in Hooks : claim[i][d] # NoClaim

\* Mutant: the attempt counts as soon as it is claimed.
ClaimDueCounts(i, S) ==
    /\ ~Busy(i)
    /\ S # {} /\ Cardinality(S) <= BatchSize
    /\ enabled
    /\ \A d \in S : delivery[d].status = "pending" /\ delivery[d].due
    /\ delivery' = [d \in Hooks |-> IF d \in S THEN [delivery[d] EXCEPT !.due = FALSE, !.attempts = @ + 1] ELSE delivery[d]]
    /\ claim' = [claim EXCEPT ![i] =
                    [d \in Hooks |-> IF d \in S THEN [attempts |-> delivery[d].attempts, phase |-> "claimed"] ELSE NoClaim]]
    /\ UNCHANGED <<enabled, bounds, made, accepted>>

\* Mutant: not for the last attempt.
ClaimDueShort(i, S) ==
    /\ ~Busy(i)
    /\ S # {} /\ Cardinality(S) <= BatchSize
    /\ enabled
    /\ \A d \in S : delivery[d].status = "pending" /\ delivery[d].due /\ delivery[d].attempts < MaxAttempts - 1
    /\ delivery' = [d \in Hooks |-> IF d \in S THEN [delivery[d] EXCEPT !.due = FALSE] ELSE delivery[d]]
    /\ claim' = [claim EXCEPT ![i] =
                    [d \in Hooks |-> IF d \in S THEN [attempts |-> delivery[d].attempts, phase |-> "claimed"] ELSE NoClaim]]
    /\ UNCHANGED <<enabled, bounds, made, accepted>>

\* claim.  Deliver waits for all of a batch before it claims the next; rows that
\* another claim has locked are skipped.
ClaimDue(i, S) ==
    /\ ~Busy(i)
    /\ S # {} /\ Cardinality(S) <= BatchSize
    /\ enabled
    /\ \A d \in S : delivery[d].status = "pending" /\ delivery[d].due
    /\ delivery' = [d \in Hooks |-> IF d \in S THEN [delivery[d] EXCEPT !.due = FALSE] ELSE delivery[d]]
    /\ claim' = [claim EXCEPT ![i] =
                    [d \in Hooks |-> IF d \in S THEN [attempts |-> delivery[d].attempts, phase |-> "claimed"] ELSE NoClaim]]
    /\ UNCHANGED <<enabled, bounds, made, accepted>>

\* post.  The endpoint may have taken an attempt that looks failed to the sender.
Post(i, d, taken, reply) ==
    /\ claim[i][d].phase = "claimed"
    /\ reply = "ok" => taken
    /\ made' = [made EXCEPT ![d] = @ + 1]
    /\ accepted' = IF taken THEN accepted \cup {d} ELSE accepted
    /\ claim' = [claim EXCEPT ![i][d].phase = reply]
    /\ UNCHANGED <<delivery, enabled, bounds>>

\* What send writes.
Succeeded(r, n) == [r EXCEPT !.status = "succeeded", !.attempts = n]

\* Mutant: without the check that a row is succeeded if and only if it has delivered_at.
GaveUpUnchecked(r, n) == [r EXCEPT !.status = "failed", !.attempts = n]

\* Failed for good.  The table's check that a row is succeeded if and only if it has
\* delivered_at refuses the update of a row that another sender has succeeded with.
GaveUp(r, n) == IF r.status = "succeeded" THEN r ELSE [r EXCEPT !.status = "failed", !.attempts = n]

ToRetry(r, n) == [r EXCEPT !.attempts = n, !.due = FALSE]

Drop(i, d) == claim' = [claim EXCEPT ![i][d] = NoClaim]

\* The rest of send.
Record(i, d) ==
    LET n == claim[i][d].attempts + 1
    IN  /\ claim[i][d].phase \in {"ok", "error"}
        /\ delivery' = [delivery EXCEPT ![d] =
               IF claim[i][d].phase = "ok" THEN Succeeded(@, n)
               ELSE IF n >= MaxAttempts THEN GaveUp(@, n) ELSE ToRetry(@, n)]
        /\ Drop(i, d)
        /\ UNCHANGED <<enabled, bounds, made, accepted>>

\* The update fails and is only logged.
RecordFails(i, d) ==
    /\ claim[i][d].phase \in {"ok", "error"}
    /\ losses < MaxLosses
    /\ losses' = losses + 1
    /\ Drop(i, d)
    /\ UNCHANGED <<delivery, enabled, requests, toggles, made, accepted>>

SenderStops(i) ==
    /\ Busy(i)
    /\ losses < MaxLosses
    /\ losses' = losses + 1
    /\ claim' = [claim EXCEPT ![i] = [d \in Hooks |-> NoClaim]]
    /\ UNCHANGED <<delivery, enabled, requests, toggles, made, accepted>>

-------------------------------------------------------------------------------
\* next_attempt_at passes: of a lease, or of a retry.
FallsDue(d) ==
    /\ delivery[d].status = "pending" /\ ~delivery[d].due
    /\ delivery' = [delivery EXCEPT ![d].due = TRUE]
    /\ UNCHANGED <<claim, enabled, bounds, made, accepted>>

RetryDelivery(d) ==
    /\ requests < MaxRequests
    /\ requests' = requests + 1
    /\ delivery[d].status # "succeeded"
    /\ delivery' = [delivery EXCEPT ![d].status = "pending", ![d].due = TRUE]
    /\ UNCHANGED <<claim, enabled, losses, toggles, made, accepted>>

\* UpdateEndpoint.
Toggle ==
    /\ toggles < MaxToggles
    /\ toggles' = toggles + 1
    /\ enabled' = ~enabled
    /\ UNCHANGED <<delivery, claim, losses, requests, made, accepted>>

-------------------------------------------------------------------------------
DeliveriesInit ==
    /\ delivery = [d \in Hooks |-> [status |-> "pending", attempts |-> 0, due |-> TRUE]]
    /\ claim = [i \in Senders |-> [d \in Hooks |-> NoClaim]]
    /\ enabled = TRUE
    /\ losses = 0 /\ requests = 0 /\ toggles = 0
    /\ made = [d \in Hooks |-> 0]
    /\ accepted = {}

Send(i, d) ==
    \/ \E taken \in BOOLEAN, reply \in {"ok", "error"} : Post(i, d, taken, reply)
    \/ Record(i, d)

Deliver(i) == (\E S \in SUBSET Hooks : ClaimDue(i, S)) \/ (\E d \in Hooks : Send(i, d))

DeliveriesNext ==
    \/ \E i \in Senders : Deliver(i) \/ SenderStops(i)
    \/ \E i \in Senders, d \in Hooks : RecordFails(i, d)
    \/ \E d \in Hooks : FallsDue(d) \/ RetryDelivery(d)
    \/ Toggle

-------------------------------------------------------------------------------
(***************************************************************************)
(* Properties.                                                             *)
(***************************************************************************)

\* Deliveries keep the promise of DeliveryStatus: in particular success is final,
\* though a sender whose lease has lapsed records a failure after it (send).
Implements == Status!Spec

\* A delivery is given up for good only after all of its attempts were made, and is
\* recorded as delivered only when the endpoint has taken it, whatever is lost or
\* recorded late (send).
OutcomesEarned ==
    \A d \in Hooks : /\ delivery[d].status = "failed" => made[d] >= MaxAttempts
                     /\ delivery[d].status = "succeeded" => d \in accepted
                     /\ delivery[d].attempts <= made[d]

\* A pending delivery of an endpoint that stays enabled is settled in the end, though
\* leases lapse and attempts are lost.
Settles == (<>[]enabled) => \A d \in Hooks : delivery[d].status = "pending" ~> delivery[d].status # "pending"
===============================================================================
