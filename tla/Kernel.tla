-------------------------------- MODULE Kernel --------------------------------
(***************************************************************************)
(* Four services of internal/kernel in one specification: idempotent       *)
(* calls, the delivery of webhooks, the rate limiter and the migrations of *)
(* the schema.  They share no state, so a behaviour follows one of them,   *)
(* chosen at the start.                                                    *)
(***************************************************************************)
EXTENDS Idempotency, Deliveries, RateLimit, Migrations

VARIABLE part   \* the service that is followed

kernelVars == <<part, vars, deliveryVars, rateVars, migrateVars>>

KernelInit ==
    /\ part \in {"calls", "deliveries", "rates", "migrations"}
    /\ Init
    /\ DeliveriesInit
    /\ RateInit
    /\ MigrationsInit
    /\ part # "migrations" => \A v \in Versions : schema[v] = NotApplied

CallsPart ==
    /\ part = "calls"
    /\ Next
    /\ UNCHANGED <<part, deliveryVars, rateVars, migrateVars>>

DeliveriesPart ==
    /\ part = "deliveries"
    /\ DeliveriesNext
    /\ UNCHANGED <<part, vars, rateVars, migrateVars>>

RatesPart ==
    /\ part = "rates"
    /\ RateStep
    /\ UNCHANGED <<part, vars, deliveryVars, migrateVars>>

MigrationsPart ==
    /\ part = "migrations"
    /\ MigrationsStep
    /\ UNCHANGED <<part, vars, deliveryVars, rateVars>>

KernelNext == CallsPart \/ DeliveriesPart \/ RatesPart \/ MigrationsPart

\* Time passes, a call that is being served goes on, and clients repeat calls that they
\* were told to repeat.
CallsFairness ==
    /\ \A k \in Keys : WF_vars(part = "calls" /\ LockTimesOut(k))
    /\ \A c \in Calls : WF_vars(part = "calls" /\ (Middleware(c) \/ Repeat(c)))

\* Time passes, instances keep polling (the ticker of Run), and every request to an
\* endpoint is answered or times out.
DeliveriesFairness ==
    /\ \A d \in Hooks : WF_deliveryVars(part = "deliveries" /\ FallsDue(d))
    /\ \A i \in Senders, d \in Hooks :
           /\ WF_deliveryVars(part = "deliveries" /\ Send(i, d))
           /\ SF_deliveryVars(part = "deliveries" /\ \E S \in SUBSET Hooks : d \in S /\ ClaimDue(i, S))

KernelSpec == KernelInit /\ [][KernelNext]_kernelVars /\ CallsFairness /\ DeliveriesFairness

-------------------------------------------------------------------------------

\* EveryAnswered, of behaviours that follow calls: a client that repeats its call gets an
\* answer in the end, though handlers fail, instances stop and claims are left behind
\* (claim: the takeover).
CallsAreAnswered == part = "calls" => EveryAnswered

\* Settles, of behaviours that follow deliveries: a pending delivery of an endpoint that
\* stays enabled is settled in the end, though leases lapse and attempts are lost (claim).
DeliveriesSettle == part = "deliveries" => Settles
===============================================================================
