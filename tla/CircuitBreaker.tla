--------------------------- MODULE CircuitBreaker ---------------------------
(***************************************************************************)
(* The circuit breaker of a tenant (track_a/reliability.py) and the status *)
(* column it moves (tenant_store.py).  A call of Track B is tried up to    *)
(* MaxAttempts times (retry_with_backoff); what the last try does to the   *)
(* status, and the operator's alert, happen without an await in between.   *)
(* The breaker never refuses a call: it only keeps the status.             *)
(***************************************************************************)
EXTENDS Integers, Sequences

CONSTANTS
    Tenants,      \* the owners that can have a tenant record
    MaxAttempts   \* CircuitBreaker max_attempts

ASSUME BreakerAssumption == MaxAttempts \in Nat \ {0}

VARIABLES
    status,    \* tenants.status; "none" without a record
    owed,      \* history: outages of a tenant (runs of failed calls) minus its alerts
    lastCall   \* history: how the tenant's last call through a breaker ended

breaker == <<status, owed, lastCall>>

BreakerTypeOK ==
    /\ status \in [Tenants -> {"none", "onboarding", "active", "degraded"}]
    /\ owed \in [Tenants -> Int]
    /\ lastCall \in [Tenants -> {"none", "ok", "failed"}]

BreakerInit ==
    /\ status = [t \in Tenants |-> "none"]
    /\ owed = [t \in Tenants |-> 0]
    /\ lastCall = [t \in Tenants |-> "none"]

HasRecord(t) == status[t] # "none"

\* create_tenant then set_tenant_onboarded (onboarding._submit), two commits
\* without an await in between; sender_id is UNIQUE, so a second create fails
\* and the onboarding that failed with it leaves the record as it is.
CreateTenant(t) ==
    /\ ~HasRecord(t)
    /\ status' = [status EXCEPT ![t] = "onboarding"]
    /\ UNCHANGED <<owed, lastCall>>

SetTenantOnboarded(t) ==
    /\ status[t] = "onboarding"
    /\ status' = [status EXCEPT ![t] = "active"]
    /\ UNCHANGED <<owed, lastCall>>

\* Mutant of Recover: nothing clears the status.
RecoverUnnoticed(t) ==
    /\ lastCall' = [lastCall EXCEPT ![t] = "ok"]
    /\ UNCHANGED <<status, owed>>

\* The call succeeded: _clear_degraded.  A result that reports a failed write
\* (HTTP 422) is a success here: the client returns it, it does not raise.
Recover(t) ==
    /\ status' = [status EXCEPT ![t] = IF @ = "degraded" THEN "active" ELSE @]
    /\ lastCall' = [lastCall EXCEPT ![t] = "ok"]
    /\ UNCHANGED owed

\* Mutant of AlertDue: every failed call is one.
AlertDueAlways(t) == status[t] # "none"

\* The last attempt failed: _is_degraded, _set_degraded.  An alert is due when
\* the tenant was not degraded before.
AlertDue(t) == status[t] # "degraded"
Trip(t) ==
    /\ status' = [status EXCEPT ![t] = "degraded"]
    /\ lastCall' = [lastCall EXCEPT ![t] = "failed"]
    /\ owed' = [owed EXCEPT ![t] = IF lastCall[t] = "failed" THEN @ ELSE @ + 1]

\* _alert, after the status was committed: the alert is its being called, since the
\* services wire no alert_fn into it yet.
Alert(t) ==
    /\ owed' = [owed EXCEPT ![t] = @ - 1]
    /\ UNCHANGED <<status, lastCall>>

-----------------------------------------------------------------------------
\* A tenant is degraded exactly when the last of its calls to end had failed,
\* however the calls of concurrent messages overlap, and a restart forgets
\* nothing of it (CircuitBreaker.call).
DegradedMeansLastFailed == \A t \in Tenants : status[t] = "degraded" <=> lastCall[t] = "failed"

=============================================================================
