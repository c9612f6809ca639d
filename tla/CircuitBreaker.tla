--------------------------- MODULE CircuitBreaker ---------------------------
(***************************************************************************)
(* ProviderCircuitBreaker of src/src/pipeline/mod.rs: after                *)
(* FailureThreshold consecutive failures of a provider, no request is sent *)
(* to it for OpenTime.  Time is a natural number; the deadline 0 is "no    *)
(* deadline" (open_until = None).                                          *)
(***************************************************************************)
EXTENDS Integers

CONSTANTS FailureThreshold,   \* PROVIDER_CIRCUIT_FAILURE_THRESHOLD
          OpenTime            \* PROVIDER_CIRCUIT_OPEN_MS

ASSUME CircuitBreakerAssumption ==
  /\ FailureThreshold \in Nat \ {0}
  /\ OpenTime \in Nat \ {0}

Breaker == [failures : 0 .. FailureThreshold - 1, openUntil : Nat]
ClosedBreaker == [failures |-> 0, openUntil |-> 0]

\* remaining_open, as a question: is a request refused now?
IsOpen(breaker, now) == breaker.openUntil > now

\* remaining_open, as an update: a deadline that has passed is forgotten.
Asked(breaker, now) ==
  IF IsOpen(breaker, now) THEN breaker ELSE [breaker EXCEPT !.openUntil = 0]

\* record_success
Succeeded(breaker) == ClosedBreaker

\* record_failure
Failed(breaker, now) ==
  IF breaker.failures + 1 < FailureThreshold
  THEN [breaker EXCEPT !.failures = @ + 1]
  ELSE [failures |-> 0, openUntil |-> now + OpenTime]
=============================================================================
