---------------------------- MODULE RetryPolicy ----------------------------
(***************************************************************************)
(* The deterministic retry policy of retry_policy.py: a pure function of   *)
(* the error code and of the attempt counters after the failed attempt.    *)
(* The Worker never configures a fallback adapter, but the policy is       *)
(* translated whole.                                                       *)
(***************************************************************************)
EXTENDS Integers

CONSTANT MAX_ATTEMPTS     \* MAX_TOTAL_ATTEMPTS = MAX_ATTEMPTS = 4 in the code

ASSUME MaxAttemptsAssumption == MAX_ATTEMPTS \in Nat \ {0}

\* domain.ErrorCode, restricted to the codes that an attempt can end with.
ErrorCode ==
    {"adapter_unsupported", "extractor_broken", "network_error",
     "rate_limited", "validation_failed", "storage_error",
     "authentication_required", "private_content", "content_unavailable",
     "geo_restricted", "drm_protected", "egress_policy_blocked",
     "worker_lost", "worker_timeout", "worker_internal"}

FallbackErrors == {"adapter_unsupported", "extractor_broken"}

\* _MAX_SAME_ADAPTER_RETRIES; a code outside its domain is never retried.
SameAdapterRetries ==
    [code \in {"network_error", "rate_limited", "validation_failed"} |->
        IF code = "validation_failed" THEN 1 ELSE 2]

\* _BASE_DELAYS_SECONDS
BaseDelay ==
    [code \in {"network_error", "rate_limited", "validation_failed"} |->
        CASE code = "network_error"     -> 5
          [] code = "rate_limited"      -> 60
          [] code = "validation_failed" -> 0]

\* RetryContext: counters include the attempt that has just failed.
RetryContext ==
    {ctx \in [total : 1..MAX_ATTEMPTS, onAdapter : 1..MAX_ATTEMPTS,
              fallbackAvailable : BOOLEAN, fallbackUsed : BOOLEAN,
              retryAfter : Nat] : ctx.onAdapter <= ctx.total}

Terminal == [action |-> "terminal", delay |-> 0]

BackoffSeconds(code, onAdapter) == BaseDelay[code] * 2^(onAdapter - 1)

Larger(a, b) == IF a >= b THEN a ELSE b

\* RetryPolicy.decide
Decide(code, ctx) ==
    IF ctx.total >= MAX_ATTEMPTS \/ ctx.fallbackUsed
    THEN Terminal
    ELSE IF code \in FallbackErrors
    THEN IF ctx.fallbackAvailable
         THEN [action |-> "fallback", delay |-> 0]
         ELSE Terminal
    ELSE IF code \in DOMAIN SameAdapterRetries
    THEN IF ctx.onAdapter - 1 < SameAdapterRetries[code]
         THEN [action |-> "retry",
               delay |-> Larger(BackoffSeconds(code, ctx.onAdapter),
                                ctx.retryAfter)]
         ELSE Terminal
    ELSE Terminal
=============================================================================
