-------------------------- MODULE ResiliencePatterns --------------------------
(***************************************************************************)
(* The building blocks of appendix D (resilience_demo.py of                *)
(* src/appendices/appendix_d_resilience) as operators on their state:      *)
(* CircuitBreaker, RetryBudget, ExponentialBackoff and IdempotencyStore.   *)
(*                                                                         *)
(* The code stores times and compares them with time.time(); here a stored *)
(* time is its age in ticks, capped where growing older makes no further   *)
(* difference, and a tick makes everything one older.  Metrics that only   *)
(* the summaries print are left out.                                       *)
(***************************************************************************)
EXTENDS Naturals, Sequences, Lists

CONSTANTS
    FailureThreshold,  \* CircuitBreaker.failure_threshold
    RecoveryTimeout,   \* CircuitBreaker.recovery_timeout
    WindowSize,        \* CircuitBreaker.window_size
    BudgetPercent,     \* RetryBudget.budget_percent
    BudgetWindow,      \* RetryBudget.window_seconds
    MinRetries,        \* RetryBudget.min_retries
    BackoffBase,       \* ExponentialBackoff.base
    MaxDelay,          \* ExponentialBackoff.max_delay
    StoreTTL           \* IdempotencyStore.ttl_seconds

ASSUME PatternsAssumption ==
    /\ FailureThreshold \in Nat \ {0}
    /\ RecoveryTimeout \in Nat \ {0}
    /\ WindowSize \in Nat \ {0}
    /\ BudgetPercent \in 0 .. 100
    /\ BudgetWindow \in Nat \ {0}
    /\ MinRetries \in Nat
    /\ BackoffBase \in Nat
    /\ MaxDelay \in Nat
    /\ StoreTTL \in Nat

Least(a, b) == IF a <= b THEN a ELSE b
AgedTo(cap, ages) == [i \in DOMAIN ages |-> Least(ages[i] + 1, cap)]
Within(window, ages) == Keep(ages, 0 .. window - 1)

-----------------------------------------------------------------------------
(* CircuitBreaker.                                                         *)
CircuitState == {"CLOSED", "OPEN", "HALF_OPEN"}

Breaker == [state : CircuitState, opened : 0 .. RecoveryTimeout,
            failures : Seq(0 .. WindowSize)]

\* opened_at is 0.0, long ago.
NewBreaker == [state |-> "CLOSED", opened |-> RecoveryTimeout, failures |-> <<>>]

\* Mutant: an open circuit tests the service without waiting.
AllowsAtOnce(b) == b.state # "HALF_OPEN"

\* What allow_request() answers, and what it makes of the breaker.
Allows(b) ==
    \/ b.state = "CLOSED"
    \/ b.state = "OPEN" /\ b.opened >= RecoveryTimeout

AllowRequest(b) ==
    IF b.state = "OPEN" /\ Allows(b) THEN [b EXCEPT !.state = "HALF_OPEN"] ELSE b

\* Mutant: the old failures are kept when the circuit closes.
RecordSuccessKeeping(b) ==
    IF b.state = "HALF_OPEN" THEN [b EXCEPT !.state = "CLOSED"] ELSE b

RecordSuccess(b) ==
    IF b.state = "HALF_OPEN"
    THEN [b EXCEPT !.state = "CLOSED", !.failures = <<>>]
    ELSE b

\* A failed test re-opens at once and prunes nothing; any other failure
\* counts those in the window, also while the circuit is open.
RecordFailure(b) ==
    LET recorded == Append(b.failures, 0)
        kept == Within(WindowSize, recorded) IN
    IF b.state = "HALF_OPEN"
    THEN [b EXCEPT !.state = "OPEN", !.opened = 0, !.failures = recorded]
    ELSE IF Len(kept) >= FailureThreshold
    THEN [b EXCEPT !.state = "OPEN", !.opened = 0, !.failures = kept]
    ELSE [b EXCEPT !.failures = kept]

AgedBreaker(b) ==
    [b EXCEPT !.opened = Least(@ + 1, RecoveryTimeout),
              !.failures = AgedTo(WindowSize, @)]

-----------------------------------------------------------------------------
(* RetryBudget: the ages of the requests and of the retries.  prune() is   *)
(* never called.                                                           *)
NewBudget == [requests |-> <<>>, retries |-> <<>>]

RecordRequest(bu) == [bu EXCEPT !.requests = Append(@, 0)]
RecordRetry(bu) == [bu EXCEPT !.retries = Append(@, 0)]

AllowRetry(bu) ==
    LET retries == Len(Within(BudgetWindow, bu.retries))
        total == retries + Len(Within(BudgetWindow, bu.requests)) IN
    \/ retries < MinRetries
    \/ total = 0
    \/ retries * 100 < BudgetPercent * total

AgedBudget(bu) == [requests |-> AgedTo(BudgetWindow, bu.requests),
                   retries |-> AgedTo(BudgetWindow, bu.retries)]

-----------------------------------------------------------------------------
(* ExponentialBackoff with full jitter: any delay up to the capped power.  *)
Delays(attempt) == 0 .. Least(BackoffBase * 2 ^ attempt, MaxDelay)

-----------------------------------------------------------------------------
(* IdempotencyStore: what is stored under a key, or NotStored.  An entry   *)
(* is expired when older than the time to live, and then get() deletes it. *)
NotStored == [age |-> StoreTTL + 1, hash |-> 0]

\* Mutant: an entry expires one tick early.
ValidEarly(entry) == entry.age < StoreTTL

Valid(entry) == entry.age <= StoreTTL
Stored(hash) == [age |-> 0, hash |-> hash]
AgedEntry(entry) == [entry EXCEPT !.age = Least(@ + 1, StoreTTL + 1)]
=============================================================================
