------------------------------- MODULE Payments -------------------------------
(***************************************************************************)
(* The combined scenario of appendix D (demo_combined of                   *)
(* resilience_demo.py): orders whose payment is charged through an         *)
(* idempotency store, a circuit breaker, a retry budget and a backoff,     *)
(* all shared.  charge_payment() never suspends, so an attempt is one      *)
(* step, and a placement is suspended only while it backs off.  Orders are *)
(* placed at any time, also the same one again while an earlier placement  *)
(* of it backs off (a client that retries): nothing in                     *)
(* place_order_with_resilience() waits for the other one.  The             *)
(* demonstration places four orders, one after the other.                  *)
(***************************************************************************)
EXTENDS ResiliencePatterns, FiniteSets

CONSTANTS
    Orders,
    MaxAttempts,   \* max_retries of place_order_with_resilience
    MaxCalls,      \* bound of the model: placements of one order
    MaxFlips,      \* bound of the model: changes of the payment service
    MaxTime        \* bound of the model: ticks

ASSUME PaymentsAssumption ==
    /\ IsFiniteSet(Orders)
    /\ MaxAttempts \in Nat \ {0}
    /\ MaxCalls \in Nat
    /\ MaxFlips \in Nat
    /\ MaxTime \in Nat

VARIABLES
    breaker,   \* cb
    budget,
    stored,    \* stored[o]: the entry under the idempotency key of order o
    healthy,   \* payment_service_healthy
    task,      \* task[o][k], of the k-th placement of o: "idle", or "backoff"
               \* before attempt `attempt`
    result     \* result[o][k]: what that placement came to

(* History; no guard reads it except for its bounds.                       *)
VARIABLES
    placed,    \* placed[o]: placements of o so far
    charges,   \* charges[o]: ages of the charges made for o
    outage,    \* calls made to the failed service, and how long it has failed
    flips,
    time

payVars == <<breaker, budget, stored, healthy, task, result,
             placed, charges, outage, flips, time>>

Calls == 1 .. MaxCalls

Idle == [at |-> "idle", attempt |-> 0, delay |-> 0]
Backoff(attempt, delay) == [at |-> "backoff", attempt |-> attempt, delay |-> delay]

PaymentsInit ==
    /\ breaker = NewBreaker
    /\ budget = NewBudget
    /\ stored = [o \in Orders |-> NotStored]
    /\ healthy = TRUE
    /\ task = [o \in Orders |-> [k \in Calls |-> Idle]]
    /\ result = [o \in Orders |-> [k \in Calls |-> "none"]]
    /\ placed = [o \in Orders |-> 0]
    /\ charges = [o \in Orders |-> <<>>]
    /\ outage = [calls |-> 0, time |-> 0]
    /\ flips = 0
    /\ time = 0

-----------------------------------------------------------------------------
(* charge_payment: its four ends.                                          *)
Hit(o) ==
    /\ Valid(stored[o])
    /\ UNCHANGED <<breaker, stored, charges, outage>>

Rejected(o) ==
    /\ ~ Valid(stored[o])
    /\ ~ Allows(breaker)
    /\ UNCHANGED <<breaker, stored, charges, outage>>

ServiceDown(o) ==
    /\ ~ Valid(stored[o])
    /\ Allows(breaker)
    /\ ~ healthy
    /\ breaker' = RecordFailure(AllowRequest(breaker))
    /\ outage' = [outage EXCEPT !.calls = @ + 1]
    /\ UNCHANGED <<stored, charges>>

Charged(o) ==
    /\ ~ Valid(stored[o])
    /\ Allows(breaker)
    /\ healthy
    /\ breaker' = RecordSuccess(AllowRequest(breaker))
    /\ stored' = [stored EXCEPT ![o] = Stored(1)]
    /\ charges' = [charges EXCEPT ![o] = Append(@, 0)]
    /\ UNCHANGED outage

\* One pass through the loop of place_order_with_resilience.  An open
\* circuit counts as a placed order whose charge is left for later.
Ends(o, k, how, bu) ==
    /\ result' = [result EXCEPT ![o][k] = how]
    /\ task' = [task EXCEPT ![o][k] = Idle]
    /\ budget' = bu

Attempt(o, k, attempt, bu) ==
    \/ Hit(o) /\ Ends(o, k, "confirmed", bu)
    \/ Charged(o) /\ Ends(o, k, "confirmed", bu)
    \/ Rejected(o) /\ Ends(o, k, "deferred", bu)
    \/ /\ ServiceDown(o)
       /\ IF attempt < MaxAttempts - 1 /\ AllowRetry(bu)
          THEN /\ \E d \in Delays(attempt) :
                     task' = [task EXCEPT ![o][k] = Backoff(attempt + 1, d)]
               /\ budget' = RecordRetry(bu)
               /\ UNCHANGED result
          ELSE Ends(o, k, "failed", bu)

PlaceOrder(o) ==
    /\ placed[o] < MaxCalls
    /\ placed' = [placed EXCEPT ![o] = @ + 1]
    /\ Attempt(o, placed[o] + 1, 0, RecordRequest(budget))
    /\ UNCHANGED <<healthy, flips, time>>

Retry(o, k) ==
    /\ task[o][k].at = "backoff"
    /\ task[o][k].delay = 0
    /\ Attempt(o, k, task[o][k].attempt, budget)
    /\ UNCHANGED <<healthy, placed, flips, time>>

\* The payment service goes down or comes back.
Flip ==
    /\ flips < MaxFlips
    /\ flips' = flips + 1
    /\ healthy' = ~ healthy
    /\ outage' = [calls |-> 0, time |-> 0]
    /\ UNCHANGED <<breaker, budget, stored, task, result, placed, charges, time>>

PaymentsTick ==
    /\ time < MaxTime
    /\ time' = time + 1
    /\ breaker' = AgedBreaker(breaker)
    /\ budget' = AgedBudget(budget)
    /\ stored' = [o \in Orders |-> AgedEntry(stored[o])]
    /\ task' = [o \in Orders |-> [k \in Calls |->
          [task[o][k] EXCEPT !.delay = IF @ = 0 THEN 0 ELSE @ - 1]]]
    /\ charges' = [o \in Orders |-> AgedTo(StoreTTL + 1, charges[o])]
    /\ outage' = IF healthy THEN outage ELSE [outage EXCEPT !.time = @ + 1]
    /\ UNCHANGED <<healthy, result, placed, flips>>

PaymentsNext ==
    \/ \E o \in Orders : PlaceOrder(o) \/ \E k \in Calls : Retry(o, k)
    \/ Flip
    \/ PaymentsTick

PaymentsSpec == PaymentsInit /\ [][PaymentsNext]_payVars

-----------------------------------------------------------------------------
\* An order is charged at most once within the life of its stored response,
\* however often it is placed, placed again while it backs off, or retried
\* after another placement has charged it: nothing comes between the look-up,
\* the charge and the storing.
ChargedOnce ==
    \A o \in Orders : Len(Within(StoreTTL + 1, charges[o])) <= 1

\* What is reported as confirmed was charged.  ("deferred" orders are reported
\* as placed, too, and nothing in the code ever charges them.)
ConfirmedIsCharged ==
    \A o \in Orders, k \in Calls : result[o][k] = "confirmed" => charges[o] # <<>>

ChargeFollowsOrder == ChargedOnce /\ ConfirmedIsCharged

\* While the payment service is down it gets no more calls than the threshold
\* for each window, and one test for each recovery period, whatever the
\* number of orders and of their retries.
NoHammering ==
    ~ healthy => outage.calls <= FailureThreshold * (outage.time \div WindowSize + 1)
                                   + outage.time \div RecoveryTimeout
===============================================================================
