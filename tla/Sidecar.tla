------------------------------- MODULE Sidecar -------------------------------
(***************************************************************************)
(* Chapter 10 (src/chapters/ch10_sidecar): sidecar_proxy.py checks the     *)
(* token and the rate of every request before it forwards it to            *)
(* app_service.py, which does neither.  proxy() suspends twice, to read    *)
(* the body and to await the service: the requests of a client interleave  *)
(* there, on one token bucket per IP address.  The connection to the       *)
(* service may be refused, or the answer may not come in time.             *)
(*                                                                         *)
(* A token of the bucket is Cost units; a unit of time adds one.           *)
(***************************************************************************)
EXTENDS Integers, Sequences, FiniteSets

CONSTANTS
    Addresses,    \* IP addresses
    Requests,     \* the requests of a behaviour: [id, ip, token, path]
    Cost,         \* units of a token
    MaxTokens,    \* units of a full bucket (RATE_LIMIT_TOKENS)
    NoBucket,
    LastStatus,   \* last position in ORDER_FLOW
    MaxTime, MaxStepBack \* bounds of the model: time, and clock corrections

ASSUME SidecarAssumption ==
    /\ IsFiniteSet(Requests)
    /\ \A r \in Requests :
          /\ r.ip \in Addresses
          /\ r.token \in {"none", "forged", "demo", "signed"}
          /\ r.path \in {"health", "read", "place", "advance"}
    /\ Cost \in Nat \ {0} /\ MaxTokens \in Nat
    /\ LastStatus \in Nat /\ MaxTime \in Nat /\ MaxStepBack \in Nat
    /\ NoBucket \notin Int

VARIABLES
    clock,    \* what time.time() tells, behind the time passed by back
    back,
    bucket,   \* _buckets, in units, NoBucket before the first request
    refilled, \* _last_refill
    stage,    \* stage[r]: how far proxy() has come with r
    orders    \* the service's orders: their positions in ORDER_FLOW

(* History, read by the properties only.                                   *)
VARIABLES
    served,   \* served[r]: how often the service has handled r
    admitted  \* admitted[c]: when consume() has said yes to c

sidecarVars == <<clock, back, bucket, refilled, stage, orders, served, admitted>>

-----------------------------------------------------------------------------
SidecarInit ==
    /\ clock = MaxStepBack
    /\ back = 0
    /\ bucket = [c \in Addresses |-> NoBucket]
    /\ refilled = [c \in Addresses |-> 0]
    /\ stage = [r \in Requests |-> "new"]
    /\ orders = <<>>
    /\ served = [r \in Requests |-> 0]
    /\ admitted = [c \in Addresses |-> <<>>]

\* verify_token: the demo token, or a payload with the right signature
\* (whatever the payload says of its expiry).
VerifyToken(token) == token \in {"demo", "signed"}

\* The auth check; health needs none.
PassesAuth(r) == r.path = "health" \/ VerifyToken(r.token)

\* Mutant: the refill is not capped.
RefillUncapped(c) ==
    IF bucket[c] = NoBucket THEN MaxTokens ELSE bucket[c] + (clock - refilled[c])

\* TokenBucket.consume: the refill, negative when the clock was set back.
Refill(c) ==
    IF bucket[c] = NoBucket THEN MaxTokens
    ELSE LET full == bucket[c] + (clock - refilled[c])
         IN  IF full > MaxTokens THEN MaxTokens ELSE full

Consume(c) ==
    /\ refilled' = [refilled EXCEPT ![c] = clock]
    /\ IF Refill(c) >= Cost
       THEN /\ bucket' = [bucket EXCEPT ![c] = Refill(c) - Cost]
            /\ admitted' = [admitted EXCEPT ![c] = Append(@, clock + back)]
       ELSE bucket' = [bucket EXCEPT ![c] = Refill(c)] /\ UNCHANGED admitted

\* Steps 1 and 2 of proxy(): to the first suspension.
Arrive(r) ==
    /\ stage[r] = "new"
    /\ IF PassesAuth(r)
       THEN /\ Consume(r.ip)
            /\ stage' = [stage EXCEPT ![r] = IF Refill(r.ip) >= Cost THEN "reading" ELSE "429"]
       ELSE stage' = [stage EXCEPT ![r] = "401"] /\ UNCHANGED <<bucket, refilled, admitted>>
    /\ UNCHANGED <<clock, back, orders, served>>

\* Step 3: the body is read and the request forwarded ...
Forward(r) ==
    /\ stage[r] = "reading"
    /\ stage' = [stage EXCEPT ![r] = "forwarded"]
    /\ UNCHANGED <<clock, back, bucket, refilled, orders, served, admitted>>

\* ... but the connection is refused, or the answer fails to come in time,
\* whatever the service has done or still does with the request.
Fail(r) ==
    /\ stage[r] \in {"reading", "forwarded", "done"}
    /\ stage' = [stage EXCEPT ![r] = IF @ = "forwarded" THEN "502 pending" ELSE "502"]
    /\ UNCHANGED <<clock, back, bucket, refilled, orders, served, admitted>>

\* Mutant: the service is sent the request once more.
ServeTwice(r) == stage[r] \in {"forwarded", "done", "502 pending"}

\* The service has the request, perhaps after the proxy has given up on it.
AtService(r) == stage[r] \in {"forwarded", "502 pending"}

\* app_service.py, a handler that does not suspend: place_order,
\* advance_order (404 without an order, 500 at the last status), reads.
\* advance is for the first order.  "place" is a placement that is accepted;
\* one refused for its restaurant or items (404, 400) changes nothing, as a
\* read does.
Serve(r) ==
    /\ AtService(r)
    /\ served' = [served EXCEPT ![r] = @ + 1]
    /\ orders' =
          CASE r.path = "place" -> Append(orders, 0)
            [] r.path = "advance" /\ orders # <<>> /\ orders[1] < LastStatus ->
                  [orders EXCEPT ![1] = @ + 1]
            [] OTHER -> orders
    /\ stage' = [stage EXCEPT ![r] = IF @ = "502 pending" THEN "502" ELSE "done"]
    /\ UNCHANGED <<clock, back, bucket, refilled, admitted>>

\* Step 4: the service's answer is passed on.
Return(r) ==
    /\ stage[r] = "done"
    /\ stage' = [stage EXCEPT ![r] = "answered"]
    /\ UNCHANGED <<clock, back, bucket, refilled, orders, served, admitted>>

SidecarTick ==
    /\ clock + back < MaxTime + MaxStepBack
    /\ clock' = clock + 1
    /\ UNCHANGED <<back, bucket, refilled, stage, orders, served, admitted>>

ClockStepsBack ==
    /\ back < MaxStepBack
    /\ clock' = clock - 1
    /\ back' = back + 1
    /\ UNCHANGED <<bucket, refilled, stage, orders, served, admitted>>

SidecarNext ==
    \/ \E r \in Requests : Arrive(r) \/ Forward(r) \/ Fail(r) \/ Serve(r) \/ Return(r)
    \/ SidecarTick
    \/ ClockStepsBack

SidecarSpec == SidecarInit /\ [][SidecarNext]_sidecarVars
-----------------------------------------------------------------------------
Stages == {"new", "reading", "forwarded", "done", "answered", "401", "429",
           "502", "502 pending"}

SidecarTypeOK ==
    /\ clock \in Int
    /\ back \in 0 .. MaxStepBack
    /\ bucket \in [Addresses -> Int \union {NoBucket}]
    /\ refilled \in [Addresses -> Int]
    /\ stage \in [Requests -> Stages]
    /\ orders \in Seq(0 .. LastStatus)
    /\ served \in [Requests -> Nat]
    /\ admitted \in [Addresses -> Seq(Int)]

\* In no span of time does a client get more requests through than a full
\* bucket and the refill of that span, also when the clock is set back.
RateBounded ==
    \A c \in Addresses : \A i, j \in DOMAIN admitted[c] :
        i <= j => (j - i + 1) * Cost <= MaxTokens + (admitted[c][j] - admitted[c][i])

\* A request is handled at most once, and only when its token was good or it
\* asks for health; answered means handled, refused means not handled, and
\* the orders are those of the handled requests.  (502 may mean either.)
AnsweredTruly ==
    /\ \A r \in Requests :
          /\ served[r] <= 1
          /\ served[r] = 1 => PassesAuth(r) /\ stage[r] \in {"done", "answered", "502"}
          /\ stage[r] = "answered" => served[r] = 1
    /\ Len(orders) = Cardinality({r \in Requests : r.path = "place" /\ served[r] = 1})
=============================================================================
