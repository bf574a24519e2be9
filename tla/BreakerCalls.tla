----------------------------- MODULE BreakerCalls -----------------------------
(***************************************************************************)
(* The circuit breaker of appendix D used as its docstring says, by        *)
(* callers whose calls to the downstream service take time:                *)
(*     if cb.allow_request(): call; cb.record_success() or record_failure()*)
(* Each method of the breaker is one step (nothing in it suspends), and    *)
(* the answer of a call may come at any later moment, also after the       *)
(* circuit has changed its state.  A caller that is cancelled, or whose    *)
(* call raises something it does not catch, reports nothing.               *)
(***************************************************************************)
EXTENDS ResiliencePatterns, FiniteSets

CONSTANTS
    Callers,
    MaxFailures,  \* bound of the model: failing calls in a behaviour
    MaxLost       \* bound of the model: calls that never report

ASSUME CallersAssumption ==
    IsFiniteSet(Callers) /\ MaxFailures \in Nat /\ MaxLost \in Nat

VARIABLES
    cb,       \* the breaker
    calling   \* the callers whose request was let through and is under way

(* History, read by the properties only (failed and lost also by bounds).  *)
VARIABLES
    test,     \* the callers whose request made the circuit half-open
    since,    \* ages of all failures recorded since the circuit last closed
    failed,   \* number of failing calls
    lost      \* number of calls that never report

callVars == <<cb, calling, test, since, failed, lost>>

CallsInit ==
    /\ cb = NewBreaker
    /\ calling = {}
    /\ test = {}
    /\ since = <<>>
    /\ failed = 0
    /\ lost = 0

\* allow_request() says yes.  (When it says no, nothing changes.)
Request(c) ==
    /\ c \notin calling
    /\ Allows(cb)
    /\ cb' = AllowRequest(cb)
    /\ calling' = calling \union {c}
    /\ test' = IF cb.state = "OPEN" THEN {c} ELSE test \ {c}
    /\ UNCHANGED <<since, failed, lost>>

Succeed(c) ==
    /\ c \in calling
    /\ cb' = RecordSuccess(cb)
    /\ calling' = calling \ {c}
    /\ since' = IF cb.state = "HALF_OPEN" THEN <<>> ELSE since
    /\ UNCHANGED <<test, failed, lost>>

Fail(c) ==
    /\ c \in calling
    /\ failed < MaxFailures
    /\ failed' = failed + 1
    /\ cb' = RecordFailure(cb)
    /\ calling' = calling \ {c}
    /\ since' = Append(since, 0)
    /\ UNCHANGED <<test, lost>>

Lose(c) ==
    /\ c \in calling
    /\ lost < MaxLost
    /\ lost' = lost + 1
    /\ calling' = calling \ {c}
    /\ UNCHANGED <<cb, test, since, failed>>

\* Mutant: a breaker whose recovery clock stands still.
BreakerTickStill ==
    /\ cb' = [cb EXCEPT !.failures = AgedTo(WindowSize, @)]
    /\ since' = AgedTo(WindowSize, since)
    /\ UNCHANGED <<calling, test, failed, lost>>

BreakerTick ==
    /\ cb' = AgedBreaker(cb)
    /\ since' = AgedTo(WindowSize, since)
    /\ UNCHANGED <<calling, test, failed, lost>>

CallsNext ==
    \/ \E c \in Callers : Request(c) \/ Succeed(c) \/ Fail(c) \/ Lose(c)
    \/ BreakerTick

\* Requests keep coming, a call ends one way or another, and time passes.
CallsFairness ==
    /\ \A c \in Callers :
          WF_callVars(Request(c)) /\ WF_callVars(Succeed(c) \/ Fail(c) \/ Lose(c))
    /\ WF_callVars(BreakerTick)

CallsSpec == CallsInit /\ [][CallsNext]_callVars /\ CallsFairness

-----------------------------------------------------------------------------
CallsTypeOK ==
    /\ cb \in Breaker
    /\ calling \subseteq Callers
    /\ test \subseteq Callers
    /\ since \in Seq(0 .. WindowSize)
    /\ failed \in Nat
    /\ lost \in Nat

\* The circuit is closed only while fewer failures than the threshold fall
\* into the window, of all those since it last closed: pruning the list in
\* record_failure() never loses one that still counts.
ClosedBelowThreshold ==
    cb.state = "CLOSED" => Len(Within(WindowSize, since)) < FailureThreshold

\* A closed circuit opens only on evidence: failures from before it last
\* closed, or from outside the window, do not count.
OpensOnEvidence ==
    [][cb.state = "CLOSED" /\ cb'.state = "OPEN"
         => Len(Within(WindowSize, since')) >= FailureThreshold]_callVars

\* Half-open with no call under way: the one request that was to test the
\* service never reported, and nothing else is let through.
Trapped == cb.state = "HALF_OPEN" /\ calling = {}

\* When the service fails only finitely often, the circuit does not stay
\* away from CLOSED, unless it is trapped half-open ...
Recovers == (cb.state # "CLOSED") ~> (cb.state = "CLOSED" \/ Trapped)

\* ... and that it never leaves: no timeout ends the half-open state.
TrappedForEver == [][Trapped => Trapped']_callVars

\* The circuit's state follows the evidence of its calls, and nothing else.
CircuitFollowsEvidence == []ClosedBelowThreshold /\ OpensOnEvidence /\ TrappedForEver

\* resilience_demo.py:271-272: HALF_OPEN ends "when a test request succeeds"
\* or fails.  In the code the answer of any earlier request ends it as well.
TestDecides ==
    [][cb.state = "HALF_OPEN" /\ cb'.state # "HALF_OPEN"
         => \E c \in test : c \in calling \ calling']_callVars
=============================================================================
