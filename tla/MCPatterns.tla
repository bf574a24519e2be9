----------------------------- MODULE MCPatterns -----------------------------
(* Instances for TLC, a behaviour is of one of them: the breaker's callers, *)
(* the payments, keys and retry chain of appendix D; push notifications,      *)
(* short polling and the queues of appendix B.  They share no state.        *)
EXTENDS BreakerCalls, Payments, RetryChain, OrderKeys, PushNotifications, ShortPolling, WorkQueue

CONSTANTS pat, kim, here, there

\* Two pollers behind one address.
MCAddressOf == [p \in Pollers |-> here]

\* A long one in ASCII, and one whose excess in bytes is just over its length
\* in characters, so that body[:-1] cuts one character.
MCNotes ==
    {[rest |-> 150, body |-> 9000, width |-> 1], [rest |-> 172, body |-> 781, width |-> 6]}

VARIABLE scenario

vars == <<scenario, callVars, payVars, keyVars, chainVars, pushVars, pollVars, queueVars>>

\* What is not run stays in one initial state.
Init ==
    /\ scenario \in {"calls", "payments", "keys", "chain", "push", "poll", "queue"}
    /\ CallsInit /\ PaymentsInit /\ KeysInit /\ ChainInit /\ PushInit /\ PollInit /\ QueueInit
    /\ scenario # "push" => mode = "real"
    /\ scenario # "queue" => fanOut

CallsStep ==
    /\ scenario = "calls" /\ CallsNext
    /\ UNCHANGED <<scenario, payVars, keyVars, chainVars, pushVars, pollVars, queueVars>>
PaymentsStep ==
    /\ scenario = "payments" /\ PaymentsNext
    /\ UNCHANGED <<scenario, callVars, keyVars, chainVars, pushVars, pollVars, queueVars>>
KeysStep ==
    /\ scenario = "keys" /\ KeysNext
    /\ UNCHANGED <<scenario, callVars, payVars, chainVars, pushVars, pollVars, queueVars>>
ChainStep ==
    /\ scenario = "chain" /\ OriginalRequest
    /\ UNCHANGED <<scenario, callVars, payVars, keyVars, pushVars, pollVars, queueVars>>
PushStep ==
    /\ scenario = "push" /\ PushNext
    /\ UNCHANGED <<scenario, callVars, payVars, keyVars, chainVars, pollVars, queueVars>>
PollStep ==
    /\ scenario = "poll" /\ PollNext
    /\ UNCHANGED <<scenario, callVars, payVars, keyVars, chainVars, pushVars, queueVars>>
QueueStep ==
    /\ scenario = "queue" /\ QueueNext
    /\ UNCHANGED <<scenario, callVars, payVars, keyVars, chainVars, pushVars, pollVars>>

Next == CallsStep \/ PaymentsStep \/ KeysStep \/ ChainStep \/ PushStep \/ PollStep \/ QueueStep

Spec ==
    /\ Init
    /\ [][Next]_vars
    /\ scenario = "calls" => CallsFairness
    /\ WF_vars(QueueStep)

\* No retry charges an order twice, and none creates one twice.
RetriesAreHarmless == ChargeFollowsOrder /\ KeysBindOrders

\* The demo of appendix B shares out its messages and comes to an end.
WorkIsShared == scenario = "queue" => WorkDone
=============================================================================
