----------------------------- MODULE EventBroker -----------------------------
(***************************************************************************)
(* The in-process pub/sub broker of chapter 7                              *)
(* (src/chapters/ch07_pub_sub/broker.py).                                  *)
(*                                                                         *)
(* Everything runs on one asyncio event loop, so a step of the model is    *)
(* the code between two real suspension points: a worker waiting on its    *)
(* queue, a callback that sleeps, and a remover (unsubscribe or stop) that *)
(* has cancelled a worker and awaits it.  publish() and subscribe() never  *)
(* suspend and are single steps.                                           *)
(*                                                                         *)
(* An event is the number under which it was published; published[n] is    *)
(* the topic of event n.                                                   *)
(***************************************************************************)
EXTENDS Naturals, Sequences, FiniteSets, SequencesExt

CONSTANTS
    Subs,        \* subscription ids, each handed out by one subscribe() call
    Callers,     \* tasks that call unsubscribe() and stop()
    Topics,
    Interest,    \* Interest[s]: the topics the pattern of s matches
    QueueSize,   \* queue_size of every subscription
    LogSize,     \* _max_log_size
    MaxEvents    \* bound of the model: events published in a behaviour

ASSUME BrokerAssumption ==
    /\ IsFiniteSet(Subs)
    /\ Interest \in [Subs -> SUBSET Topics]
    /\ QueueSize \in Nat \ {0}
    /\ LogSize \in Nat \ {0}
    /\ MaxEvents \in Nat

VARIABLES
    running,        \* _running
    subscriptions,  \* _subscriptions, the list in its order
    queue,          \* queue[s]: the events in sub.queue
    worker,         \* worker[s]: where _subscriber_worker stands
    hand,           \* hand[s]: the event its callback is working on, if any
    call,           \* call[c]: the remover c is suspended in, and its locals
    eventLog,       \* _event_log
    metrics         \* _metrics (topics_seen left out)

(* History, read by the properties only.                                   *)
VARIABLES
    published,      \* the topics of all events, in publishing order
    taken,          \* taken[s]: the events the worker of s got, in order
    offered,        \* offered[s]: how many events were routed to s
    aborted,        \* aborted[s]: how many callbacks a cancellation cut off
    asked,          \* the subscriptions someone asked to remove
    shifted         \* the suspended removers whose place in the list moved

history == <<published, taken, offered, aborted, asked, shifted>>
vars == <<running, subscriptions, queue, worker, hand, call, eventLog,
          metrics, history>>

-----------------------------------------------------------------------------
Event == 1 .. MaxEvents
WorkerState == {"none", "get", "callback", "cancelling", "stopped"}
Idle == [op |-> "none"]
Listed == ToSet(subscriptions)

(* _subscriber_worker has returned: the task is done.                      *)
Done(s) == worker[s] = "stopped"

(* task.cancel(): noted by a worker that is waiting or in its callback, a  *)
(* worker that was cancelled before stays so.                              *)
Cancelled(s) == [worker EXCEPT ![s] = "cancelling"]

(* Mutant: the loop starts one position late.                              *)
LiveAfter(i) == {j \in i + 1 .. Len(subscriptions) : ~Done(subscriptions[j])}

(* The positions of subscriptions at or after i with a worker still alive. *)
LiveFrom(i) == {j \in i .. Len(subscriptions) : ~Done(subscriptions[j])}

Init ==
    /\ running = FALSE
    /\ subscriptions = << >>
    /\ queue = [s \in Subs |-> << >>]
    /\ worker = [s \in Subs |-> "none"]
    /\ hand = [s \in Subs |-> << >>]
    /\ call = [c \in Callers |-> Idle]
    /\ eventLog = << >>
    /\ metrics = [published |-> 0, delivered |-> 0, failed |-> 0,
                  dropped |-> 0, active |-> 0]
    /\ published = << >>
    /\ taken = [s \in Subs |-> << >>]
    /\ offered = [s \in Subs |-> 0]
    /\ aborted = [s \in Subs |-> 0]
    /\ asked = {}
    /\ shifted = {}

-----------------------------------------------------------------------------
Start ==
    /\ ~running
    /\ running' = TRUE
    /\ UNCHANGED <<subscriptions, queue, worker, hand, call, eventLog,
                   metrics, history>>

Subscribe(s) ==
    /\ running
    /\ worker[s] = "none"
    /\ worker' = [worker EXCEPT ![s] = "get"]
    /\ subscriptions' = Append(subscriptions, s)
    /\ metrics' = [metrics EXCEPT !.active = Len(subscriptions) + 1]
    /\ UNCHANGED <<running, queue, hand, call, eventLog, history>>

(* The subscriptions an event on topic t is routed to.                     *)
Matching(t) == {s \in Listed : t \in Interest[s]}
Full(s) == Len(queue[s]) >= QueueSize

(* The log keeps its newest LogSize entries.                               *)
Trimmed(log) ==
    IF Len(log) > LogSize
    THEN SubSeq(log, Len(log) - LogSize + 1, Len(log))
    ELSE log

Publish(t) ==
    LET e == Len(published) + 1
    IN  /\ running
        /\ e \in Event
        /\ published' = Append(published, t)
        /\ eventLog' = Trimmed(Append(eventLog, e))
        /\ queue' = [s \in Subs |->
                        IF s \in Matching(t) /\ ~Full(s)
                        THEN Append(queue[s], e) ELSE queue[s]]
        /\ metrics' = [metrics EXCEPT
                        !.published = @ + 1,
                        !.dropped = @ + Cardinality(
                                        {s \in Matching(t) : Full(s)})]
        /\ offered' = [s \in Subs |->
                        offered[s] + (IF s \in Matching(t) THEN 1 ELSE 0)]
        /\ UNCHANGED <<running, subscriptions, worker, hand, call, taken,
                       aborted, asked, shifted>>

-----------------------------------------------------------------------------
(* Mutant: the newest event first.                                         *)
TakeNewest(s) ==
    /\ worker[s] = "get"
    /\ queue[s] # << >>
    /\ worker' = [worker EXCEPT ![s] = "callback"]
    /\ hand' = [hand EXCEPT ![s] = <<Last(queue[s])>>]
    /\ queue' = [queue EXCEPT ![s] = Front(queue[s])]
    /\ taken' = [taken EXCEPT ![s] = Append(taken[s], Last(queue[s]))]
    /\ UNCHANGED <<running, subscriptions, call, eventLog, metrics,
                   published, offered, aborted, asked, shifted>>

(* event = await sub.queue.get(), then the callback runs to its first      *)
(* suspension.                                                             *)
Take(s) ==
    /\ worker[s] = "get"
    /\ queue[s] # << >>
    /\ worker' = [worker EXCEPT ![s] = "callback"]
    /\ hand' = [hand EXCEPT ![s] = <<Head(queue[s])>>]
    /\ queue' = [queue EXCEPT ![s] = Tail(queue[s])]
    /\ taken' = [taken EXCEPT ![s] = Append(taken[s], Head(queue[s]))]
    /\ UNCHANGED <<running, subscriptions, call, eventLog, metrics,
                   published, offered, aborted, asked, shifted>>

CallbackReturns(s) ==
    /\ worker[s] = "callback"
    /\ worker' = [worker EXCEPT ![s] = "get"]
    /\ hand' = [hand EXCEPT ![s] = << >>]
    /\ metrics' = [metrics EXCEPT !.delivered = @ + 1]
    /\ UNCHANGED <<running, subscriptions, queue, call, eventLog, history>>

(* Mutants: the error ends the worker; the error is not counted.           *)
CallbackRaisesOut(s) ==
    /\ worker[s] = "callback"
    /\ worker' = [worker EXCEPT ![s] = "stopped"]
    /\ hand' = [hand EXCEPT ![s] = << >>]
    /\ metrics' = [metrics EXCEPT !.failed = @ + 1]
    /\ UNCHANGED <<running, subscriptions, queue, call, eventLog, history>>

CallbackRaisesUncounted(s) ==
    /\ worker[s] = "callback"
    /\ worker' = [worker EXCEPT ![s] = "get"]
    /\ hand' = [hand EXCEPT ![s] = << >>]
    /\ UNCHANGED <<running, subscriptions, queue, call, eventLog, metrics,
                   history>>

(* except Exception: the error is counted and the worker goes on.          *)
CallbackRaises(s) ==
    /\ worker[s] = "callback"
    /\ worker' = [worker EXCEPT ![s] = "get"]
    /\ hand' = [hand EXCEPT ![s] = << >>]
    /\ metrics' = [metrics EXCEPT !.failed = @ + 1]
    /\ UNCHANGED <<running, subscriptions, queue, call, eventLog, history>>

(* Mutant: the worker's handler also swallows the cancellation.            *)
WorkerSurvives(s) ==
    /\ worker[s] = "cancelling"
    /\ worker' = [worker EXCEPT ![s] = "get"]
    /\ hand' = [hand EXCEPT ![s] = << >>]
    /\ aborted' = [aborted EXCEPT ![s] = @ + Len(hand[s])]
    /\ UNCHANGED <<running, subscriptions, queue, call, eventLog, metrics,
                   published, taken, offered, asked, shifted>>

(* CancelledError is no Exception: it passes the inner handler, and the    *)
(* event in hand is neither delivered nor failed.                          *)
WorkerStops(s) ==
    /\ worker[s] = "cancelling"
    /\ worker' = [worker EXCEPT ![s] = "stopped"]
    /\ hand' = [hand EXCEPT ![s] = << >>]
    /\ aborted' = [aborted EXCEPT ![s] = @ + Len(hand[s])]
    /\ UNCHANGED <<running, subscriptions, queue, call, eventLog, metrics,
                   published, taken, offered, asked, shifted>>

-----------------------------------------------------------------------------
(* Mutant: pop() without the index.                                        *)
PopLast(i) ==
    /\ subscriptions # << >>
    /\ subscriptions' = Front(subscriptions)
    /\ metrics' = [metrics EXCEPT !.active = Len(subscriptions) - 1]

(* self._subscriptions.pop(i) and the gauge, or the IndexError that leaves *)
(* both alone.                                                             *)
Pop(i) ==
    IF i <= Len(subscriptions)
    THEN /\ subscriptions' = RemoveAt(subscriptions, i)
         /\ metrics' = [metrics EXCEPT !.active = Len(subscriptions) - 1]
    ELSE UNCHANGED <<subscriptions, metrics>>

(* History: c changes the list at position i and its call is over; the     *)
(* other removers that are suspended there or further on have lost their   *)
(* places.                                                                 *)
Shift(c, i) ==
    shifted' = (shifted \cup {d \in Callers : call[d] # Idle /\ i <= call[d].index})
                 \ {c}

(* unsubscribe(s) up to its await, or to its return when the worker is     *)
(* already done.  An id that is not listed changes nothing.                *)
Unsubscribe(c, s) ==
    /\ call[c] = Idle
    /\ asked' = asked \cup {s}
    /\ \E i \in DOMAIN subscriptions :
          /\ subscriptions[i] = s
          /\ IF Done(s)
             THEN /\ Pop(i)
                  /\ Shift(c, i)
                  /\ UNCHANGED <<worker, call>>
             ELSE /\ worker' = Cancelled(s)
                  /\ call' = [call EXCEPT ![c] =
                        [op |-> "unsubscribe", sub |-> s, index |-> i]]
                  /\ UNCHANGED <<subscriptions, metrics, shifted>>
    /\ UNCHANGED <<running, queue, hand, eventLog, published, taken, offered,
                   aborted>>

UnsubscribeResumes(c) ==
    /\ call[c].op = "unsubscribe"
    /\ Done(call[c].sub)
    /\ Pop(call[c].index)
    /\ Shift(c, call[c].index)
    /\ call' = [call EXCEPT ![c] = Idle]
    /\ UNCHANGED <<running, queue, worker, hand, eventLog, published, taken,
                   offered, aborted, asked>>

(* stop()'s loop over the list from position i to its next await, or past  *)
(* its end.  The iterator is a position in the list as it is now.          *)
StopFrom(c, i) ==
    \/ \E j \in LiveFrom(i) :
          /\ \A k \in LiveFrom(i) : j <= k
          /\ worker' = Cancelled(subscriptions[j])
          /\ call' = [call EXCEPT ![c] =
                [op |-> "stop", sub |-> subscriptions[j], index |-> j]]
          /\ UNCHANGED <<subscriptions, metrics, shifted>>
    \/ /\ LiveFrom(i) = {}
       /\ subscriptions' = << >>
       /\ metrics' = [metrics EXCEPT !.active = 0]
       /\ call' = [call EXCEPT ![c] = Idle]
       /\ Shift(c, 1)
       /\ UNCHANGED worker

Stop(c) ==
    /\ call[c] = Idle
    /\ running' = FALSE
    /\ asked' = asked \cup Listed
    /\ StopFrom(c, 1)
    /\ UNCHANGED <<queue, hand, eventLog, published, taken, offered, aborted>>

StopResumes(c) ==
    /\ call[c].op = "stop"
    /\ Done(call[c].sub)
    /\ asked' = asked \cup Listed
    /\ StopFrom(c, call[c].index + 1)
    /\ UNCHANGED <<running, queue, hand, eventLog, published, taken, offered,
                   aborted>>

-----------------------------------------------------------------------------
Next ==
    \/ Start
    \/ \E t \in Topics : Publish(t)
    \/ \E s \in Subs :
          \/ Subscribe(s)
          \/ Take(s)
          \/ CallbackReturns(s)
          \/ CallbackRaises(s)
          \/ WorkerStops(s)
    \/ \E c \in Callers :
          \/ \E s \in Subs : Unsubscribe(c, s)
          \/ UnsubscribeResumes(c)
          \/ Stop(c)
          \/ StopResumes(c)

Spec == Init /\ [][Next]_vars

(* The event loop runs every ready task: a worker with something to do and *)
(* a remover whose worker has ended take their next step.  A callback in   *)
(* Stuck may sleep for ever; publishers and callers may stop at any time.  *)
Fairness(Stuck) ==
    /\ \A s \in Subs : WF_vars(Take(s)) /\ WF_vars(WorkerStops(s))
    /\ \A s \in Subs \ Stuck : WF_vars(CallbackReturns(s) \/ CallbackRaises(s))
    /\ \A c \in Callers :
          WF_vars(UnsubscribeResumes(c)) /\ WF_vars(StopResumes(c))

-----------------------------------------------------------------------------
BrokerMetrics == [published : Nat, delivered : Nat, failed : Nat,
                  dropped : Nat, active : Nat]
Removal == [op : {"none"}]
             \cup [op : {"unsubscribe", "stop"}, sub : Subs,
                   index : Nat \ {0}]

(* Types, and the bound of every queue and of the log: no subscriber ever  *)
(* holds more than queue_size events.                                      *)
TypeOK ==
    /\ running \in BOOLEAN
    /\ subscriptions \in Seq(Subs)
    /\ queue \in [Subs -> Seq(Event)]
    /\ \A s \in Subs : Len(queue[s]) <= QueueSize
    /\ worker \in [Subs -> WorkerState]
    /\ hand \in [Subs -> Seq(Event)]
    /\ call \in [Callers -> Removal]
    /\ eventLog \in Seq(Event)
    /\ Len(eventLog) <= LogSize
    /\ metrics \in BrokerMetrics
    /\ published \in Seq(Topics)
    /\ taken \in [Subs -> Seq(Event)]
    /\ offered \in [Subs -> Nat]
    /\ aborted \in [Subs -> Nat]
    /\ asked \in SUBSET Subs
    /\ shifted \in SUBSET Callers

(* e was published under a topic s listens to.                             *)
Wanted(s, e) == e <= Len(published) /\ published[e] \in Interest[s]

Increasing(seq) == \A i, j \in DOMAIN seq : i < j => seq[i] < seq[j]

(* A subscriber sees wanted events only, each at most once and in the      *)
(* order of publishing, whatever is dropped, raised or cancelled on the    *)
(* way, and its queue continues what it took (broker.py:240-250 and 309).  *)
InOrderAtMostOnce ==
    \A s \in Subs :
        /\ \A i \in DOMAIN taken[s] : Wanted(s, taken[s][i])
        /\ \A i \in DOMAIN queue[s] : Wanted(s, queue[s][i])
        /\ Increasing(taken[s])
        /\ Increasing(queue[s])
        /\ \A i \in DOMAIN taken[s], j \in DOMAIN queue[s] :
              taken[s][i] < queue[s][j]

Total(f) == SumFunction(f)

(* The books balance: every event routed to a subscriber is taken, waiting *)
(* or counted as dropped, and every event taken is delivered, failed, in   *)
(* hand or cut off by a cancellation (broker.py:240-250 and 309-330).      *)
BooksBalance ==
    /\ Total(offered) = Total([s \in Subs |-> Len(taken[s]) + Len(queue[s])])
                          + metrics.dropped
    /\ Total([s \in Subs |-> Len(taken[s])]) =
          metrics.delivered + metrics.failed + Total(aborted)
            + Total([s \in Subs |-> Len(hand[s])])

(* A remover that has awaited a worker still points at the subscription it *)
(* was asked to remove (the index of broker.py:198 used at 206).           *)
RemovalIsAimed ==
    \A c \in Callers :
        call[c].op = "unsubscribe" =>
            /\ call[c].index \in DOMAIN subscriptions
            /\ subscriptions[call[c].index] = call[c].sub

(* What goes off the list was asked for and its worker has ended, or a     *)
(* remover that has lost its place goes on.                                *)
LeavesDone ==
    \A s \in Listed \ Listed' :
        \/ s \in asked' /\ Done(s)'
        \/ \E c \in shifted : call'[c] # call[c]

(* A subscription goes off the list only when someone asked for it and its *)
(* worker has ended (broker.py:135-143, 197-207), however many removers    *)
(* meet across their awaits, unless one of them goes on whose place in the *)
(* list another has moved: then the wrong one is popped (206) or passed    *)
(* over (136), against the next two properties.                            *)
RemovedWhenDone == [][LeavesDone]_vars

(* "Remove a subscriber by ID" (broker.py:197): a subscription nobody      *)
(* asked to remove stays listed, and its worker stays alive.  The code     *)
(* keeps this only as long as one task at a time removes subscriptions.    *)
OnlyAskedRemoved ==
    \A s \in Subs : worker[s] # "none" /\ s \notin asked =>
        s \in Listed /\ worker[s] \in {"get", "callback"}

(* stop() is to "Cancel all subscriber worker tasks" (broker.py:135): once *)
(* every stop() has returned and nobody restarted the broker, no worker is *)
(* left running.  The code keeps this, too, only with one remover.         *)
StopQuiesces ==
    ~running /\ (\A c \in Callers : call[c] = Idle) =>
        \A s \in Subs : worker[s] \in {"none", "stopped"}

(* s is through with event e.                                              *)
Handled(s, e) == e \in ToSet(taken[s]) /\ hand[s] # <<e>>

(* Error and latency isolation (broker.py:294-302): an event queued for a  *)
(* subscriber whose callbacks return or raise is handled, unless someone   *)
(* asks to remove the subscription, even if other callbacks never return.  *)
Isolation(Stuck) ==
    \A s \in Subs \ Stuck, e \in Event :
        e \in ToSet(queue[s]) ~> Handled(s, e) \/ s \in asked

(* A removal under way ends: a cancelled worker stops, stuck or not.       *)
RemovalEnds == \A c \in Callers : call[c] # Idle ~> call[c] = Idle

-----------------------------------------------------------------------------
(* What the broker promises, each subscriber having got what its worker    *)
(* took.                                                                   *)
Promise == INSTANCE PubSubPromise WITH log <- published, got <- taken
PromiseSpec == Promise!Spec
==============================================================================
