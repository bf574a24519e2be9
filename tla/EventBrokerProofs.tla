-------------------------- MODULE EventBrokerProofs --------------------------
(***************************************************************************)
(* Proofs about the event broker, for every set of subscriptions, topics   *)
(* and callers and every queue and log size.                               *)
(***************************************************************************)
EXTENDS EventBroker, ListsProofs

(* Removing one position from a list leaves a list of the same elements,   *)
(* one shorter (list.pop).                                                 *)
LEMMA RemoveAtType ==
    ASSUME NEW S, NEW seq \in Seq(S), NEW i \in 1 .. Len(seq)
    PROVE  /\ RemoveAt(seq, i) \in Seq(S)
           /\ Len(RemoveAt(seq, i)) = Len(seq) - 1
<1>1. /\ SubSeq(seq, 1, i - 1) \in Seq(S)
      /\ Len(SubSeq(seq, 1, i - 1)) = i - 1
  <2>1. \A k \in 1 .. i - 1 : seq[k] \in S
    BY ElementOfSeq
  <2> QED
    BY <2>1, SubSeqProperties
<1>2. /\ SubSeq(seq, i + 1, Len(seq)) \in Seq(S)
      /\ Len(SubSeq(seq, i + 1, Len(seq))) = Len(seq) - i
  <2>1. \A k \in i + 1 .. Len(seq) : seq[k] \in S
    BY ElementOfSeq
  <2> QED
    BY <2>1, SubSeqProperties
<1>3. Len(seq) \in Nat
  BY LenProperties
<1> DEFINE l == SubSeq(seq, 1, i - 1)
           r == SubSeq(seq, i + 1, Len(seq))
<1>4. l \o r \in Seq(S) /\ Len(l \o r) = Len(l) + Len(r)
  <2> HIDE DEF l, r
  <2>1. l \in Seq(S) /\ r \in Seq(S)
    BY <1>1, <1>2 DEF l, r
  <2> QED
    BY <2>1, ConcatProperties
<1>5. RemoveAt(seq, i) = l \o r
  BY DEF RemoveAt
<1>6. Len(l) = i - 1 /\ Len(r) = Len(seq) - i
  BY <1>1, <1>2
<1> HIDE DEF l, r
<1> QED
  BY <1>3, <1>4, <1>5, <1>6

(* The log keeps its type and its bound (broker.py:231-233).               *)
LEMMA TrimmedType ==
    ASSUME NEW S, NEW log \in Seq(S), LogSize \in Nat \ {0}
    PROVE  Trimmed(log) \in Seq(S) /\ Len(Trimmed(log)) <= LogSize
<1>1. CASE Len(log) > LogSize
  <2>1. \A k \in Len(log) - LogSize + 1 .. Len(log) : log[k] \in S
    <3>1. \A k \in Len(log) - LogSize + 1 .. Len(log) : k \in 1 .. Len(log)
      BY <1>1, LenProperties
    <3> QED
      BY <3>1, ElementOfSeq
  <2>2. /\ SubSeq(log, Len(log) - LogSize + 1, Len(log)) \in Seq(S)
        /\ Len(SubSeq(log, Len(log) - LogSize + 1, Len(log))) = LogSize
    BY <2>1, <1>1, SubSeqProperties
  <2> QED
    BY <2>2, <1>1 DEF Trimmed
<1>2. CASE ~(Len(log) > LogSize)
  BY <1>2 DEF Trimmed
<1> QED
  BY <1>1, <1>2

(***************************************************************************)
(* Type correctness, with the bounds of the queues and of the log.         *)
(***************************************************************************)
(* The updates the code makes to the metrics.                              *)
LEMMA MetricsType ==
    ASSUME NEW m \in BrokerMetrics, NEW n \in Nat
    PROVE  /\ [m EXCEPT !.delivered = @ + 1] \in BrokerMetrics
           /\ [m EXCEPT !.failed = @ + 1] \in BrokerMetrics
           /\ [m EXCEPT !.active = n] \in BrokerMetrics
           /\ [m EXCEPT !.published = @ + 1, !.dropped = @ + n]
                 \in BrokerMetrics
<1>1. [m EXCEPT !.delivered = @ + 1] \in BrokerMetrics
  BY DEF BrokerMetrics
<1>2. [m EXCEPT !.failed = @ + 1] \in BrokerMetrics
  BY DEF BrokerMetrics
<1>3. [m EXCEPT !.active = n] \in BrokerMetrics
  BY DEF BrokerMetrics
<1>4. [m EXCEPT !.published = @ + 1, !.dropped = @ + n] \in BrokerMetrics
  <2>1. [m EXCEPT !.published = @ + 1] \in BrokerMetrics
    BY DEF BrokerMetrics
  <2>2. m.dropped + n \in Nat
    BY DEF BrokerMetrics
  <2>3. \A o \in BrokerMetrics, k \in Nat :
            [o EXCEPT !.dropped = k] \in BrokerMetrics
    BY DEF BrokerMetrics
  <2> QED
    BY <2>1, <2>2, <2>3
<1> QED
  BY <1>1, <1>2, <1>3, <1>4

LEMMA TypeInit == BrokerAssumption /\ Init => TypeOK
<1> SUFFICES ASSUME BrokerAssumption, Init
             PROVE  TypeOK
  OBVIOUS
<1>0. LogSize \in Nat /\ QueueSize \in Nat
  BY DEF BrokerAssumption
<1>1. /\ subscriptions \in Seq(Subs)
      /\ eventLog \in Seq(Event)
      /\ Len(eventLog) <= LogSize
      /\ published \in Seq(Topics)
      /\ asked \in SUBSET Subs
      /\ shifted \in SUBSET Callers
  BY <1>0 DEF Init
<1>2. /\ queue \in [Subs -> Seq(Event)]
      /\ \A s \in Subs : Len(queue[s]) <= QueueSize
      /\ hand \in [Subs -> Seq(Event)]
      /\ taken \in [Subs -> Seq(Event)]
  BY DEF Init, BrokerAssumption
<1>3. /\ worker \in [Subs -> WorkerState]
      /\ offered \in [Subs -> Nat]
      /\ aborted \in [Subs -> Nat]
  BY DEF Init, WorkerState
<1>4. call \in [Callers -> Removal]
  BY DEF Init, Idle, Removal
<1>5. metrics \in BrokerMetrics
  BY DEF Init, BrokerMetrics
<1>6. running \in BOOLEAN
  BY DEF Init
<1> QED
  BY <1>1, <1>2, <1>3, <1>4, <1>5, <1>6 DEF TypeOK

(* Publishing is the one step that touches the queues of all subscribers.  *)
LEMMA TypePublish ==
    ASSUME BrokerAssumption, TypeOK, NEW t \in Topics, Publish(t)
    PROVE  TypeOK'
<1> DEFINE e == Len(published) + 1
<1>1. e \in Event
  BY DEF Publish, TypeOK
<1>2. /\ eventLog' \in Seq(Event)
      /\ Len(eventLog') <= LogSize
  <2>1. Append(eventLog, e) \in Seq(Event)
    BY <1>1 DEF TypeOK
  <2> HIDE DEF e
  <2> QED
    BY <2>1, TrimmedType DEF Publish, BrokerAssumption, e
<1>3. /\ queue' \in [Subs -> Seq(Event)]
      /\ \A s \in Subs : Len(queue'[s]) <= QueueSize
  <2> SUFFICES ASSUME NEW s \in Subs
               PROVE  queue'[s] \in Seq(Event) /\ Len(queue'[s]) <= QueueSize
    BY DEF Publish
  <2>1. queue[s] \in Seq(Event) /\ Len(queue[s]) <= QueueSize
    BY DEF TypeOK
  <2>2. CASE s \in Matching(t) /\ ~Full(s)
    BY <1>1, <2>1, <2>2 DEF Publish, Full, BrokerAssumption
  <2>3. CASE ~(s \in Matching(t) /\ ~Full(s))
    BY <2>1, <2>3 DEF Publish
  <2> QED
    BY <2>2, <2>3
<1>4. metrics' \in BrokerMetrics
  <2>1. Cardinality({s \in Matching(t) : Full(s)}) \in Nat
    <3>1. {s \in Matching(t) : Full(s)} \subseteq Subs
      BY DEF Matching, Listed, ToSet, TypeOK
    <3> QED
      BY <3>1, FS_Subset, FS_CardinalityType DEF BrokerAssumption
  <2> QED
    BY <2>1, MetricsType DEF Publish, TypeOK
<1>5. offered' \in [Subs -> Nat]
  BY DEF Publish, TypeOK
<1>6. published' \in Seq(Topics)
  BY DEF Publish, TypeOK
<1> QED
  BY <1>2, <1>3, <1>4, <1>5, <1>6 DEF Publish, TypeOK

(* The steps of one subscriber's worker.                                   *)
LEMMA TypeWorker ==
    ASSUME BrokerAssumption, TypeOK, NEW s \in Subs,
           Subscribe(s) \/ Take(s) \/ CallbackReturns(s) \/ CallbackRaises(s)
             \/ WorkerStops(s)
    PROVE  TypeOK'
<1>0. /\ metrics \in BrokerMetrics
      /\ subscriptions \in Seq(Subs)
  BY DEF TypeOK
<1>1. CASE Subscribe(s)
  <2>1. metrics' = [metrics EXCEPT !.active = Len(subscriptions) + 1]
    BY <1>1 DEF Subscribe
  <2>2. Len(subscriptions) + 1 \in Nat
    BY <1>0
  <2>3. metrics' \in BrokerMetrics
    BY <1>0, <2>1, <2>2, MetricsType
  <2> QED
    BY <1>1, <2>3 DEF Subscribe, TypeOK, WorkerState, history
<1>2. CASE Take(s)
  <2>1. /\ Head(queue[s]) \in Event
        /\ Tail(queue[s]) \in Seq(Event)
        /\ Len(Tail(queue[s])) <= QueueSize
    BY <1>2, HeadTailProperties DEF Take, TypeOK, BrokerAssumption
  <2>2. worker' \in [Subs -> WorkerState]
    BY <1>2 DEF Take, TypeOK, WorkerState
  <2>3. /\ queue' \in [Subs -> Seq(Event)]
        /\ \A r \in Subs : Len(queue'[r]) <= QueueSize
    BY <1>2, <2>1 DEF Take, TypeOK
  <2>4. hand' \in [Subs -> Seq(Event)] /\ taken' \in [Subs -> Seq(Event)]
    BY <1>2, <2>1 DEF Take, TypeOK
  <2>5. UNCHANGED <<running, subscriptions, call, eventLog, metrics,
                    published, offered, aborted, asked, shifted>>
    BY <1>2 DEF Take
  <2> QED
    BY <2>2, <2>3, <2>4, <2>5 DEF TypeOK
<1>3. CASE CallbackReturns(s)
  <2>1. metrics' = [metrics EXCEPT !.delivered = @ + 1]
    BY <1>3 DEF CallbackReturns
  <2>2. metrics' \in BrokerMetrics
    BY <1>0, <2>1, MetricsType
  <2>3. worker' \in [Subs -> WorkerState] /\ hand' \in [Subs -> Seq(Event)]
    BY <1>3 DEF CallbackReturns, TypeOK, WorkerState
  <2> QED
    BY <1>3, <2>2, <2>3 DEF CallbackReturns, TypeOK, history
<1>4. CASE CallbackRaises(s)
  <2>1. metrics' = [metrics EXCEPT !.failed = @ + 1]
    BY <1>4 DEF CallbackRaises
  <2>2. metrics' \in BrokerMetrics
    BY <1>0, <2>1, MetricsType
  <2>3. worker' \in [Subs -> WorkerState] /\ hand' \in [Subs -> Seq(Event)]
    BY <1>4 DEF CallbackRaises, TypeOK, WorkerState
  <2> QED
    BY <1>4, <2>2, <2>3 DEF CallbackRaises, TypeOK, history
<1>5. CASE WorkerStops(s)
  <2>1. worker' \in [Subs -> WorkerState] /\ hand' \in [Subs -> Seq(Event)]
    BY <1>5 DEF WorkerStops, TypeOK, WorkerState
  <2>2. aborted' \in [Subs -> Nat]
    BY <1>5 DEF WorkerStops, TypeOK
  <2> QED
    BY <1>5, <2>1, <2>2 DEF WorkerStops, TypeOK
<1> QED
  BY <1>1, <1>2, <1>3, <1>4, <1>5

LEMMA TypePop ==
    ASSUME TypeOK, NEW i \in Nat \ {0}, Pop(i)
    PROVE  /\ subscriptions' \in Seq(Subs)
           /\ metrics' \in BrokerMetrics
<1>0. /\ metrics \in BrokerMetrics
      /\ subscriptions \in Seq(Subs)
  BY DEF TypeOK
<1>1. CASE i <= Len(subscriptions)
  <2>1. /\ subscriptions' = RemoveAt(subscriptions, i)
        /\ metrics' = [metrics EXCEPT !.active = Len(subscriptions) - 1]
    BY <1>1 DEF Pop
  <2>2. i \in 1 .. Len(subscriptions) /\ Len(subscriptions) - 1 \in Nat
    BY <1>0, <1>1
  <2> QED
    BY <1>0, <2>1, <2>2, RemoveAtType, MetricsType
<1>2. CASE ~(i <= Len(subscriptions))
  BY <1>0, <1>2 DEF Pop
<1> QED
  BY <1>1, <1>2

LEMMA ShiftType ==
    ASSUME TypeOK, NEW c, NEW i, Shift(c, i)
    PROVE  shifted' \in SUBSET Callers
BY DEF TypeOK, Shift

LEMMA TypeStopFrom ==
    ASSUME TypeOK, NEW c \in Callers, NEW i \in Nat \ {0}, StopFrom(c, i)
    PROVE  /\ subscriptions' \in Seq(Subs)
           /\ worker' \in [Subs -> WorkerState]
           /\ call' \in [Callers -> Removal]
           /\ metrics' \in BrokerMetrics
           /\ shifted' \in SUBSET Callers
<1>0. /\ metrics \in BrokerMetrics
      /\ subscriptions \in Seq(Subs)
      /\ worker \in [Subs -> WorkerState]
      /\ call \in [Callers -> Removal]
  BY DEF TypeOK
<1>1. CASE /\ subscriptions' = << >>
           /\ metrics' = [metrics EXCEPT !.active = 0]
           /\ call' = [call EXCEPT ![c] = Idle]
           /\ Shift(c, 1)
           /\ UNCHANGED worker
  <2>1. metrics' \in BrokerMetrics
    BY <1>0, <1>1, MetricsType
  <2>2. call' \in [Callers -> Removal]
    BY <1>0, <1>1 DEF Idle, Removal
  <2>3. shifted' \in SUBSET Callers
    BY <1>1, ShiftType
  <2> QED
    BY <1>0, <1>1, <2>1, <2>2, <2>3
<1>2. CASE \E j \in LiveFrom(i) :
               /\ worker' = Cancelled(subscriptions[j])
               /\ call' = [call EXCEPT ![c] =
                    [op |-> "stop", sub |-> subscriptions[j], index |-> j]]
               /\ UNCHANGED <<subscriptions, metrics, shifted>>
  <2>1. PICK j \in LiveFrom(i) :
               /\ worker' = Cancelled(subscriptions[j])
               /\ call' = [call EXCEPT ![c] =
                    [op |-> "stop", sub |-> subscriptions[j], index |-> j]]
               /\ UNCHANGED <<subscriptions, metrics, shifted>>
    BY <1>2
  <2>2. j \in Nat \ {0} /\ subscriptions[j] \in Subs
    BY <1>0 DEF LiveFrom
  <2>3. worker' \in [Subs -> WorkerState]
    BY <1>0, <2>1, <2>2 DEF Cancelled, WorkerState
  <2>4. call' \in [Callers -> Removal]
    BY <1>0, <2>1, <2>2 DEF Removal
  <2>5. shifted' \in SUBSET Callers
    BY <2>1 DEF TypeOK
  <2> QED
    BY <1>0, <2>1, <2>3, <2>4, <2>5
<1> QED
  BY <1>1, <1>2 DEF StopFrom

(* The locals of a suspended removal.                                      *)
LEMMA CallLocals ==
    ASSUME TypeOK, NEW c \in Callers, call[c].op \in {"unsubscribe", "stop"}
    PROVE  /\ call[c].index \in Nat \ {0}
           /\ call[c].index + 1 \in Nat \ {0}
           /\ call[c].sub \in Subs
<1>1. call \in [Callers -> Removal]
  BY DEF TypeOK
<1> QED
  BY <1>1 DEF Removal

(* The steps of a caller that removes subscriptions.                       *)
LEMMA TypeCaller ==
    ASSUME BrokerAssumption, TypeOK, NEW c \in Callers,
           \/ \E s \in Subs : Unsubscribe(c, s)
           \/ UnsubscribeResumes(c) \/ Stop(c) \/ StopResumes(c)
    PROVE  TypeOK'
<1>0. /\ subscriptions \in Seq(Subs)
      /\ worker \in [Subs -> WorkerState]
      /\ call \in [Callers -> Removal]
      /\ asked \in SUBSET Subs
      /\ Listed \subseteq Subs
  BY DEF TypeOK, Listed, ToSet
<1>1. ASSUME NEW s \in Subs, Unsubscribe(c, s)
      PROVE  TypeOK'
  <2>1. PICK i \in DOMAIN subscriptions :
            /\ subscriptions[i] = s
            /\ IF Done(s)
               THEN Pop(i) /\ Shift(c, i) /\ UNCHANGED <<worker, call>>
               ELSE /\ worker' = Cancelled(s)
                    /\ call' = [call EXCEPT ![c] =
                          [op |-> "unsubscribe", sub |-> s, index |-> i]]
                    /\ UNCHANGED <<subscriptions, metrics, shifted>>
    BY <1>1 DEF Unsubscribe
  <2>2. i \in Nat \ {0}
    BY <1>0
  <2>3. asked' \in SUBSET Subs
    BY <1>0, <1>1 DEF Unsubscribe
  <2>4. CASE Done(s)
    <3>1. Pop(i) /\ Shift(c, i) /\ UNCHANGED <<worker, call>>
      BY <2>1, <2>4
    <3>2. shifted' \in SUBSET Callers
      BY <3>1, ShiftType
    <3>3. subscriptions' \in Seq(Subs) /\ metrics' \in BrokerMetrics
      BY <2>2, <3>1, TypePop
    <3> QED
      BY <1>1, <2>3, <3>1, <3>2, <3>3 DEF Unsubscribe, TypeOK
  <2>5. CASE ~Done(s)
    <3>1. worker' \in [Subs -> WorkerState]
      BY <1>0, <2>1, <2>5 DEF Cancelled, WorkerState
    <3>2. call' \in [Callers -> Removal]
      BY <1>0, <2>1, <2>2, <2>5 DEF Removal
    <3>3. UNCHANGED <<subscriptions, metrics, shifted>>
      BY <2>1, <2>5
    <3> QED
      BY <1>1, <2>3, <3>1, <3>2, <3>3 DEF Unsubscribe, TypeOK
  <2> QED
    BY <2>4, <2>5
<1>2. CASE UnsubscribeResumes(c)
  <2>1. Pop(call[c].index) /\ call[c].index \in Nat \ {0}
    BY <1>2, CallLocals DEF UnsubscribeResumes
  <2>2. call' \in [Callers -> Removal]
    BY <1>0, <1>2 DEF UnsubscribeResumes, Idle, Removal
  <2>3. subscriptions' \in Seq(Subs) /\ metrics' \in BrokerMetrics
    BY <2>1, TypePop
  <2>4. shifted' \in SUBSET Callers
    BY <1>2, ShiftType DEF UnsubscribeResumes
  <2> QED
    BY <1>2, <2>2, <2>3, <2>4 DEF UnsubscribeResumes, TypeOK
<1>3. CASE Stop(c)
  <2>1. StopFrom(c, 1) /\ asked' \in SUBSET Subs
    BY <1>0, <1>3 DEF Stop
  <2>2. /\ subscriptions' \in Seq(Subs)
        /\ worker' \in [Subs -> WorkerState]
        /\ call' \in [Callers -> Removal]
        /\ metrics' \in BrokerMetrics
        /\ shifted' \in SUBSET Callers
    BY <2>1, TypeStopFrom
  <2> QED
    BY <1>3, <2>1, <2>2 DEF Stop, TypeOK
<1>4. CASE StopResumes(c)
  <2>1. /\ StopFrom(c, call[c].index + 1)
        /\ call[c].index + 1 \in Nat \ {0}
        /\ asked' \in SUBSET Subs
    BY <1>0, <1>4, CallLocals DEF StopResumes
  <2>2. /\ subscriptions' \in Seq(Subs)
        /\ worker' \in [Subs -> WorkerState]
        /\ call' \in [Callers -> Removal]
        /\ metrics' \in BrokerMetrics
        /\ shifted' \in SUBSET Callers
    BY <2>1, TypeStopFrom
  <2> QED
    BY <1>4, <2>1, <2>2 DEF StopResumes, TypeOK
<1> QED
  BY <1>1, <1>2, <1>3, <1>4

LEMMA TypeStep == BrokerAssumption /\ TypeOK /\ [Next]_vars => TypeOK'
<1> SUFFICES ASSUME BrokerAssumption, TypeOK, [Next]_vars
             PROVE  TypeOK'
  OBVIOUS
<1>1. CASE Start
  BY <1>1 DEF Start, TypeOK, history
<1>2. CASE \E t \in Topics : Publish(t)
  BY <1>2, TypePublish
<1>3. CASE \E s \in Subs :
              Subscribe(s) \/ Take(s) \/ CallbackReturns(s)
                \/ CallbackRaises(s) \/ WorkerStops(s)
  BY <1>3, TypeWorker
<1>4. CASE \E c \in Callers :
              \/ \E s \in Subs : Unsubscribe(c, s)
              \/ UnsubscribeResumes(c) \/ Stop(c) \/ StopResumes(c)
  BY <1>4, TypeCaller
<1>5. CASE UNCHANGED vars
  BY <1>5 DEF vars, history, TypeOK
<1> QED
  BY <1>1, <1>2, <1>3, <1>4, <1>5 DEF Next

(* Every reachable state is well typed: in particular no subscriber ever   *)
(* holds more than queue_size events, and the log no more than             *)
(* _max_log_size.                                                          *)
THEOREM TypeCorrect == Spec => []TypeOK
<1>1. BrokerAssumption
  BY BrokerAssumption
<1> QED
  BY <1>1, TypeInit, TypeStep, PTL DEF Spec

-----------------------------------------------------------------------------
(***************************************************************************)
(* In order, at most once.                                                 *)
(***************************************************************************)
(* What InOrderAtMostOnce says of one subscriber.                          *)
InOrder(s) ==
    /\ \A i \in DOMAIN taken[s] : Wanted(s, taken[s][i])
    /\ \A i \in DOMAIN queue[s] : Wanted(s, queue[s][i])
    /\ Increasing(taken[s])
    /\ Increasing(queue[s])
    /\ \A i \in DOMAIN taken[s], j \in DOMAIN queue[s] :
          taken[s][i] < queue[s][j]

(* Wanted, read in the next state.                                         *)
WantedNext(s, e) == e <= Len(published') /\ published'[e] \in Interest[s]

(* A published event keeps its topic, and the next event is newer.         *)
LEMMA WantedStays ==
    ASSUME TypeOK, NEW t \in Topics, Publish(t), NEW s \in Subs,
           NEW e \in Event, Wanted(s, e)
    PROVE  WantedNext(s, e) /\ e < Len(published) + 1
<1>1. published \in Seq(Topics) /\ published' = Append(published, t)
  BY DEF TypeOK, Publish
<1>2. e \in 1 .. Len(published)
  BY <1>1 DEF Wanted, Event
<1> QED
  BY <1>1, <1>2 DEF Wanted, WantedNext

LEMMA OrderPublish ==
    ASSUME TypeOK, NEW t \in Topics, Publish(t), NEW s \in Subs, InOrder(s)
    PROVE  InOrder(s)'
<1> DEFINE e == Len(published) + 1
<1>1. /\ taken[s] \in Seq(Event)
      /\ queue[s] \in Seq(Event)
      /\ published \in Seq(Topics)
      /\ taken'[s] = taken[s]
      /\ published' = Append(published, t)
      /\ e \in Event
  BY DEF TypeOK, Publish
<1>0. /\ \A i \in DOMAIN taken[s] : Wanted(s, taken[s][i])
      /\ \A i \in DOMAIN queue[s] : Wanted(s, queue[s][i])
      /\ Increasing(taken[s])
      /\ Increasing(queue[s])
      /\ \A i \in DOMAIN taken[s], j \in DOMAIN queue[s] :
            taken[s][i] < queue[s][j]
  BY DEF InOrder
<1>2. \A i \in DOMAIN taken[s] : WantedNext(s, taken[s][i]) /\ taken[s][i] < e
  <2>1. \A i \in DOMAIN taken[s] : taken[s][i] \in Event
    BY <1>1
  <2> QED
    BY <1>0, <2>1, WantedStays
<1>3. \A i \in DOMAIN queue[s] : WantedNext(s, queue[s][i]) /\ queue[s][i] < e
  <2>1. \A i \in DOMAIN queue[s] : queue[s][i] \in Event
    BY <1>1
  <2> QED
    BY <1>0, <2>1, WantedStays
<1>4. CASE s \in Matching(t) /\ ~Full(s)
  <2>1. queue'[s] = Append(queue[s], e)
    BY <1>4 DEF Publish
  <2>2. WantedNext(s, e)
    <3>1. published'[e] = t /\ Len(published') = e
      BY <1>1
    <3>2. t \in Interest[s]
      BY <1>4 DEF Matching
    <3>3. e <= Len(published')
      BY <1>1, <3>1
    <3> QED
      BY <3>1, <3>2, <3>3 DEF WantedNext
  <2> HIDE DEF e
  <2>6. /\ DOMAIN queue[s] = 1 .. Len(queue[s])
        /\ DOMAIN queue'[s] = 1 .. Len(queue[s]) + 1
        /\ Len(queue[s]) \in Nat
        /\ \A i \in DOMAIN queue[s] : queue'[s][i] = queue[s][i]
        /\ queue'[s][Len(queue[s]) + 1] = e
    BY <1>1, <2>1
  <2>3. \A i \in DOMAIN queue'[s] : WantedNext(s, queue'[s][i])
    <3> SUFFICES ASSUME NEW i \in DOMAIN queue'[s]
                 PROVE  WantedNext(s, queue'[s][i])
      OBVIOUS
    <3>1. CASE i \in DOMAIN queue[s]
      BY <1>3, <2>6, <3>1
    <3>2. CASE i = Len(queue[s]) + 1
      BY <2>2, <2>6, <3>2
    <3> QED
      BY <2>6, <3>1, <3>2
  <2>4. Increasing(queue'[s])
    BY <1>0, <1>3, <2>6 DEF Increasing
  <2>5. \A i \in DOMAIN taken[s], j \in DOMAIN queue'[s] :
            taken[s][i] < queue'[s][j]
    BY <1>0, <1>2, <2>6
  <2> QED
    BY <1>0, <1>1, <1>2, <2>3, <2>4, <2>5 DEF InOrder, Wanted, WantedNext
<1>5. CASE ~(s \in Matching(t) /\ ~Full(s))
  <2>1. queue'[s] = queue[s]
    BY <1>5 DEF Publish
  <2> QED
    BY <1>0, <1>1, <1>2, <1>3, <2>1 DEF InOrder, Wanted, WantedNext
<1> QED
  BY <1>4, <1>5

LEMMA OrderTake ==
    ASSUME TypeOK, NEW s \in Subs, Take(s), InOrder(s)
    PROVE  InOrder(s)'
<1> DEFINE q == queue[s]
           k == taken[s]
<1>1. q \in Seq(Event) /\ k \in Seq(Event) /\ q # << >>
  BY DEF TypeOK, Take
<1>2. /\ queue'[s] = Tail(q)
      /\ taken'[s] = Append(k, Head(q))
      /\ published' = published
  BY DEF TypeOK, Take
<1>3. /\ \A i \in DOMAIN k : Wanted(s, k[i])
      /\ \A i \in DOMAIN q : Wanted(s, q[i])
      /\ \A i, j \in DOMAIN k : i < j => k[i] < k[j]
      /\ \A i, j \in DOMAIN q : i < j => q[i] < q[j]
      /\ \A i \in DOMAIN k, j \in DOMAIN q : k[i] < q[j]
  BY DEF InOrder, Increasing
<1> HIDE DEF q, k
<1>4. /\ Head(q) = q[1]
      /\ Len(q) \in Nat /\ Len(k) \in Nat
      /\ DOMAIN q = 1 .. Len(q)
      /\ DOMAIN k = 1 .. Len(k)
      /\ 1 \in DOMAIN q
      /\ DOMAIN Tail(q) = 1 .. Len(q) - 1
      /\ \A i \in DOMAIN Tail(q) : Tail(q)[i] = q[i + 1] /\ i + 1 \in DOMAIN q
  BY <1>1
<1>5. /\ DOMAIN Append(k, Head(q)) = 1 .. Len(k) + 1
      /\ \A i \in DOMAIN k : Append(k, Head(q))[i] = k[i]
      /\ Append(k, Head(q))[Len(k) + 1] = q[1]
  BY <1>1, <1>4
<1>6. \A i \in DOMAIN Append(k, Head(q)) : Wanted(s, Append(k, Head(q))[i])
  BY <1>3, <1>4, <1>5
<1>7. \A i \in DOMAIN Tail(q) : Wanted(s, Tail(q)[i])
  BY <1>3, <1>4
<1>8. Increasing(Append(k, Head(q)))
  BY <1>3, <1>4, <1>5 DEF Increasing
<1>9. Increasing(Tail(q))
  BY <1>3, <1>4 DEF Increasing
<1>10. \A i \in DOMAIN Append(k, Head(q)), j \in DOMAIN Tail(q) :
          Append(k, Head(q))[i] < Tail(q)[j]
  BY <1>3, <1>4, <1>5
<1> QED
  BY <1>2, <1>6, <1>7, <1>8, <1>9, <1>10 DEF InOrder, Wanted

(* Only publishing and taking touch what InOrderAtMostOnce speaks of.      *)
LEMMA OrderOthers ==
    ASSUME [Next]_vars,
           ~(\E t \in Topics : Publish(t)), ~(\E s \in Subs : Take(s))
    PROVE  UNCHANGED <<queue, taken, published>>
BY DEF Next, vars, history, Start, Subscribe, CallbackReturns, CallbackRaises,
       WorkerStops, Unsubscribe, UnsubscribeResumes, Stop, StopResumes

LEMMA OrderStep == TypeOK /\ InOrderAtMostOnce /\ [Next]_vars
                      => InOrderAtMostOnce'
<1> SUFFICES ASSUME TypeOK, InOrderAtMostOnce, [Next]_vars, NEW s \in Subs
             PROVE  InOrder(s)'
  BY DEF InOrderAtMostOnce, InOrder
<1>0. InOrder(s)
  BY DEF InOrderAtMostOnce, InOrder
<1>1. CASE \E t \in Topics : Publish(t)
  BY <1>0, <1>1, OrderPublish
<1>2. ASSUME NEW r \in Subs, Take(r)
      PROVE  InOrder(s)'
  <2>1. CASE r = s
    BY <1>0, <1>2, <2>1, OrderTake
  <2>2. CASE r # s
    <3>1. /\ queue'[s] = queue[s]
          /\ taken'[s] = taken[s]
          /\ published' = published
      BY <1>2, <2>2 DEF Take, TypeOK
    <3> QED
      BY <1>0, <3>1 DEF InOrder, Wanted
  <2> QED
    BY <2>1, <2>2
<1>3. CASE UNCHANGED <<queue, taken, published>>
  BY <1>0, <1>3 DEF InOrder, Wanted
<1> QED
  BY <1>1, <1>2, <1>3, OrderOthers

LEMMA OrderInit == Init => InOrderAtMostOnce
BY DEF Init, InOrderAtMostOnce, Increasing

(* Whatever is dropped, raised or cancelled, each subscriber takes wanted  *)
(* events only, in publishing order and none twice.                        *)
THEOREM DeliveryOrder == Spec => []InOrderAtMostOnce
<1>1. Spec => []TypeOK
  BY TypeCorrect
<1> QED
  BY <1>1, OrderInit, OrderStep, PTL DEF Spec

-----------------------------------------------------------------------------
(***************************************************************************)
(* The broker implements its promise.                                      *)
(***************************************************************************)
LEMMA PromiseInit == Init => Promise!Init
BY DEF Init, Promise!Init

(* The event a worker takes is newer than all it has seen.                 *)
LEMMA PromiseTake ==
    ASSUME TypeOK, InOrderAtMostOnce, NEW s \in Subs, Take(s)
    PROVE  Promise!Deliver(s)
<1> DEFINE e == Head(queue[s])
<1>1. /\ queue[s] \in Seq(Event) /\ queue[s] # << >>
      /\ taken[s] \in Seq(Event)
      /\ taken' = [taken EXCEPT ![s] = Append(taken[s], e)]
      /\ published' = published
  BY DEF TypeOK, Take
<1>2. 1 \in DOMAIN queue[s] /\ e = queue[s][1]
  BY <1>1
<1>3. e \in 1 .. Len(published) /\ published[e] \in Interest[s]
  <2>1. e \in Event /\ Len(published) \in Nat
    BY <1>1, <1>2 DEF TypeOK
  <2>2. Wanted(s, e)
    BY <1>2 DEF InOrderAtMostOnce
  <2> QED
    BY <2>1, <2>2 DEF Wanted, Event
<1>4. e > Promise!Seen(s)
  <2>1. CASE taken[s] = << >>
    BY <1>3, <2>1 DEF Promise!Seen
  <2>2. CASE taken[s] # << >>
    <3>1. Len(taken[s]) \in DOMAIN taken[s]
      BY <1>1, <2>2
    <3>2. taken[s][Len(taken[s])] < e
      BY <1>2, <3>1 DEF InOrderAtMostOnce
    <3> QED
      BY <1>3, <2>2, <3>1, <3>2 DEF Promise!Seen
  <2> QED
    BY <2>1, <2>2
<1> QED
  BY <1>1, <1>3, <1>4 DEF Promise!Deliver

LEMMA PromiseStep ==
    TypeOK /\ InOrderAtMostOnce /\ [Next]_vars
       => [Promise!Next]_(Promise!promiseVars)
<1> SUFFICES ASSUME TypeOK, InOrderAtMostOnce, [Next]_vars
             PROVE  [Promise!Next]_(Promise!promiseVars)
  OBVIOUS
<1>1. CASE \E t \in Topics : Publish(t)
  BY <1>1 DEF Publish, Promise!Next, Promise!Publish
<1>2. CASE \E s \in Subs : Take(s)
  BY <1>2, PromiseTake DEF Promise!Next
<1>3. CASE UNCHANGED <<queue, taken, published>>
  BY <1>3 DEF Promise!promiseVars
<1> QED
  BY <1>1, <1>2, <1>3, OrderOthers

(* Seen from its subscribers, the broker with its queues, workers, drops   *)
(* and removals is an at-most-once, in-order channel.                      *)
THEOREM BrokerKeepsPromise == Spec => PromiseSpec
<1>1. Spec => []TypeOK
  BY TypeCorrect
<1>2. Spec => []InOrderAtMostOnce
  BY DeliveryOrder
<1> QED
  BY <1>1, <1>2, PromiseInit, PromiseStep, PTL
     DEF Spec, PromiseSpec, Promise!Spec

-----------------------------------------------------------------------------
(***************************************************************************)
(* With one caller, removal hits its target.                               *)
(***************************************************************************)
(* A suspended unsubscribe was asked for.                                  *)
AskedFirst ==
    \A c \in Callers : call[c].op = "unsubscribe" => call[c].sub \in asked

RemovalInv == RemovalIsAimed /\ AskedFirst /\ OnlyAskedRemoved

(* pop(i) takes the element at i from the list and no other.               *)
LEMMA RemoveAtKeeps ==
    ASSUME NEW S, NEW seq \in Seq(S), NEW i \in 1 .. Len(seq),
           NEW j \in 1 .. Len(seq), j # i
    PROVE  seq[j] \in ToSet(RemoveAt(seq, i))
<1> DEFINE l == SubSeq(seq, 1, i - 1)
           r == SubSeq(seq, i + 1, Len(seq))
<1>0. Len(seq) \in Nat
  OBVIOUS
<1>1. /\ l \in Seq(S)
      /\ Len(l) = i - 1
      /\ \A k \in 1 .. i - 1 : l[k] = seq[k]
  <2>1. \A k \in 1 .. i - 1 : seq[k] \in S
    BY ElementOfSeq
  <2> QED
    BY <2>1, SubSeqProperties
<1>2. /\ r \in Seq(S)
      /\ Len(r) = Len(seq) - i
      /\ \A k \in 1 .. Len(seq) - i : r[k] = seq[i + k]
  <2>1. \A k \in i + 1 .. Len(seq) : seq[k] \in S
    BY ElementOfSeq
  <2> QED
    BY <2>1, SubSeqProperties
<1>3. RemoveAt(seq, i) = l \o r
  BY DEF RemoveAt
<1> HIDE DEF l, r
<1>4. /\ l \o r \in Seq(S)
      /\ Len(l \o r) = Len(l) + Len(r)
      /\ \A k \in 1 .. Len(l) + Len(r) :
            (l \o r)[k] = IF k <= Len(l) THEN l[k] ELSE r[k - Len(l)]
  BY <1>1, <1>2, ConcatProperties
<1>5. DOMAIN (l \o r) = 1 .. Len(l) + Len(r)
  BY <1>4
<1>6. CASE j < i
  <2>1. j \in DOMAIN (l \o r) /\ (l \o r)[j] = seq[j]
    BY <1>0, <1>1, <1>2, <1>4, <1>5, <1>6
  <2> QED
    BY <1>3, <2>1 DEF ToSet
<1>7. CASE j > i
  <2>1. j - 1 \in DOMAIN (l \o r)
    BY <1>0, <1>1, <1>2, <1>5, <1>7
  <2>2. (l \o r)[j - 1] = r[j - i]
    BY <1>0, <1>1, <1>2, <1>4, <1>7
  <2>3. r[j - i] = seq[j]
    BY <1>0, <1>2, <1>7
  <2> QED
    BY <1>3, <2>1, <2>2, <2>3 DEF ToSet
<1> QED
  BY <1>6, <1>7

LEMMA RemovalInit == Init => RemovalInv
BY DEF Init, Idle, RemovalInv, RemovalIsAimed, AskedFirst, OnlyAskedRemoved

(* Steps that leave the list, the removals and what was asked alone, and   *)
(* cancel or stop nobody who was not asked for.                            *)
LEMMA RemovalUntouched ==
    ASSUME TypeOK, RemovalInv,
           UNCHANGED <<subscriptions, call, asked>>,
           \A s \in Subs : worker'[s] # worker[s] =>
              \/ worker[s] \in {"get", "callback"}
                   /\ worker'[s] \in {"get", "callback"}
              \/ worker[s] = "cancelling"
    PROVE  RemovalInv'
BY DEF RemovalInv, RemovalIsAimed, AskedFirst, OnlyAskedRemoved, Listed, ToSet

LEMMA RemovalSubscribe ==
    ASSUME TypeOK, RemovalInv, NEW s \in Subs, Subscribe(s)
    PROVE  RemovalInv'
<1>1. /\ subscriptions \in Seq(Subs)
      /\ worker \in [Subs -> WorkerState]
      /\ subscriptions' = Append(subscriptions, s)
      /\ worker' = [worker EXCEPT ![s] = "get"]
      /\ UNCHANGED <<call, asked>>
  BY DEF TypeOK, Subscribe, history
<1>2. /\ \A i \in DOMAIN subscriptions :
            i \in DOMAIN subscriptions' /\ subscriptions'[i] = subscriptions[i]
      /\ Len(subscriptions) + 1 \in DOMAIN subscriptions'
      /\ subscriptions'[Len(subscriptions) + 1] = s
  BY <1>1
<1>3. Listed \subseteq Listed' /\ s \in Listed'
  BY <1>2 DEF Listed, ToSet
<1>4. RemovalIsAimed'
  BY <1>1, <1>2 DEF RemovalInv, RemovalIsAimed
<1>5. AskedFirst'
  BY <1>1 DEF RemovalInv, AskedFirst
<1>6. OnlyAskedRemoved'
  BY <1>1, <1>3 DEF RemovalInv, OnlyAskedRemoved
<1> QED
  BY <1>4, <1>5, <1>6 DEF RemovalInv

(* Popping the position of a subscription that was asked for.              *)
LEMMA RemovalPop ==
    ASSUME TypeOK, OnlyAskedRemoved, NEW i \in DOMAIN subscriptions, Pop(i),
           asked \subseteq asked', subscriptions[i] \in asked',
           worker' = worker
    PROVE  OnlyAskedRemoved'
<1>0. subscriptions \in Seq(Subs)
  BY DEF TypeOK
<1>1. subscriptions \in Seq(Subs) /\ i \in 1 .. Len(subscriptions)
  BY <1>0
<1>2. subscriptions' = RemoveAt(subscriptions, i)
  BY <1>1 DEF Pop
<1> SUFFICES ASSUME NEW s \in Subs, worker'[s] # "none", s \notin asked'
             PROVE  s \in Listed' /\ worker'[s] \in {"get", "callback"}
  BY DEF OnlyAskedRemoved
<1>3. s \in Listed /\ worker[s] \in {"get", "callback"}
  BY DEF OnlyAskedRemoved
<1>4. PICK j \in 1 .. Len(subscriptions) : subscriptions[j] = s
  BY <1>1, <1>3 DEF Listed, ToSet
<1>5. s \in ToSet(RemoveAt(subscriptions, i))
  BY <1>1, <1>4, RemoveAtKeeps
<1> QED
  BY <1>2, <1>3, <1>5 DEF Listed

(* The loop of stop() cancels and forgets what is listed, and all of that  *)
(* was asked for.                                                          *)
LEMMA RemovalStopFrom ==
    ASSUME TypeOK, RemovalInv, NEW c \in Callers, Callers = {c},
           NEW i \in Nat \ {0}, StopFrom(c, i), asked' = asked \cup Listed
    PROVE  RemovalInv'
<1>0. /\ subscriptions \in Seq(Subs)
      /\ worker \in [Subs -> WorkerState]
      /\ call \in [Callers -> Removal]
  BY DEF TypeOK
<1>1. call'[c].op # "unsubscribe"
  BY <1>0 DEF StopFrom, Idle
<1>2. RemovalIsAimed' /\ AskedFirst'
  BY <1>1 DEF RemovalIsAimed, AskedFirst
<1>3. \A s \in Subs : worker[s] # "none" => s \in asked'
  BY DEF RemovalInv, OnlyAskedRemoved
<1>4. \A s \in Subs : worker'[s] # worker[s] => s \in Listed
  BY <1>0 DEF StopFrom, LiveFrom, Cancelled, Listed, ToSet
<1> QED
  BY <1>2, <1>3, <1>4 DEF RemovalInv, OnlyAskedRemoved

LEMMA RemovalUnsubscribe ==
    ASSUME TypeOK, RemovalInv, NEW c \in Callers, Callers = {c},
           NEW s \in Subs, Unsubscribe(c, s)
    PROVE  RemovalInv'
<1>0. /\ subscriptions \in Seq(Subs)
      /\ worker \in [Subs -> WorkerState]
      /\ call \in [Callers -> Removal]
      /\ call[c] = Idle
      /\ asked' = asked \cup {s}
  BY DEF TypeOK, Unsubscribe
<1>1. PICK i \in DOMAIN subscriptions :
            /\ subscriptions[i] = s
            /\ IF Done(s)
               THEN Pop(i) /\ UNCHANGED <<worker, call>>
               ELSE /\ worker' = Cancelled(s)
                    /\ call' = [call EXCEPT ![c] =
                          [op |-> "unsubscribe", sub |-> s, index |-> i]]
                    /\ UNCHANGED <<subscriptions, metrics, shifted>>
  BY DEF Unsubscribe
<1>2. CASE Done(s)
  <2>1. call'[c].op = "none"
    BY <1>0, <1>1, <1>2 DEF Idle
  <2>2. OnlyAskedRemoved'
    BY <1>0, <1>1, <1>2, RemovalPop DEF RemovalInv
  <2> QED
    BY <2>1, <2>2 DEF RemovalInv, RemovalIsAimed, AskedFirst
<1>3. CASE ~Done(s)
  <2>1. call'[c] = [op |-> "unsubscribe", sub |-> s, index |-> i]
    BY <1>0, <1>1, <1>3
  <2>2. RemovalIsAimed' /\ AskedFirst'
    BY <1>0, <1>1, <1>3, <2>1 DEF RemovalIsAimed, AskedFirst
  <2>3. OnlyAskedRemoved'
    BY <1>0, <1>1, <1>3 DEF RemovalInv, OnlyAskedRemoved, Cancelled, Listed
  <2> QED
    BY <2>2, <2>3 DEF RemovalInv
<1> QED
  BY <1>2, <1>3

LEMMA RemovalResumes ==
    ASSUME TypeOK, RemovalInv, NEW c \in Callers, Callers = {c},
           UnsubscribeResumes(c)
    PROVE  RemovalInv'
<1>1. /\ call \in [Callers -> Removal]
      /\ call' = [call EXCEPT ![c] = Idle]
      /\ Pop(call[c].index)
      /\ UNCHANGED <<worker, asked>>
  BY DEF TypeOK, UnsubscribeResumes, history
<1>2. /\ call[c].index \in DOMAIN subscriptions
      /\ subscriptions[call[c].index] \in asked
  BY DEF RemovalInv, RemovalIsAimed, AskedFirst, UnsubscribeResumes
<1>3. OnlyAskedRemoved'
  BY <1>1, <1>2, RemovalPop DEF RemovalInv
<1>4. call'[c].op = "none"
  BY <1>1 DEF Idle
<1> QED
  BY <1>3, <1>4 DEF RemovalInv, RemovalIsAimed, AskedFirst

LEMMA RemovalStep ==
    ASSUME NEW c \in Callers, Callers = {c}
    PROVE  TypeOK /\ RemovalInv /\ [Next]_vars => RemovalInv'
<1> SUFFICES ASSUME TypeOK, RemovalInv, [Next]_vars
             PROVE  RemovalInv'
  OBVIOUS
<1>0. worker \in [Subs -> WorkerState]
  BY DEF TypeOK
<1>1. CASE Start \/ (\E t \in Topics : Publish(t)) \/ UNCHANGED vars
  BY <1>1, RemovalUntouched DEF Start, Publish, vars, history
<1>2. CASE \E s \in Subs : Subscribe(s)
  BY <1>2, RemovalSubscribe
<1>3. ASSUME NEW s \in Subs,
             Take(s) \/ CallbackReturns(s) \/ CallbackRaises(s)
               \/ WorkerStops(s)
      PROVE  RemovalInv'
  BY <1>0, <1>3, RemovalUntouched
     DEF Take, CallbackReturns, CallbackRaises, WorkerStops, history
<1>4. CASE \E s \in Subs : Unsubscribe(c, s)
  BY <1>4, RemovalUnsubscribe
<1>5. CASE UnsubscribeResumes(c)
  BY <1>5, RemovalResumes
<1>6. CASE Stop(c)
  BY <1>6, RemovalStopFrom DEF Stop
<1>7. CASE StopResumes(c)
  <2>1. call[c].index + 1 \in Nat \ {0}
    BY <1>7, CallLocals DEF StopResumes
  <2> QED
    BY <1>7, <2>1, RemovalStopFrom DEF StopResumes
<1> QED
  BY <1>1, <1>2, <1>3, <1>4, <1>5, <1>6, <1>7 DEF Next

(* As long as a single task removes subscriptions, unsubscribe() removes   *)
(* the one it was given and no other, and stop() leaves nobody out: what   *)
(* nobody asked to remove stays listed and served.  With two such tasks    *)
(* this fails (run broker_race), and OnlyShiftedMiss is what is left.      *)
THEOREM SingleRemoverIsSafe ==
    ASSUME NEW c \in Callers, Callers = {c}
    PROVE  Spec => []OnlyAskedRemoved
<1>1. Spec => []TypeOK
  BY TypeCorrect
<1>2. TypeOK /\ RemovalInv /\ [Next]_vars => RemovalInv'
  BY RemovalStep
<1>3. RemovalInv => OnlyAskedRemoved
  BY DEF RemovalInv
<1> QED
  BY <1>1, <1>2, <1>3, RemovalInit, PTL DEF Spec
-----------------------------------------------------------------------------
(***************************************************************************)
(* With one caller, stop() leaves no worker behind.                        *)
(***************************************************************************)
(* Whoever is off the list has no worker, or one that has returned.        *)
UnlistedRest ==
    \A s \in Subs : s \notin Listed => worker[s] \in {"none", "stopped"}

(* A suspended stop() awaits the worker at its position of the list, and   *)
(* every worker before it has returned.                                    *)
StopSweeps ==
    \A c \in Callers :
        call[c].op = "stop" =>
            /\ call[c].index \in DOMAIN subscriptions
            /\ subscriptions[call[c].index] = call[c].sub
            /\ \A k \in 1 .. call[c].index - 1 : Done(subscriptions[k])

(* Outside of stop(), a broker that is not running has nobody listed.      *)
StoppedIsEmpty ==
    \A c \in Callers :
        ~running /\ call[c].op # "stop" => subscriptions = << >>

QuietInv == UnlistedRest /\ StopSweeps /\ StoppedIsEmpty

LEMMA QuietInit == Init => QuietInv
BY DEF Init, Idle, QuietInv, UnlistedRest, StopSweeps, StoppedIsEmpty

(* Steps that leave the list and the removals alone, revive no worker and  *)
(* do not stop the broker.                                                 *)
LEMMA QuietUntouched ==
    ASSUME TypeOK, QuietInv,
           UNCHANGED <<subscriptions, call>>, running => running',
           \A s \in Subs : worker'[s] # worker[s] =>
              worker[s] \in {"get", "callback", "cancelling"}
    PROVE  QuietInv'
<1>0. subscriptions \in Seq(Subs) /\ call \in [Callers -> Removal]
  BY DEF TypeOK
<1>1. UnlistedRest'
  BY DEF QuietInv, UnlistedRest, Listed, ToSet
<1>2. StopSweeps'
  <2> SUFFICES ASSUME NEW c \in Callers, call[c].op = "stop"
               PROVE  /\ call[c].index \in DOMAIN subscriptions
                      /\ subscriptions[call[c].index] = call[c].sub
                      /\ \A k \in 1 .. call[c].index - 1 :
                            worker'[subscriptions[k]] = "stopped"
    BY DEF StopSweeps, Done
  <2>1. /\ call[c].index \in DOMAIN subscriptions
        /\ subscriptions[call[c].index] = call[c].sub
        /\ \A k \in 1 .. call[c].index - 1 :
              worker[subscriptions[k]] = "stopped"
    BY DEF QuietInv, StopSweeps, Done
  <2>2. \A k \in 1 .. call[c].index - 1 : subscriptions[k] \in Subs
    BY <1>0, <2>1
  <2> QED
    BY <2>1, <2>2
<1>3. StoppedIsEmpty'
  BY DEF QuietInv, StoppedIsEmpty
<1> QED
  BY <1>1, <1>2, <1>3 DEF QuietInv

(* A new subscription goes to the end of the list, behind a stop() that is *)
(* on its way.                                                             *)
LEMMA QuietSubscribe ==
    ASSUME TypeOK, QuietInv, NEW s \in Subs, Subscribe(s)
    PROVE  QuietInv'
<1>1. /\ subscriptions \in Seq(Subs)
      /\ worker \in [Subs -> WorkerState]
      /\ running
      /\ worker[s] = "none"
      /\ subscriptions' = Append(subscriptions, s)
      /\ worker' = [worker EXCEPT ![s] = "get"]
      /\ UNCHANGED <<running, call>>
  BY DEF TypeOK, Subscribe
<1>2. /\ \A i \in DOMAIN subscriptions :
            i \in DOMAIN subscriptions' /\ subscriptions'[i] = subscriptions[i]
      /\ Len(subscriptions) + 1 \in DOMAIN subscriptions'
      /\ subscriptions'[Len(subscriptions) + 1] = s
  BY <1>1
<1>3. Listed \subseteq Listed' /\ s \in Listed'
  BY <1>2 DEF Listed, ToSet
<1>4. UnlistedRest'
  BY <1>1, <1>3 DEF QuietInv, UnlistedRest
<1>5. StopSweeps'
  <2> SUFFICES ASSUME NEW c \in Callers, call[c].op = "stop"
               PROVE  /\ call[c].index \in DOMAIN subscriptions'
                      /\ subscriptions'[call[c].index] = call[c].sub
                      /\ \A k \in 1 .. call[c].index - 1 :
                            worker'[subscriptions'[k]] = "stopped"
    BY <1>1 DEF StopSweeps, Done
  <2>1. /\ call[c].index \in DOMAIN subscriptions
        /\ subscriptions[call[c].index] = call[c].sub
        /\ \A k \in 1 .. call[c].index - 1 :
              worker[subscriptions[k]] = "stopped"
    BY DEF QuietInv, StopSweeps, Done
  <2>2. \A k \in 1 .. call[c].index - 1 :
            /\ subscriptions'[k] = subscriptions[k]
            /\ subscriptions[k] \in Subs
    BY <1>1, <1>2, <2>1
  <2> QED
    BY <1>1, <1>2, <2>1, <2>2
<1>6. StoppedIsEmpty'
  BY <1>1 DEF StoppedIsEmpty
<1> QED
  BY <1>4, <1>5, <1>6 DEF QuietInv

(* Taking a subscription whose worker has returned off the list.           *)
LEMMA QuietPop ==
    ASSUME TypeOK, QuietInv, NEW c \in Callers, Callers = {c},
           call[c].op # "stop", call'[c].op = "none",
           NEW i \in DOMAIN subscriptions, Pop(i), Done(subscriptions[i]),
           UNCHANGED <<running, worker>>
    PROVE  QuietInv'
<1>0. subscriptions \in Seq(Subs)
  BY DEF TypeOK
<1>1. subscriptions \in Seq(Subs) /\ i \in 1 .. Len(subscriptions)
  BY <1>0
<1>2. subscriptions' = RemoveAt(subscriptions, i)
  BY <1>1 DEF Pop
<1>3. UnlistedRest'
  <2> SUFFICES ASSUME NEW s \in Subs, s \notin Listed'
               PROVE  worker[s] \in {"none", "stopped"}
    BY DEF UnlistedRest
  <2>1. CASE s \in Listed
    <3>1. PICK j \in 1 .. Len(subscriptions) : subscriptions[j] = s
      BY <1>1, <2>1 DEF Listed, ToSet
    <3>2. j = i
      BY <1>1, <1>2, <3>1, RemoveAtKeeps DEF Listed
    <3> QED
      BY <3>1, <3>2 DEF Done
  <2>2. CASE s \notin Listed
    BY <2>2 DEF QuietInv, UnlistedRest
  <2> QED
    BY <2>1, <2>2
<1>4. running
  BY <1>1 DEF QuietInv, StoppedIsEmpty
<1> QED
  BY <1>3, <1>4 DEF QuietInv, StopSweeps, StoppedIsEmpty

(* The loop of stop(), entered at a position all workers before which have *)
(* returned: it suspends at the next one alive, or nobody is left alive    *)
(* and the list is cleared.                                                *)
LEMMA QuietStopFrom ==
    ASSUME TypeOK, QuietInv, NEW c \in Callers, Callers = {c},
           NEW i \in Nat \ {0}, StopFrom(c, i),
           \A k \in 1 .. i - 1 :
              k \in DOMAIN subscriptions /\ Done(subscriptions[k])
    PROVE  QuietInv'
<1>0. /\ subscriptions \in Seq(Subs)
      /\ worker \in [Subs -> WorkerState]
      /\ call \in [Callers -> Removal]
  BY DEF TypeOK
<1>1. CASE \E j \in LiveFrom(i) :
             /\ \A k \in LiveFrom(i) : j <= k
             /\ worker' = Cancelled(subscriptions[j])
             /\ call' = [call EXCEPT ![c] =
                   [op |-> "stop", sub |-> subscriptions[j], index |-> j]]
             /\ UNCHANGED <<subscriptions, metrics>>
  <2>1. PICK j \in LiveFrom(i) :
             /\ \A k \in LiveFrom(i) : j <= k
             /\ worker' = Cancelled(subscriptions[j])
             /\ call' = [call EXCEPT ![c] =
                   [op |-> "stop", sub |-> subscriptions[j], index |-> j]]
             /\ UNCHANGED <<subscriptions, metrics>>
    BY <1>1
  <2>2. /\ j \in i .. Len(subscriptions)
        /\ j \in DOMAIN subscriptions
        /\ subscriptions[j] \in Subs
        /\ worker[subscriptions[j]] # "stopped"
    BY <1>0 DEF LiveFrom, Done
  <2>3. \A k \in 1 .. j - 1 :
            /\ subscriptions[k] \in Subs
            /\ worker[subscriptions[k]] = "stopped"
    <3> SUFFICES ASSUME NEW k \in 1 .. j - 1
                 PROVE  /\ subscriptions[k] \in Subs
                        /\ worker[subscriptions[k]] = "stopped"
      OBVIOUS
    <3>1. k \in 1 .. Len(subscriptions)
      BY <1>0, <2>2
    <3>2. CASE k < i
      BY <1>0, <3>1, <3>2 DEF Done
    <3>3. CASE k >= i
      <4>1. k \notin LiveFrom(i)
        BY <2>1, <2>2
      <4> QED
        BY <1>0, <3>1, <3>3, <4>1 DEF LiveFrom, Done
    <3> QED
      BY <3>2, <3>3
  <2>4. /\ worker' = [worker EXCEPT ![subscriptions[j]] = "cancelling"]
        /\ subscriptions' = subscriptions
        /\ call'[c] = [op |-> "stop", sub |-> subscriptions[j], index |-> j]
    BY <1>0, <2>1 DEF Cancelled
  <2>5. UnlistedRest'
    <3>1. subscriptions[j] \in Listed
      BY <2>2 DEF Listed, ToSet
    <3> QED
      BY <1>0, <2>4, <3>1 DEF QuietInv, UnlistedRest, Listed
  <2>6. StopSweeps'
    <3>1. \A k \in 1 .. j - 1 : worker'[subscriptions[k]] = "stopped"
      BY <1>0, <2>2, <2>3, <2>4
    <3> QED
      BY <2>2, <2>4, <3>1 DEF StopSweeps, Done
  <2>7. StoppedIsEmpty'
    BY <2>4 DEF StoppedIsEmpty
  <2> QED
    BY <2>5, <2>6, <2>7 DEF QuietInv
<1>2. CASE /\ LiveFrom(i) = {}
           /\ subscriptions' = << >>
           /\ metrics' = [metrics EXCEPT !.active = 0]
           /\ call' = [call EXCEPT ![c] = Idle]
           /\ Shift(c, 1)
           /\ UNCHANGED worker
  <2>1. \A k \in 1 .. Len(subscriptions) : Done(subscriptions[k])
    <3> SUFFICES ASSUME NEW k \in 1 .. Len(subscriptions)
                 PROVE  Done(subscriptions[k])
      OBVIOUS
    <3>1. CASE k < i
      BY <3>1
    <3>2. CASE k >= i
      BY <1>0, <1>2, <3>2 DEF LiveFrom
    <3> QED
      BY <3>1, <3>2
  <2>2. \A s \in Listed : worker[s] = "stopped"
    BY <1>0, <2>1 DEF Listed, ToSet, Done
  <2>3. UnlistedRest'
    BY <1>2, <2>2 DEF QuietInv, UnlistedRest
  <2>4. call'[c].op = "none"
    BY <1>0, <1>2 DEF Idle
  <2> QED
    BY <1>2, <2>3, <2>4 DEF QuietInv, StopSweeps, StoppedIsEmpty
<1> QED
  BY <1>1, <1>2 DEF StopFrom

LEMMA QuietUnsubscribe ==
    ASSUME TypeOK, QuietInv, NEW c \in Callers, Callers = {c},
           NEW s \in Subs, Unsubscribe(c, s)
    PROVE  QuietInv'
<1>0. /\ subscriptions \in Seq(Subs)
      /\ worker \in [Subs -> WorkerState]
      /\ call \in [Callers -> Removal]
      /\ call[c] = Idle
      /\ running' = running
  BY DEF TypeOK, Unsubscribe
<1>1. PICK i \in DOMAIN subscriptions :
            /\ subscriptions[i] = s
            /\ IF Done(s)
               THEN Pop(i) /\ UNCHANGED <<worker, call>>
               ELSE /\ worker' = Cancelled(s)
                    /\ call' = [call EXCEPT ![c] =
                          [op |-> "unsubscribe", sub |-> s, index |-> i]]
                    /\ UNCHANGED <<subscriptions, metrics, shifted>>
  BY DEF Unsubscribe
<1>2. CASE Done(s)
  <2>1. call[c].op # "stop" /\ call'[c].op = "none"
    BY <1>0, <1>1, <1>2 DEF Idle
  <2> QED
    BY <1>0, <1>1, <1>2, <2>1, QuietPop
<1>3. CASE ~Done(s)
  <2>1. /\ worker' = [worker EXCEPT ![s] = "cancelling"]
        /\ subscriptions' = subscriptions
        /\ call'[c].op = "unsubscribe"
    BY <1>0, <1>1, <1>3 DEF Cancelled
  <2>2. s \in Listed
    BY <1>1 DEF Listed, ToSet
  <2>3. UnlistedRest'
    BY <1>0, <2>1, <2>2 DEF QuietInv, UnlistedRest, Listed
  <2>4. running
    BY <1>0, <1>1 DEF QuietInv, StoppedIsEmpty, Idle
  <2> QED
    BY <1>0, <2>1, <2>3, <2>4 DEF QuietInv, StopSweeps, StoppedIsEmpty
<1> QED
  BY <1>2, <1>3

LEMMA QuietResumes ==
    ASSUME TypeOK, RemovalInv, QuietInv, NEW c \in Callers, Callers = {c},
           UnsubscribeResumes(c)
    PROVE  QuietInv'
<1>1. /\ call \in [Callers -> Removal]
      /\ call[c].op = "unsubscribe"
      /\ call' = [call EXCEPT ![c] = Idle]
      /\ Pop(call[c].index)
      /\ Done(call[c].sub)
      /\ UNCHANGED <<running, worker>>
  BY DEF TypeOK, UnsubscribeResumes
<1>2. /\ call[c].index \in DOMAIN subscriptions
      /\ Done(subscriptions[call[c].index])
  BY <1>1 DEF RemovalInv, RemovalIsAimed
<1>3. call[c].op # "stop" /\ call'[c].op = "none"
  BY <1>1 DEF Idle
<1> QED
  BY <1>1, <1>2, <1>3, QuietPop

LEMMA QuietStop ==
    ASSUME TypeOK, QuietInv, NEW c \in Callers, Callers = {c},
           Stop(c) \/ StopResumes(c)
    PROVE  QuietInv'
<1>1. CASE Stop(c)
  BY <1>1, QuietStopFrom DEF Stop
<1>2. CASE StopResumes(c)
  <2>1. /\ StopFrom(c, call[c].index + 1)
        /\ call[c].index + 1 \in Nat \ {0}
        /\ call[c].index \in Nat \ {0}
    BY <1>2, CallLocals DEF StopResumes
  <2>2. /\ call[c].index \in DOMAIN subscriptions
        /\ Done(subscriptions[call[c].index])
        /\ \A k \in 1 .. call[c].index - 1 : Done(subscriptions[k])
    BY <1>2 DEF StopResumes, QuietInv, StopSweeps
  <2>3. subscriptions \in Seq(Subs)
    BY DEF TypeOK
  <2>4. \A k \in 1 .. (call[c].index + 1) - 1 :
            k \in DOMAIN subscriptions /\ Done(subscriptions[k])
    BY <2>1, <2>2, <2>3
  <2> QED
    BY <2>1, <2>4, QuietStopFrom
<1> QED
  BY <1>1, <1>2

LEMMA QuietStep ==
    ASSUME NEW c \in Callers, Callers = {c}
    PROVE  TypeOK /\ RemovalInv /\ QuietInv /\ [Next]_vars => QuietInv'
<1> SUFFICES ASSUME TypeOK, RemovalInv, QuietInv, [Next]_vars
             PROVE  QuietInv'
  OBVIOUS
<1>0. worker \in [Subs -> WorkerState]
  BY DEF TypeOK
<1>1. CASE Start \/ (\E t \in Topics : Publish(t)) \/ UNCHANGED vars
  <2>1. UNCHANGED <<subscriptions, call, worker>>
    BY <1>1 DEF Start, Publish, vars, history
  <2>2. running' = TRUE \/ running' = running
    BY <1>1 DEF Start, Publish, vars, history
  <2> QED
    BY <2>1, <2>2, QuietUntouched
<1>2. CASE \E s \in Subs : Subscribe(s)
  BY <1>2, QuietSubscribe
<1>3. ASSUME NEW s \in Subs,
             Take(s) \/ CallbackReturns(s) \/ CallbackRaises(s)
               \/ WorkerStops(s)
      PROVE  QuietInv'
  BY <1>0, <1>3, QuietUntouched
     DEF Take, CallbackReturns, CallbackRaises, WorkerStops, history
<1>4. CASE \E s \in Subs : Unsubscribe(c, s)
  BY <1>4, QuietUnsubscribe
<1>5. CASE UnsubscribeResumes(c)
  BY <1>5, QuietResumes
<1>6. CASE Stop(c) \/ StopResumes(c)
  BY <1>6, QuietStop
<1> QED
  BY <1>1, <1>2, <1>3, <1>4, <1>5, <1>6 DEF Next

(* As long as a single task removes subscriptions, a stop() that has       *)
(* returned leaves no worker running, whatever was subscribed while it was *)
(* waiting.  With two such tasks the code does not keep this.              *)
THEOREM StopLeavesNoWorker ==
    ASSUME NEW c \in Callers, Callers = {c}
    PROVE  Spec => []StopQuiesces
<1>1. Spec => []TypeOK
  BY TypeCorrect
<1>2. TypeOK /\ RemovalInv /\ [Next]_vars => RemovalInv'
  BY RemovalStep
<1>3. TypeOK /\ RemovalInv /\ QuietInv /\ [Next]_vars => QuietInv'
  BY QuietStep
<1>4. QuietInv => StopQuiesces
  <2> SUFFICES ASSUME QuietInv, ~running, call[c] = Idle, NEW s \in Subs
               PROVE  worker[s] \in {"none", "stopped"}
    BY DEF StopQuiesces
  <2>1. subscriptions = << >>
    BY DEF QuietInv, StoppedIsEmpty, Idle
  <2>2. s \notin Listed
    BY <2>1 DEF Listed, ToSet
  <2> QED
    BY <2>2 DEF QuietInv, UnlistedRest
<1> QED
  BY <1>1, <1>2, <1>3, <1>4, RemovalInit, QuietInit, PTL DEF Spec

-----------------------------------------------------------------------------
(***************************************************************************)
(* However many callers remove subscriptions: a suspended remover whose    *)
(* place nobody has moved still stands at the subscription it awaits, and  *)
(* a stop() among them has nobody alive behind it.                         *)
(***************************************************************************)
StandsWell(c) ==
    call[c] # Idle =>
        /\ call[c].index \in DOMAIN subscriptions
        /\ subscriptions[call[c].index] = call[c].sub
        /\ call[c].sub \in asked
        /\ call[c].op = "stop" =>
              \A k \in 1 .. call[c].index - 1 : Done(subscriptions[k])

PlacesKept == \A c \in Callers \ shifted : StandsWell(c)

LEMMA PlaceStays ==
    ASSUME TypeOK, NEW c \in Callers, StandsWell(c), call'[c] = call[c],
           asked \subseteq asked', \A s \in Subs : Done(s) => Done(s)',
           call[c] # Idle =>
              \A k \in DOMAIN subscriptions : k <= call[c].index =>
                 k \in DOMAIN subscriptions' /\ subscriptions'[k] = subscriptions[k]
    PROVE  StandsWell(c)'
<1> SUFFICES ASSUME call[c] # Idle
             PROVE  /\ call[c].index \in DOMAIN subscriptions'
                    /\ subscriptions'[call[c].index] = call[c].sub
                    /\ call[c].sub \in asked'
                    /\ call[c].op = "stop" =>
                          \A k \in 1 .. call[c].index - 1 : Done(subscriptions[k])'
  BY DEF StandsWell
<1>1. subscriptions \in Seq(Subs) /\ DOMAIN subscriptions = 1 .. Len(subscriptions)
  BY DEF TypeOK
<1>2. /\ call[c].index \in 1 .. Len(subscriptions) /\ Len(subscriptions) \in Nat
      /\ subscriptions[call[c].index] = call[c].sub /\ call[c].sub \in asked
  BY <1>1 DEF StandsWell
<1>3. /\ call[c].index \in DOMAIN subscriptions'
      /\ subscriptions'[call[c].index] = call[c].sub
  BY <1>1, <1>2
<1>4. ASSUME call[c].op = "stop", NEW k \in 1 .. call[c].index - 1
      PROVE  Done(subscriptions[k])'
  <2>1. k \in DOMAIN subscriptions /\ k <= call[c].index
    BY <1>1, <1>2
  <2>2. subscriptions'[k] = subscriptions[k] /\ subscriptions[k] \in Subs
    BY <1>1, <2>1
  <2>3. Done(subscriptions[k])
    BY <1>4 DEF StandsWell
  <2>4. worker'[subscriptions[k]] = "stopped"
    BY <2>2, <2>3 DEF Done
  <2> QED
    BY <2>2, <2>4 DEF Done
<1> QED
  BY <1>2, <1>3, <1>4

(* Before the position popped, the list stays as it is.                    *)
LEMMA RemoveAtFront ==
    ASSUME NEW S, NEW seq \in Seq(S), NEW i \in 1 .. Len(seq), NEW k \in 1 .. i - 1
    PROVE  k \in DOMAIN RemoveAt(seq, i) /\ RemoveAt(seq, i)[k] = seq[k]
<1> DEFINE l == SubSeq(seq, 1, i - 1)
           r == SubSeq(seq, i + 1, Len(seq))
<1>0. Len(seq) \in Nat
  OBVIOUS
<1>1. l \in Seq(S) /\ Len(l) = i - 1 /\ \A j \in 1 .. i - 1 : l[j] = seq[j]
  <2>1. \A j \in 1 .. i - 1 : seq[j] \in S
    BY ElementOfSeq
  <2> QED
    BY <2>1, SubSeqProperties
<1>2. r \in Seq(S) /\ Len(r) \in Nat
  <2>1. \A j \in i + 1 .. Len(seq) : seq[j] \in S
    BY ElementOfSeq
  <2> QED
    BY <2>1, SubSeqProperties
<1>3. RemoveAt(seq, i) = l \o r
  BY DEF RemoveAt
<1> HIDE DEF l, r
<1>4. /\ l \o r \in Seq(S) /\ Len(l \o r) = Len(l) + Len(r)
      /\ \A j \in 1 .. Len(l) + Len(r) :
            (l \o r)[j] = IF j <= Len(l) THEN l[j] ELSE r[j - Len(l)]
  BY <1>1, <1>2, ConcatProperties
<1>5. k \in 1 .. Len(l) + Len(r) /\ k <= Len(l)
  BY <1>0, <1>1, <1>2
<1> QED
  BY <1>1, <1>3, <1>4, <1>5

(* A pop keeps the places of all but those it marks as shifted.            *)
LEMMA PopKeepsPlaces ==
    ASSUME TypeOK, PlacesKept, NEW c \in Callers, NEW i \in Nat \ {0},
           Pop(i), Shift(c, i), worker' = worker, asked \subseteq asked',
           \A d \in Callers \ {c} : call'[d] = call[d], call'[c] = Idle
    PROVE  PlacesKept'
<1> SUFFICES ASSUME NEW d \in Callers, d \notin shifted'
             PROVE  StandsWell(d)'
  BY DEF PlacesKept
<1>1. CASE d = c
  BY <1>1 DEF StandsWell
<1>2. CASE d # c
  <2>1. d \notin shifted /\ call'[d] = call[d] /\ (call[d] # Idle => ~ (i <= call[d].index))
    BY <1>2 DEF Shift
  <2>2. StandsWell(d)
    BY <2>1 DEF PlacesKept
  <2>3. ASSUME call[d] # Idle, NEW k \in DOMAIN subscriptions, k <= call[d].index
        PROVE  k \in DOMAIN subscriptions' /\ subscriptions'[k] = subscriptions[k]
    <3>1. subscriptions \in Seq(Subs)
      BY DEF TypeOK
    <3>2. CASE i <= Len(subscriptions)
      <4>1. subscriptions' = RemoveAt(subscriptions, i)
        BY <3>2 DEF Pop
      <4>2. call[d].index \in DOMAIN subscriptions
        BY <2>2, <2>3 DEF StandsWell
      <4>3. k \in 1 .. i - 1 /\ i \in 1 .. Len(subscriptions)
        BY <2>1, <2>3, <3>1, <3>2, <4>2
      <4> QED
        BY <3>1, <4>1, <4>3, RemoveAtFront
    <3>3. CASE ~ (i <= Len(subscriptions))
      BY <2>3, <3>3 DEF Pop
    <3> QED
      BY <3>2, <3>3
  <2>4. \A s \in Subs : Done(s) => Done(s)'
    BY DEF Done
  <2> QED
    BY <2>1, <2>2, <2>3, <2>4, PlaceStays
<1> QED
  BY <1>1, <1>2

(* The worker of nobody who is done is revived or cancelled.               *)
LEMMA SweepKeepsPlaces ==
    ASSUME TypeOK, PlacesKept, NEW c \in Callers, NEW i \in Nat \ {0},
           StopFrom(c, i), asked' = asked \cup Listed,
           c \notin shifted =>
              \A k \in 1 .. i - 1 : k \in DOMAIN subscriptions /\ Done(subscriptions[k])
    PROVE  PlacesKept'
<1>0. /\ subscriptions \in Seq(Subs) /\ worker \in [Subs -> WorkerState]
      /\ call \in [Callers -> Removal]
      /\ DOMAIN subscriptions = 1 .. Len(subscriptions) /\ Len(subscriptions) \in Nat
  BY DEF TypeOK
<1>1. CASE \E j \in LiveFrom(i) :
             /\ \A k \in LiveFrom(i) : j <= k
             /\ worker' = Cancelled(subscriptions[j])
             /\ call' = [call EXCEPT ![c] =
                   [op |-> "stop", sub |-> subscriptions[j], index |-> j]]
             /\ UNCHANGED <<subscriptions, metrics, shifted>>
  <2>1. PICK j \in LiveFrom(i) :
             /\ \A k \in LiveFrom(i) : j <= k
             /\ worker' = Cancelled(subscriptions[j])
             /\ call' = [call EXCEPT ![c] =
                   [op |-> "stop", sub |-> subscriptions[j], index |-> j]]
             /\ UNCHANGED <<subscriptions, metrics, shifted>>
    BY <1>1
  <2>2. /\ j \in i .. Len(subscriptions) /\ j \in DOMAIN subscriptions
        /\ subscriptions[j] \in Subs /\ worker[subscriptions[j]] # "stopped"
    BY <1>0 DEF LiveFrom, Done
  <2>3. \A s \in Subs : Done(s) => Done(s)'
    BY <1>0, <2>1, <2>2 DEF Cancelled, Done
  <2>4. /\ call'[c] = [op |-> "stop", sub |-> subscriptions[j], index |-> j]
        /\ \A d \in Callers \ {c} : call'[d] = call[d]
        /\ subscriptions' = subscriptions /\ shifted' = shifted
    BY <1>0, <2>1
  <2>5. ASSUME NEW d \in Callers, d \notin shifted, d # c
        PROVE  StandsWell(d)'
    <3>1. StandsWell(d) /\ call'[d] = call[d]
      BY <2>4, <2>5 DEF PlacesKept
    <3> QED
      BY <2>3, <2>4, <3>1, PlaceStays
  <2>6. ASSUME c \notin shifted
        PROVE  StandsWell(c)'
    <3>1. ASSUME NEW k \in 1 .. j - 1
          PROVE  worker'[subscriptions[k]] = "stopped"
      <4>1. k \in DOMAIN subscriptions /\ subscriptions[k] \in Subs
        BY <1>0, <2>2
      <4>2. CASE k < i
        BY <2>3, <2>6, <4>1, <4>2 DEF Done
      <4>3. CASE k >= i
        <5>1. k \notin LiveFrom(i)
          BY <2>1, <2>2
        <5> QED
          BY <1>0, <2>3, <4>1, <4>3, <5>1 DEF LiveFrom, Done
      <4> QED
        BY <4>2, <4>3
    <3>2. subscriptions[j] \in asked'
      BY <2>2 DEF Listed, ToSet
    <3> QED
      BY <2>2, <2>4, <3>1, <3>2 DEF StandsWell, Done
  <2> QED
    BY <2>4, <2>5, <2>6 DEF PlacesKept
<1>2. CASE call' = [call EXCEPT ![c] = Idle] /\ Shift(c, 1)
  <2>1. ASSUME NEW d \in Callers, d \notin shifted'
        PROVE  call'[d] = Idle
    <3>1. CASE d = c
      BY <1>0, <1>2, <3>1
    <3>2. CASE d # c
      <4>1. d \notin shifted /\ (call[d] = Idle \/ ~ (1 <= call[d].index))
        BY <1>2, <2>1, <3>2 DEF Shift
      <4>2. call[d] # Idle => call[d].index \in DOMAIN subscriptions
        BY <4>1 DEF PlacesKept, StandsWell
      <4>3. call'[d] = call[d]
        BY <1>0, <1>2, <3>2
      <4> QED
        BY <1>0, <4>1, <4>2, <4>3
    <3> QED
      BY <3>1, <3>2
  <2> QED
    BY <2>1 DEF PlacesKept, StandsWell
<1> QED
  BY <1>1, <1>2 DEF StopFrom

(* Up to the worker a stop() has awaited, all have returned.               *)
LEMMA BehindStop ==
    ASSUME TypeOK, PlacesKept, NEW c \in Callers, StopResumes(c), c \notin shifted
    PROVE  \A k \in 1 .. (call[c].index + 1) - 1 :
              k \in DOMAIN subscriptions /\ Done(subscriptions[k])
<1>1. call[c].op = "stop" /\ Done(call[c].sub)
  BY DEF StopResumes
<1>2. call[c] # Idle
  BY <1>1 DEF Idle
<1>3. /\ call[c].index \in DOMAIN subscriptions
      /\ subscriptions[call[c].index] = call[c].sub
      /\ \A k \in 1 .. call[c].index - 1 : Done(subscriptions[k])
  BY <1>1, <1>2 DEF PlacesKept, StandsWell
<1>4. DOMAIN subscriptions = 1 .. Len(subscriptions) /\ Len(subscriptions) \in Nat
  BY DEF TypeOK
<1> QED
  BY <1>1, <1>3, <1>4

LEMMA PlacesStep ==
    ASSUME TypeOK, PlacesKept, [Next]_vars
    PROVE  PlacesKept'
<1>0. /\ worker \in [Subs -> WorkerState] /\ subscriptions \in Seq(Subs)
      /\ call \in [Callers -> Removal]
      /\ DOMAIN subscriptions = 1 .. Len(subscriptions) /\ Len(subscriptions) \in Nat
  BY DEF TypeOK
<1>1. ASSUME UNCHANGED <<call, asked, shifted>>,
             \A s \in Subs : Done(s) => Done(s)',
             \A k \in DOMAIN subscriptions :
                k \in DOMAIN subscriptions' /\ subscriptions'[k] = subscriptions[k]
      PROVE  PlacesKept'
  <2> SUFFICES ASSUME NEW d \in Callers, d \notin shifted
               PROVE  StandsWell(d)'
    BY <1>1 DEF PlacesKept
  <2>1. StandsWell(d)
    BY DEF PlacesKept
  <2> QED
    BY <1>1, <2>1, PlaceStays
<1>2. CASE Start \/ (\E t \in Topics : Publish(t)) \/ UNCHANGED vars
  <2>1. UNCHANGED <<subscriptions, worker, call, asked, shifted>>
    BY <1>2 DEF Start, Publish, vars, history
  <2> QED
    BY <1>1, <2>1 DEF Done
<1>3. ASSUME NEW s \in Subs, Subscribe(s)
      PROVE  PlacesKept'
  <2>1. /\ subscriptions' = Append(subscriptions, s)
        /\ worker[s] = "none" /\ worker' = [worker EXCEPT ![s] = "get"]
        /\ UNCHANGED <<call, asked, shifted>>
    BY <1>3 DEF Subscribe, history
  <2>2. \A k \in DOMAIN subscriptions :
           k \in DOMAIN subscriptions' /\ subscriptions'[k] = subscriptions[k]
    BY <1>0, <2>1
  <2>3. \A t \in Subs : Done(t) => Done(t)'
    BY <1>0, <2>1 DEF Done
  <2> QED
    BY <1>1, <2>1, <2>2, <2>3
<1>4. ASSUME NEW s \in Subs,
             Take(s) \/ CallbackReturns(s) \/ CallbackRaises(s) \/ WorkerStops(s)
      PROVE  PlacesKept'
  <2>1. UNCHANGED <<subscriptions, call, asked, shifted>>
    BY <1>4 DEF Take, CallbackReturns, CallbackRaises, WorkerStops, history
  <2>2. \A t \in Subs : Done(t) => Done(t)'
    BY <1>0, <1>4 DEF Take, CallbackReturns, CallbackRaises, WorkerStops, Done
  <2> QED
    BY <1>1, <2>1, <2>2
<1>5. ASSUME NEW c \in Callers, NEW s \in Subs, Unsubscribe(c, s)
      PROVE  PlacesKept'
  <2>1. PICK i \in DOMAIN subscriptions :
            /\ subscriptions[i] = s
            /\ IF Done(s)
               THEN Pop(i) /\ Shift(c, i) /\ UNCHANGED <<worker, call>>
               ELSE /\ worker' = Cancelled(s)
                    /\ call' = [call EXCEPT ![c] =
                          [op |-> "unsubscribe", sub |-> s, index |-> i]]
                    /\ UNCHANGED <<subscriptions, metrics, shifted>>
    BY <1>5 DEF Unsubscribe
  <2>2. call[c] = Idle /\ asked' = asked \cup {s} /\ i \in Nat \ {0}
    BY <1>0, <1>5 DEF Unsubscribe
  <2>3. CASE Done(s)
    BY <2>1, <2>2, <2>3, PopKeepsPlaces
  <2>4. CASE ~ Done(s)
    <3>1. /\ call'[c] = [op |-> "unsubscribe", sub |-> s, index |-> i]
          /\ \A d \in Callers \ {c} : call'[d] = call[d]
          /\ UNCHANGED <<subscriptions, shifted>>
      BY <1>0, <2>1, <2>4
    <3>2. \A t \in Subs : Done(t) => Done(t)'
      BY <1>0, <2>1, <2>4 DEF Cancelled, Done
    <3>3. StandsWell(c)'
      BY <2>1, <2>2, <3>1 DEF StandsWell
    <3>4. ASSUME NEW d \in Callers, d \notin shifted, d # c
          PROVE  StandsWell(d)'
      <4>1. StandsWell(d) /\ call'[d] = call[d]
        BY <3>1, <3>4 DEF PlacesKept
      <4> QED
        BY <2>2, <3>1, <3>2, <4>1, PlaceStays
    <3> QED
      BY <3>1, <3>3, <3>4 DEF PlacesKept
  <2> QED
    BY <2>3, <2>4
<1>6. ASSUME NEW c \in Callers, UnsubscribeResumes(c)
      PROVE  PlacesKept'
  <2>1. /\ Pop(call[c].index) /\ Shift(c, call[c].index)
        /\ UNCHANGED <<worker, asked>>
        /\ call'[c] = Idle /\ \A d \in Callers \ {c} : call'[d] = call[d]
    BY <1>0, <1>6 DEF UnsubscribeResumes
  <2>2. call[c].index \in Nat \ {0}
    BY <1>6, CallLocals DEF UnsubscribeResumes
  <2> QED
    BY <2>1, <2>2, PopKeepsPlaces
<1>7. ASSUME NEW c \in Callers, Stop(c)
      PROVE  PlacesKept'
  <2>1. StopFrom(c, 1) /\ asked' = asked \cup Listed
    BY <1>7 DEF Stop
  <2>2. \A k \in 1 .. 1 - 1 : k \in DOMAIN subscriptions /\ Done(subscriptions[k])
    OBVIOUS
  <2> QED
    BY <2>1, <2>2, SweepKeepsPlaces
<1>8. ASSUME NEW c \in Callers, StopResumes(c)
      PROVE  PlacesKept'
  <2>1. /\ StopFrom(c, call[c].index + 1) /\ asked' = asked \cup Listed
        /\ call[c].index + 1 \in Nat \ {0}
    BY <1>8, CallLocals DEF StopResumes
  <2>2. c \notin shifted => \A k \in 1 .. (call[c].index + 1) - 1 :
           k \in DOMAIN subscriptions /\ Done(subscriptions[k])
    BY <1>8, BehindStop
  <2> QED
    BY <2>1, <2>2, SweepKeepsPlaces
<1> QED
  BY <1>2, <1>3, <1>4, <1>5, <1>6, <1>7, <1>8 DEF Next

(* A pop of position i takes nobody else off the list.                     *)
LEMMA PopTakesOne ==
    ASSUME TypeOK, NEW i \in DOMAIN subscriptions, Pop(i),
           NEW s \in Listed \ Listed'
    PROVE  s = subscriptions[i]
<1>1. subscriptions \in Seq(Subs) /\ i \in 1 .. Len(subscriptions)
  BY DEF TypeOK
<1>2. subscriptions' = RemoveAt(subscriptions, i)
  BY <1>1 DEF Pop
<1>3. PICK j \in 1 .. Len(subscriptions) : subscriptions[j] = s
  BY <1>1 DEF Listed, ToSet
<1> QED
  BY <1>1, <1>2, <1>3, RemoveAtKeeps DEF Listed

(* A stop() that has swept the list clears it of ended workers only.       *)
LEMMA SweepClearsDone ==
    ASSUME TypeOK, NEW c \in Callers, NEW i \in Nat \ {0}, StopFrom(c, i),
           \A k \in 1 .. i - 1 : k \in DOMAIN subscriptions /\ Done(subscriptions[k]),
           NEW s \in Listed \ Listed'
    PROVE  Done(s)'
<1>1. /\ subscriptions \in Seq(Subs) /\ DOMAIN subscriptions = 1 .. Len(subscriptions)
      /\ Len(subscriptions) \in Nat
  BY DEF TypeOK
<1>2. PICK j \in 1 .. Len(subscriptions) : subscriptions[j] = s
  BY <1>1 DEF Listed, ToSet
<1>3. LiveFrom(i) = {} /\ worker' = worker
  BY DEF StopFrom, Listed
<1>4. Done(s)
  <2>1. CASE j < i
    BY <1>1, <1>2, <2>1
  <2>2. CASE j >= i
    BY <1>1, <1>2, <1>3, <2>2 DEF LiveFrom
  <2> QED
    BY <2>1, <2>2
<1> QED
  BY <1>3, <1>4 DEF Done

(* However many tasks unsubscribe and stop at once, a subscription goes    *)
(* off the list only when someone asked for it and its worker has ended,   *)
(* or when a remover goes on whose place in the list has been moved.       *)
THEOREM OnlyShiftedMiss == Spec => RemovedWhenDone
<1>1. Init => PlacesKept
  BY DEF Init, PlacesKept, StandsWell
<1>2. Spec => []TypeOK
  BY TypeCorrect
<1>3. TypeOK /\ PlacesKept /\ [Next]_vars => PlacesKept'
  BY PlacesStep
<1>4. ASSUME TypeOK, PlacesKept, [Next]_vars, NEW s \in Listed \ Listed'
      PROVE  (s \in asked' /\ Done(s)') \/ \E c \in shifted : call'[c] # call[c]
  <2> USE <1>4
  <2>0. /\ subscriptions \in Seq(Subs) /\ call \in [Callers -> Removal]
        /\ subscriptions' # subscriptions
    BY DEF TypeOK, Listed
  <2>1. ASSUME NEW t \in Subs, Subscribe(t)
        PROVE  FALSE
    <3>1. subscriptions' = Append(subscriptions, t)
      BY <2>1 DEF Subscribe
    <3>2. Listed \subseteq Listed'
      BY <2>0, <3>1 DEF Listed, ToSet
    <3> QED
      BY <3>2
  <2>2. ASSUME NEW c \in Callers, NEW t \in Subs, Unsubscribe(c, t)
        PROVE  s \in asked' /\ Done(s)'
    <3>1. PICK i \in DOMAIN subscriptions :
             /\ subscriptions[i] = t /\ Done(t) /\ Pop(i) /\ worker' = worker
             /\ t \in asked'
      BY <2>0, <2>2 DEF Unsubscribe
    <3>2. s = t
      BY <3>1, PopTakesOne
    <3> QED
      BY <3>1, <3>2 DEF Done
  <2>3. ASSUME NEW c \in Callers, UnsubscribeResumes(c), c \notin shifted
        PROVE  s \in asked' /\ Done(s)'
    <3>1. /\ call[c].op = "unsubscribe" /\ Done(call[c].sub)
          /\ Pop(call[c].index) /\ worker' = worker /\ asked' = asked
      BY <2>3 DEF UnsubscribeResumes
    <3>2. call[c] # Idle
      BY <3>1 DEF Idle
    <3>3. /\ call[c].index \in DOMAIN subscriptions
          /\ subscriptions[call[c].index] = call[c].sub /\ call[c].sub \in asked
      BY <2>3, <3>2 DEF PlacesKept, StandsWell
    <3>4. s = call[c].sub
      BY <3>1, <3>3, PopTakesOne
    <3> QED
      BY <3>1, <3>3, <3>4 DEF Done
  <2>4. ASSUME NEW c \in Callers, Stop(c)
        PROVE  s \in asked' /\ Done(s)'
    <3>1. StopFrom(c, 1) /\ asked' = asked \cup Listed
      BY <2>4 DEF Stop
    <3>2. \A k \in 1 .. 1 - 1 : k \in DOMAIN subscriptions /\ Done(subscriptions[k])
      OBVIOUS
    <3> QED
      BY <3>1, <3>2, SweepClearsDone
  <2>5. ASSUME NEW c \in Callers, StopResumes(c), c \notin shifted
        PROVE  s \in asked' /\ Done(s)'
    <3>1. /\ StopFrom(c, call[c].index + 1) /\ asked' = asked \cup Listed
          /\ call[c].index + 1 \in Nat \ {0}
      BY <2>5, CallLocals DEF StopResumes
    <3>2. \A k \in 1 .. (call[c].index + 1) - 1 :
             k \in DOMAIN subscriptions /\ Done(subscriptions[k])
      BY <2>5, BehindStop
    <3> QED
      BY <3>1, <3>2, SweepClearsDone
  <2>6. ASSUME NEW c \in Callers, UnsubscribeResumes(c) \/ StopResumes(c)
        PROVE  call'[c] # call[c]
    <3>1. CASE UnsubscribeResumes(c)
      <4>1. call'[c] = Idle /\ call[c].op = "unsubscribe"
        BY <2>0, <3>1 DEF UnsubscribeResumes
      <4> QED
        BY <4>1 DEF Idle
    <3>2. CASE StopResumes(c)
      <4>1. call'[c] = Idle /\ call[c].op = "stop"
        BY <2>0, <3>2 DEF StopResumes, StopFrom
      <4> QED
        BY <4>1 DEF Idle
    <3> QED
      BY <2>6, <3>1, <3>2
  <2>7. ASSUME UNCHANGED subscriptions
        PROVE  FALSE
    BY <2>0, <2>7
  <2>8. ~ (Start \/ (\E t \in Topics : Publish(t)) \/ UNCHANGED vars)
    BY <2>7 DEF Start, Publish, vars
  <2>9. \A t \in Subs : ~ (Take(t) \/ CallbackReturns(t) \/ CallbackRaises(t) \/ WorkerStops(t))
    BY <2>7 DEF Take, CallbackReturns, CallbackRaises, WorkerStops
  <2> QED
    BY <2>1, <2>2, <2>3, <2>4, <2>5, <2>6, <2>8, <2>9 DEF Next
<1>5. TypeOK /\ PlacesKept /\ [Next]_vars => [LeavesDone]_vars
  BY <1>4 DEF LeavesDone
<1> QED
  BY <1>1, <1>2, <1>3, <1>5, PTL DEF Spec, RemovedWhenDone

-----------------------------------------------------------------------------
(***************************************************************************)
(* The books.  A worker has an event in hand exactly while its callback    *)
(* runs, or was running when it was cancelled.                             *)
(***************************************************************************)
HandsKnown ==
    \A s \in Subs :
        /\ worker[s] \in {"none", "get"} => hand[s] = << >>
        /\ worker[s] = "callback" => Len(hand[s]) = 1

BooksInv == TypeOK /\ HandsKnown /\ BooksBalance

Routed == [s \in Subs |-> Len(taken[s]) + Len(queue[s])]
Gotten == [s \in Subs |-> Len(taken[s])]
InHand == [s \in Subs |-> Len(hand[s])]

LEMMA BooksAre ==
    BooksBalance <=>
        /\ SumFunction(offered) = SumFunction(Routed) + metrics.dropped
        /\ SumFunction(Gotten) =
              metrics.delivered + metrics.failed + SumFunction(aborted) + SumFunction(InHand)
BY DEF BooksBalance, Total, Routed, Gotten, InHand

LEMMA BooksTyped ==
    ASSUME BrokerAssumption, TypeOK
    PROVE  /\ IsFiniteSet(Subs)
           /\ offered \in [Subs -> Nat] /\ aborted \in [Subs -> Nat]
           /\ Routed \in [Subs -> Nat] /\ Gotten \in [Subs -> Nat] /\ InHand \in [Subs -> Nat]
           /\ metrics.dropped \in Nat /\ metrics.delivered \in Nat /\ metrics.failed \in Nat
<1>1. \A s \in Subs : taken[s] \in Seq(Event) /\ queue[s] \in Seq(Event) /\ hand[s] \in Seq(Event)
  BY DEF TypeOK
<1>2. \A s \in Subs : Len(taken[s]) \in Nat /\ Len(queue[s]) \in Nat /\ Len(hand[s]) \in Nat
  BY <1>1
<1> QED
  BY <1>2 DEF BrokerAssumption, TypeOK, Routed, Gotten, InHand, BrokerMetrics

LEMMA SumsTyped ==
    ASSUME BrokerAssumption, TypeOK
    PROVE  /\ SumFunction(offered) \in Nat /\ SumFunction(aborted) \in Nat
           /\ SumFunction(Routed) \in Nat /\ SumFunction(Gotten) \in Nat
           /\ SumFunction(InHand) \in Nat
<1>1. ASSUME NEW f \in [Subs -> Nat] PROVE SumFunction(f) \in Nat
  BY BooksTyped, SumType
<1> QED
  BY <1>1, BooksTyped

LEMMA BooksStart == ASSUME BrokerAssumption, Init PROVE BooksInv
<1>1. TypeOK
  BY TypeInit
<1>2. HandsKnown
  BY DEF Init, HandsKnown
<1>3. Routed = [s \in Subs |-> 0] /\ Gotten = [s \in Subs |-> 0] /\ InHand = [s \in Subs |-> 0]
      /\ offered = [s \in Subs |-> 0] /\ aborted = [s \in Subs |-> 0]
  BY DEF Init, Routed, Gotten, InHand
<1>4. SumFunction([s \in Subs |-> 0]) = 0
  BY SumOfZeros DEF BrokerAssumption
<1>5. metrics.dropped = 0 /\ metrics.delivered = 0 /\ metrics.failed = 0
  BY DEF Init
<1> QED
  BY <1>1, <1>2, <1>3, <1>4, <1>5, BooksAre DEF BooksInv

(* An event is routed to all that match and dropped by the full of them.   *)
LEMMA PublishBooks ==
    ASSUME BrokerAssumption, BooksInv, NEW t \in Topics, Publish(t)
    PROVE  BooksInv'
<1> DEFINE M == Matching(t)
           F == {s \in M : Full(s)}
           G == M \ F
           onesM == Ones(Subs, M)
           onesG == Ones(Subs, G)
<1>1. TypeOK /\ TypeOK'
  BY TypePublish DEF BooksInv
<1>2. M \in SUBSET Subs /\ F \in SUBSET Subs /\ G \in SUBSET Subs /\ F \in SUBSET M
  BY <1>1 DEF Matching, Listed, ToSet, TypeOK
<1>3. IsFiniteSet(M) /\ IsFiniteSet(F) /\ IsFiniteSet(Subs)
  <2>1. IsFiniteSet(Subs)
    BY DEF BrokerAssumption
  <2> HIDE DEF M, F
  <2> QED
    BY <1>2, <2>1, FS_Subset
<1>4. /\ offered' = [s \in Subs |-> offered[s] + (IF s \in M THEN 1 ELSE 0)]
      /\ queue' = [s \in Subs |-> IF s \in M /\ ~Full(s)
                                  THEN Append(queue[s], Len(published) + 1) ELSE queue[s]]
      /\ metrics' = [metrics EXCEPT !.published = @ + 1, !.dropped = @ + Cardinality(F)]
      /\ UNCHANGED <<worker, hand, taken, aborted>>
  BY DEF Publish
<1>5. metrics'.dropped = metrics.dropped + Cardinality(F)
      /\ metrics'.delivered = metrics.delivered /\ metrics'.failed = metrics.failed
  <2> HIDE DEF F
  <2> QED
    BY <1>1, <1>4 DEF TypeOK, BrokerMetrics
<1>6. onesM \in [Subs -> Nat] /\ onesG \in [Subs -> Nat]
  BY DEF Ones
<1>7. SumFunction(offered') = SumFunction(offered) + Cardinality(M)
  <2>1. \A s \in Subs : offered'[s] = offered[s] + onesM[s]
    BY <1>4 DEF Ones
  <2>2. offered \in [Subs -> Nat] /\ offered' \in [Subs -> Nat]
    BY <1>1 DEF TypeOK
  <2>3. SumFunction(onesM) = Cardinality(M)
    <3> HIDE DEF M
    <3> QED
      BY <1>2, <1>3, SumOfOnes
  <2> HIDE DEF onesM
  <2>4. SumFunction(offered') = SumFunction(offered) + SumFunction(onesM)
    BY <1>3, <1>6, <2>1, <2>2, SumAdds
  <2> QED
    BY <2>3, <2>4
<1>8. SumFunction(Routed') = SumFunction(Routed) + Cardinality(G)
  <2>0. Routed \in [Subs -> Nat]
    BY <1>1, BooksTyped
  <2>1. Routed' \in [Subs -> Nat]
    <3> SUFFICES ASSUME NEW s \in Subs PROVE Len(taken'[s]) + Len(queue'[s]) \in Nat
      BY DEF Routed
    <3> DEFINE a == Len(taken'[s])
               b == Len(queue'[s])
    <3>1. taken'[s] \in Seq(Event) /\ queue'[s] \in Seq(Event)
      BY <1>1 DEF TypeOK
    <3>2. a \in Nat /\ b \in Nat
      BY <3>1, LenProperties
    <3> HIDE DEF a, b
    <3>3. a + b \in Nat
      BY <3>2
    <3> QED
      BY <3>3 DEF a, b
  <2>2. ASSUME NEW s \in Subs PROVE Routed'[s] = Routed[s] + onesG[s]
    <3> DEFINE a == Len(taken[s])
               b == Len(queue[s])
               d == Len(queue'[s])
    <3>1. queue[s] \in Seq(Event) /\ taken[s] \in Seq(Event) /\ taken'[s] = taken[s]
      BY <1>1, <1>4 DEF TypeOK
    <3>2. a \in Nat /\ b \in Nat
      BY <3>1, LenProperties
    <3>3. Routed'[s] = Len(taken'[s]) + d /\ Routed[s] = a + b
      BY DEF Routed
    <3>4. onesG[s] = IF s \in G THEN 1 ELSE 0
      BY DEF Ones
    <3>5. d = IF s \in G THEN b + 1 ELSE b
      <4>1. queue'[s] = IF s \in G THEN Append(queue[s], Len(published) + 1) ELSE queue[s]
        BY <1>4
      <4>2. Len(Append(queue[s], Len(published) + 1)) = b + 1
        BY <3>1, AppendProperties
      <4> HIDE DEF G
      <4> QED
        BY <4>1, <4>2
    <3>6. Routed'[s] = a + d
      BY <3>1, <3>3
    <3> HIDE DEF onesG, G, a, b, d
    <3>7. a + d = (a + b) + IF s \in G THEN 1 ELSE 0
      BY <3>2, <3>5
    <3> QED
      BY <3>3, <3>4, <3>6, <3>7
  <2>3. SumFunction(onesG) = Cardinality(G)
    <3> HIDE DEF G
    <3> QED
      BY <1>2, <1>3, SumOfOnes
  <2> HIDE DEF onesG
  <2>4. SumFunction(Routed') = SumFunction(Routed) + SumFunction(onesG)
    BY <1>3, <1>6, <2>0, <2>1, <2>2, SumAdds
  <2> QED
    BY <2>3, <2>4
<1>9. /\ Cardinality(M) \in Nat /\ Cardinality(F) \in Nat
      /\ Cardinality(G) = Cardinality(M) - Cardinality(F)
  <2>1. M \cap F = F
    OBVIOUS
  <2>2. Cardinality(M) \in Nat /\ Cardinality(F) \in Nat
    BY <1>3, FS_CardinalityType
  <2> HIDE DEF M, F
  <2>3. Cardinality(M \ F) = Cardinality(M) - Cardinality(M \cap F)
    BY <1>3, FS_Difference
  <2> QED
    BY <2>1, <2>2, <2>3
<1>10. Gotten' = Gotten /\ InHand' = InHand /\ aborted' = aborted
  BY <1>4 DEF Gotten, InHand
<1>11. HandsKnown'
  BY <1>4 DEF BooksInv, HandsKnown
<1>12. /\ SumFunction(offered) = SumFunction(Routed) + metrics.dropped
       /\ SumFunction(Gotten) =
              metrics.delivered + metrics.failed + SumFunction(aborted) + SumFunction(InHand)
  BY BooksAre DEF BooksInv
<1>13. SumFunction(offered) \in Nat /\ SumFunction(Routed) \in Nat /\ metrics.dropped \in Nat
  BY <1>1, SumsTyped, BooksTyped
<1> HIDE DEF M, F, G
<1>14. SumFunction(offered') = SumFunction(Routed') + metrics'.dropped
  BY <1>5, <1>7, <1>8, <1>9, <1>12, <1>13
<1> QED
  BY <1>1, <1>5, <1>10, <1>11, <1>12, <1>14, BooksAre DEF BooksInv, BooksBalance, Total, Routed, Gotten, InHand

(* One subscription's value grows by one, the others keep theirs.          *)
LEMMA OneGrows ==
    ASSUME BrokerAssumption, NEW s \in Subs, NEW u \in [Subs -> Nat], NEW v \in [Subs -> Nat],
           v[s] = u[s] + 1, \A x \in Subs \ {s} : v[x] = u[x]
    PROVE  SumFunction(v) = SumFunction(u) + 1
<1>1. IsFiniteSet(Subs)
  BY DEF BrokerAssumption
<1> QED
  BY <1>1, SumGrows

LEMMA LensType ==
    ASSUME NEW f \in [Subs -> Seq(Event)]
    PROVE  [x \in Subs |-> Len(f[x])] \in [Subs -> Nat]
OBVIOUS

(* A step of the worker leaves what is still to take or was taken.         *)
LEMMA TakeBooks ==
    ASSUME BrokerAssumption, BooksInv, NEW s \in Subs, Take(s)
    PROVE  BooksInv'
<1>1. TypeOK /\ TypeOK'
  BY TypeWorker DEF BooksInv
<1>2. /\ worker[s] = "get" /\ queue[s] # << >>
      /\ worker' = [worker EXCEPT ![s] = "callback"]
      /\ hand' = [hand EXCEPT ![s] = <<Head(queue[s])>>]
      /\ queue' = [queue EXCEPT ![s] = Tail(queue[s])]
      /\ taken' = [taken EXCEPT ![s] = Append(taken[s], Head(queue[s]))]
      /\ UNCHANGED <<metrics, offered, aborted>>
  BY DEF Take
<1>3. /\ taken \in [Subs -> Seq(Event)] /\ taken' \in [Subs -> Seq(Event)]
      /\ hand \in [Subs -> Seq(Event)] /\ hand' \in [Subs -> Seq(Event)]
      /\ queue \in [Subs -> Seq(Event)] /\ queue' \in [Subs -> Seq(Event)]
      /\ worker \in [Subs -> WorkerState]
  BY <1>1 DEF TypeOK
<1>4. Routed' = Routed
  <2> SUFFICES ASSUME NEW x \in Subs
               PROVE  Len(taken'[x]) + Len(queue'[x]) = Len(taken[x]) + Len(queue[x])
    BY DEF Routed
  <2>1. CASE x = s
    <3> DEFINE a == Len(taken[s])
               b == Len(queue[s])
    <3>1. a \in Nat /\ b \in Nat /\ queue[s] \in Seq(Event) /\ taken[s] \in Seq(Event)
      BY <1>3, LenProperties
    <3>2. Len(Append(taken[s], Head(queue[s]))) = a + 1
      BY <3>1, AppendProperties
    <3>3. Len(Tail(queue[s])) = b - 1
      BY <1>2, <3>1, HeadTailProperties
    <3>4. taken'[s] = Append(taken[s], Head(queue[s])) /\ queue'[s] = Tail(queue[s])
      BY <1>2, <1>3
    <3>5. Len(taken'[s]) = a + 1 /\ Len(queue'[s]) = b - 1
      BY <3>2, <3>3, <3>4
    <3>6. (a + 1) + (b - 1) = a + b
      <4>1. a \in Nat /\ b \in Nat
        BY <3>1
      <4> HIDE DEF a, b
      <4> QED
        BY <4>1
    <3> QED
      BY <2>1, <3>5, <3>6
  <2>2. CASE x # s
    BY <1>2, <1>3, <2>2
  <2> QED
    BY <2>1, <2>2
<1>5. SumFunction(Gotten') = SumFunction(Gotten) + 1
  <2>1. Len(taken'[s]) = Len(taken[s]) + 1
    <3>1. taken[s] \in Seq(Event) /\ taken'[s] = Append(taken[s], Head(queue[s]))
      BY <1>2, <1>3
    <3> QED
      BY <3>1, AppendProperties
  <2>2. \A x \in Subs \ {s} : taken'[x] = taken[x]
    BY <1>2, <1>3
  <2>3. Gotten'[s] = Gotten[s] + 1 /\ \A x \in Subs \ {s} : Gotten'[x] = Gotten[x]
    BY <2>1, <2>2 DEF Gotten
  <2>4. Gotten \in [Subs -> Nat] /\ Gotten' \in [Subs -> Nat]
    BY <1>3, LensType DEF Gotten
  <2> QED
    BY <2>3, <2>4, OneGrows
<1>6. SumFunction(InHand') = SumFunction(InHand) + 1
  <2>1. Len(hand'[s]) = 1 /\ Len(hand[s]) = 0
    BY <1>2, <1>3 DEF BooksInv, HandsKnown
  <2>2. \A x \in Subs \ {s} : hand'[x] = hand[x]
    BY <1>2, <1>3
  <2>3. InHand'[s] = InHand[s] + 1 /\ \A x \in Subs \ {s} : InHand'[x] = InHand[x]
    <3>1. \A x \in Subs : InHand[x] = Len(hand[x]) /\ InHand'[x] = Len(hand'[x])
      BY DEF InHand
    <3>2. InHand'[s] = 1 /\ InHand[s] = 0
      BY <2>1, <3>1
    <3>3. \A x \in Subs \ {s} : InHand'[x] = InHand[x]
      BY <2>2, <3>1
    <3> QED
      BY <3>2, <3>3
  <2>4. InHand \in [Subs -> Nat] /\ InHand' \in [Subs -> Nat]
    BY <1>3, LensType DEF InHand
  <2> QED
    BY <2>3, <2>4, OneGrows
<1>7. HandsKnown'
  <2>1. worker'[s] = "callback" /\ Len(hand'[s]) = 1
    BY <1>2, <1>3
  <2>2. \A x \in Subs \ {s} : worker'[x] = worker[x] /\ hand'[x] = hand[x]
    BY <1>2, <1>3
  <2> QED
    BY <2>1, <2>2 DEF BooksInv, HandsKnown
<1>8. /\ SumFunction(offered) = SumFunction(Routed) + metrics.dropped
      /\ SumFunction(Gotten) =
             metrics.delivered + metrics.failed + SumFunction(aborted) + SumFunction(InHand)
  BY BooksAre DEF BooksInv
<1>9. /\ metrics.delivered \in Nat /\ metrics.failed \in Nat /\ SumFunction(aborted) \in Nat
      /\ SumFunction(InHand) \in Nat
  BY <1>1, SumsTyped, BooksTyped
<1>10. SumFunction(Gotten') =
           metrics'.delivered + metrics'.failed + SumFunction(aborted') + SumFunction(InHand')
  <2> DEFINE a == SumFunction(InHand)
             d == SumFunction(aborted)
             m == metrics.delivered + metrics.failed
  <2>1. a \in Nat /\ d \in Nat /\ m \in Nat
    BY <1>9
  <2>2. SumFunction(Gotten') = (m + d + a) + 1 /\ SumFunction(InHand') = a + 1
    BY <1>5, <1>6, <1>8
  <2>3. metrics' = metrics /\ aborted' = aborted
    BY <1>2
  <2>4. (m + d + a) + 1 = m + d + (a + 1)
    <3> HIDE DEF a, d, m
    <3> QED
      BY <2>1
  <2> QED
    BY <2>2, <2>3, <2>4
<1>11. SumFunction(offered') = SumFunction(Routed') + metrics'.dropped
  BY <1>2, <1>4, <1>8
<1> QED
  BY <1>1, <1>7, <1>10, <1>11 DEF BooksInv, BooksBalance, Total, Routed, Gotten, InHand

(* A callback that returns or raises hands its event over to a counter.    *)
LEMMA CallbackBooks ==
    ASSUME BrokerAssumption, BooksInv, NEW s \in Subs, CallbackReturns(s) \/ CallbackRaises(s)
    PROVE  BooksInv'
<1>1. TypeOK /\ TypeOK'
  BY TypeWorker DEF BooksInv
<1>2. /\ worker[s] = "callback"
      /\ worker' = [worker EXCEPT ![s] = "get"]
      /\ hand' = [hand EXCEPT ![s] = << >>]
      /\ UNCHANGED <<queue, taken, offered, aborted>>
  BY DEF CallbackReturns, CallbackRaises, history
<1>3. /\ hand \in [Subs -> Seq(Event)] /\ hand' \in [Subs -> Seq(Event)]
      /\ worker \in [Subs -> WorkerState] /\ metrics \in BrokerMetrics
  BY <1>1 DEF TypeOK
<1>4. /\ metrics'.dropped = metrics.dropped
      /\ metrics'.delivered + metrics'.failed = metrics.delivered + metrics.failed + 1
  <2>1. CASE CallbackReturns(s)
    BY <1>3, <2>1 DEF CallbackReturns, BrokerMetrics
  <2>2. CASE CallbackRaises(s)
    BY <1>3, <2>2 DEF CallbackRaises, BrokerMetrics
  <2> QED
    BY <2>1, <2>2
<1>5. Routed' = Routed /\ Gotten' = Gotten
  BY <1>2 DEF Routed, Gotten
<1>6. SumFunction(InHand) = SumFunction(InHand') + 1
  <2>1. Len(hand[s]) = 1 /\ Len(hand'[s]) = 0
    BY <1>2, <1>3 DEF BooksInv, HandsKnown
  <2>2. \A x \in Subs \ {s} : hand[x] = hand'[x]
    BY <1>2, <1>3
  <2>3. InHand[s] = InHand'[s] + 1 /\ \A x \in Subs \ {s} : InHand[x] = InHand'[x]
    <3>1. \A x \in Subs : InHand[x] = Len(hand[x]) /\ InHand'[x] = Len(hand'[x])
      BY DEF InHand
    <3>2. InHand[s] = 1 /\ InHand'[s] = 0
      BY <2>1, <3>1
    <3>3. \A x \in Subs \ {s} : InHand[x] = InHand'[x]
      BY <2>2, <3>1
    <3> QED
      BY <3>2, <3>3
  <2>4. InHand \in [Subs -> Nat] /\ InHand' \in [Subs -> Nat]
    BY <1>3, LensType DEF InHand
  <2> QED
    BY <2>3, <2>4, OneGrows
<1>7. HandsKnown'
  <2>1. worker'[s] = "get" /\ hand'[s] = << >>
    BY <1>2, <1>3
  <2>2. \A x \in Subs \ {s} : worker'[x] = worker[x] /\ hand'[x] = hand[x]
    BY <1>2, <1>3
  <2> QED
    BY <2>1, <2>2 DEF BooksInv, HandsKnown
<1>8. /\ SumFunction(offered) = SumFunction(Routed) + metrics.dropped
      /\ SumFunction(Gotten) =
             metrics.delivered + metrics.failed + SumFunction(aborted) + SumFunction(InHand)
  BY BooksAre DEF BooksInv
<1>9. /\ metrics.delivered \in Nat /\ metrics.failed \in Nat /\ SumFunction(aborted) \in Nat
      /\ SumFunction(InHand') \in Nat /\ metrics'.delivered \in Nat /\ metrics'.failed \in Nat
  <2>1. metrics' \in BrokerMetrics /\ IsFiniteSet(Subs) /\ InHand' \in [Subs -> Nat]
    BY <1>1, <1>3 DEF TypeOK, BrokerAssumption, InHand
  <2> QED
    BY <1>1, <2>1, SumsTyped, BooksTyped, SumType DEF BrokerMetrics
<1>10. SumFunction(Gotten') =
           metrics'.delivered + metrics'.failed + SumFunction(aborted') + SumFunction(InHand')
  <2> DEFINE a == SumFunction(InHand)
             b == SumFunction(InHand')
             d == SumFunction(aborted)
             m == metrics.delivered + metrics.failed
             n == metrics'.delivered + metrics'.failed
  <2>1. a = b + 1 /\ n = m + 1 /\ b \in Nat /\ m \in Nat /\ d \in Nat
    BY <1>4, <1>6, <1>9
  <2>2. SumFunction(Gotten') = m + d + a /\ aborted' = aborted
    BY <1>2, <1>5, <1>8
  <2>3. m + d + a = n + d + b
    <3> HIDE DEF a, b, d, m, n
    <3> QED
      BY <2>1
  <2> QED
    BY <2>2, <2>3
<1>11. SumFunction(offered') = SumFunction(Routed') + metrics'.dropped
  BY <1>2, <1>4, <1>5, <1>8
<1> QED
  BY <1>1, <1>7, <1>10, <1>11 DEF BooksInv, BooksBalance, Total, Routed, Gotten, InHand

(* A cancelled worker drops what it has in hand.                           *)
LEMMA StopBooks ==
    ASSUME BrokerAssumption, BooksInv, NEW s \in Subs, WorkerStops(s)
    PROVE  BooksInv'
<1> DEFINE both == [x \in Subs |-> aborted[x] + InHand[x]]
<1>1. TypeOK /\ TypeOK'
  BY TypeWorker DEF BooksInv
<1>2. /\ worker' = [worker EXCEPT ![s] = "stopped"]
      /\ hand' = [hand EXCEPT ![s] = << >>]
      /\ aborted' = [aborted EXCEPT ![s] = @ + Len(hand[s])]
      /\ UNCHANGED <<queue, taken, offered, metrics>>
  BY DEF WorkerStops
<1>3. /\ hand \in [Subs -> Seq(Event)] /\ hand' \in [Subs -> Seq(Event)]
      /\ worker \in [Subs -> WorkerState] /\ IsFiniteSet(Subs)
      /\ aborted \in [Subs -> Nat] /\ aborted' \in [Subs -> Nat]
  BY <1>1 DEF TypeOK, BrokerAssumption
<1>4. InHand \in [Subs -> Nat] /\ InHand' \in [Subs -> Nat]
  BY <1>3 DEF InHand
<1>5. both \in [Subs -> Nat] /\ \A x \in Subs : both[x] = aborted[x] + InHand[x]
  BY <1>3, <1>4
<1>6. \A x \in Subs : both[x] = aborted'[x] + InHand'[x]
  <2> SUFFICES ASSUME NEW x \in Subs PROVE aborted[x] + InHand[x] = aborted'[x] + InHand'[x]
    OBVIOUS
  <2>1. CASE x = s
    <3> DEFINE n == Len(hand[s])
    <3>1. aborted'[s] = aborted[s] + n /\ InHand'[s] = 0 /\ InHand[s] = n
      BY <1>2, <1>3 DEF InHand
    <3>2. n \in Nat /\ aborted[s] \in Nat
      BY <1>3, LenProperties
    <3> HIDE DEF n
    <3> QED
      BY <2>1, <3>1, <3>2
  <2>2. CASE x # s
    BY <1>2, <1>3, <2>2 DEF InHand
  <2> QED
    BY <2>1, <2>2
<1> HIDE DEF both
<1>14. ASSUME NEW u \in [Subs -> Nat], NEW v \in [Subs -> Nat],
              \A x \in Subs : both[x] = u[x] + v[x]
       PROVE  SumFunction(both) = SumFunction(u) + SumFunction(v)
  <2>1. IsFiniteSet(Subs) /\ both \in [Subs -> Nat]
    BY <1>3, <1>5
  <2> QED
    BY <1>14, <2>1, SumAdds
<1>7. SumFunction(both) = SumFunction(aborted) + SumFunction(InHand)
  BY <1>3, <1>4, <1>5, <1>14
<1>8. SumFunction(both) = SumFunction(aborted') + SumFunction(InHand')
  BY <1>3, <1>4, <1>6, <1>14
<1>9. Routed' = Routed /\ Gotten' = Gotten
  BY <1>2 DEF Routed, Gotten
<1>10. HandsKnown'
  <2>1. worker'[s] = "stopped"
    BY <1>2, <1>3
  <2>2. \A x \in Subs \ {s} : worker'[x] = worker[x] /\ hand'[x] = hand[x]
    BY <1>2, <1>3
  <2> QED
    BY <2>1, <2>2 DEF BooksInv, HandsKnown
<1>11. /\ SumFunction(offered) = SumFunction(Routed) + metrics.dropped
       /\ SumFunction(Gotten) =
              metrics.delivered + metrics.failed + SumFunction(aborted) + SumFunction(InHand)
  BY BooksAre DEF BooksInv
<1>12. SumFunction(Gotten') =
           metrics'.delivered + metrics'.failed + SumFunction(aborted') + SumFunction(InHand')
  <2> DEFINE a == SumFunction(InHand)
             b == SumFunction(InHand')
             d == SumFunction(aborted)
             e == SumFunction(aborted')
             m == metrics.delivered + metrics.failed
  <2>1. d + a = e + b
    BY <1>7, <1>8
  <2>2. a \in Nat /\ b \in Nat /\ d \in Nat /\ e \in Nat
    <3>1. ASSUME NEW f \in [Subs -> Nat] PROVE SumFunction(f) \in Nat
      BY <1>3, SumType
    <3> QED
      BY <1>3, <1>4, <3>1
  <2>4. m \in Nat
    BY <1>1, BooksTyped
  <2>3. m + d + a = m + e + b
    <3> HIDE DEF a, b, d, e, m
    <3> QED
      BY <2>1, <2>2, <2>4
  <2> QED
    BY <1>2, <1>9, <1>11, <2>3
<1>13. SumFunction(offered') = SumFunction(Routed') + metrics'.dropped
  BY <1>2, <1>9, <1>11
<1> QED
  BY <1>1, <1>10, <1>12, <1>13 DEF BooksInv, BooksBalance, Total, Routed, Gotten, InHand

(* The rest moves subscriptions and cancels workers.                       *)
LEMMA ListBooks ==
    ASSUME BrokerAssumption, BooksInv, TypeOK',
           UNCHANGED <<hand, queue, taken, offered, aborted>>,
           metrics' = metrics \/ \E n \in Nat : metrics' = [metrics EXCEPT !.active = n],
           \A s \in Subs : worker'[s] = worker[s] \/ worker'[s] = "cancelling"
                             \/ (worker[s] = "none" /\ worker'[s] = "get")
    PROVE  BooksInv'
<1>1. metrics \in BrokerMetrics
  BY DEF BooksInv, TypeOK
<1>2. metrics'.dropped = metrics.dropped /\ metrics'.delivered = metrics.delivered
      /\ metrics'.failed = metrics.failed
  BY <1>1 DEF BrokerMetrics
<1>3. HandsKnown'
  BY DEF BooksInv, HandsKnown
<1> QED
  BY <1>2, <1>3 DEF BooksInv, BooksBalance, Total

LEMMA BooksStep == BrokerAssumption /\ BooksInv /\ [Next]_vars => BooksInv'
<1> SUFFICES ASSUME BrokerAssumption, BooksInv, [Next]_vars
             PROVE  BooksInv'
  OBVIOUS
<1>1. TypeOK /\ TypeOK' /\ worker \in [Subs -> WorkerState] /\ subscriptions \in Seq(Subs)
  BY TypeStep DEF BooksInv, TypeOK
<1>2. \A i \in DOMAIN subscriptions : subscriptions[i] \in Subs
  BY <1>1
<1>3. \A s \in Subs : \A x \in Subs :
         Cancelled(s)[x] = worker[x] \/ Cancelled(s)[x] = "cancelling"
  BY <1>1 DEF Cancelled
<1>4. CASE UNCHANGED vars
  BY <1>1, <1>4, ListBooks DEF vars, history
<1>5. ASSUME NEW t \in Topics, Publish(t) PROVE BooksInv'
  BY <1>5, PublishBooks
<1>6. ASSUME NEW s \in Subs, Take(s) \/ CallbackReturns(s) \/ CallbackRaises(s) \/ WorkerStops(s)
      PROVE  BooksInv'
  BY <1>6, TakeBooks, CallbackBooks, StopBooks
<1>7. CASE Start
  BY <1>1, <1>7, ListBooks DEF Start, history
<1>8. ASSUME NEW s \in Subs, Subscribe(s) PROVE BooksInv'
  <2>1. \A x \in Subs : worker'[x] = worker[x] \/ (worker[x] = "none" /\ worker'[x] = "get")
    BY <1>1, <1>8 DEF Subscribe
  <2>2. Len(subscriptions) + 1 \in Nat
    BY <1>1
  <2> QED
    BY <1>1, <1>8, <2>1, <2>2, ListBooks DEF Subscribe, history
<1>9. ASSUME NEW i \in Nat \ {0}, Pop(i)
      PROVE  metrics' = metrics \/ \E n \in Nat : metrics' = [metrics EXCEPT !.active = n]
  <2>1. CASE i <= Len(subscriptions)
    <3>1. Len(subscriptions) - 1 \in Nat
      BY <1>1, <2>1
    <3> QED
      BY <1>9, <2>1, <3>1 DEF Pop
  <2> QED
    BY <1>9, <2>1 DEF Pop
<1>10. ASSUME NEW c \in Callers, NEW s \in Subs, Unsubscribe(c, s) PROVE BooksInv'
  <2>1. PICK i \in DOMAIN subscriptions :
            IF Done(s) THEN Pop(i) /\ UNCHANGED <<worker, call>>
            ELSE worker' = Cancelled(s) /\ UNCHANGED <<subscriptions, metrics>>
    BY <1>10 DEF Unsubscribe
  <2>2. i \in Nat \ {0}
    BY <1>1
  <2>3. metrics' = metrics \/ \E n \in Nat : metrics' = [metrics EXCEPT !.active = n]
    BY <1>9, <2>1, <2>2
  <2>4. \A x \in Subs : worker'[x] = worker[x] \/ worker'[x] = "cancelling"
    BY <1>3, <2>1
  <2>5. UNCHANGED <<hand, queue, taken, offered, aborted>>
    BY <1>10 DEF Unsubscribe
  <2> QED
    BY <1>1, <2>3, <2>4, <2>5, ListBooks
<1>11. ASSUME NEW c \in Callers, UnsubscribeResumes(c) PROVE BooksInv'
  <2>1. call[c].index \in Nat \ {0}
    BY <1>1, <1>11, CallLocals DEF UnsubscribeResumes
  <2>2. metrics' = metrics \/ \E n \in Nat : metrics' = [metrics EXCEPT !.active = n]
    BY <1>9, <1>11, <2>1 DEF UnsubscribeResumes
  <2>3. UNCHANGED <<worker, hand, queue, taken, offered, aborted>>
    BY <1>11 DEF UnsubscribeResumes, history
  <2> QED
    BY <1>1, <2>2, <2>3, ListBooks
<1>12. ASSUME NEW c \in Callers, NEW i \in Nat \ {0}, StopFrom(c, i)
       PROVE  /\ metrics' = metrics \/ \E n \in Nat : metrics' = [metrics EXCEPT !.active = n]
              /\ \A x \in Subs : worker'[x] = worker[x] \/ worker'[x] = "cancelling"
  <2>1. \A j \in LiveFrom(i) : subscriptions[j] \in Subs
    BY <1>1 DEF LiveFrom
  <2> QED
    BY <1>3, <1>12, <2>1 DEF StopFrom
<1>13. ASSUME NEW c \in Callers, Stop(c) \/ StopResumes(c) PROVE BooksInv'
  <2>1. PICK i \in Nat \ {0} : StopFrom(c, i)
    BY <1>1, <1>13, CallLocals DEF Stop, StopResumes
  <2>2. UNCHANGED <<hand, queue, taken, offered, aborted>>
    BY <1>13 DEF Stop, StopResumes
  <2> QED
    BY <1>1, <1>12, <2>1, <2>2, ListBooks
<1> QED
  BY <1>4, <1>5, <1>6, <1>7, <1>8, <1>10, <1>11, <1>13 DEF Next

(* What is routed is taken, waiting or counted as dropped, and what is     *)
(* taken is delivered, failed, in hand or cut off, in the sums over all    *)
(* subscribers that the broker's counters are.                             *)
THEOREM BooksAlwaysBalance == Spec => []BooksBalance
<1>1. BrokerAssumption
  BY BrokerAssumption
<1>2. Init => BooksInv
  BY <1>1, BooksStart
<1>3. BooksInv /\ [Next]_vars => BooksInv'
  BY <1>1, BooksStep
<1>4. BooksInv => BooksBalance
  BY DEF BooksInv
<1> QED
  BY <1>2, <1>3, <1>4, PTL DEF Spec
==============================================================================
