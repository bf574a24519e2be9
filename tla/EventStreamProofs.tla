--------------------------- MODULE EventStreamProofs ---------------------------
(***************************************************************************)
(* Proofs about the event stream of chapter 4, for any number of clients   *)
(* and streams, broken connections and restarts.                           *)
(***************************************************************************)
EXTENDS EventStream, ListsProofs, FiniteSetTheorems

(* Every stream has a stage; the rest of its state plays no part here.     *)
StagesKnown == DOMAIN stream = Streams /\ \A p \in Streams : "stage" \in DOMAIN stream[p]

(* A stream that is not in use is no subscriber, and GaugeIsSubscribers is *)
(* inductive once the number is known to be one.                           *)
GaugeInv == StagesKnown /\ connected \in Nat /\ GaugeIsSubscribers

Counted == {"open", "running", "lost"}

-----------------------------------------------------------------------------
LEMMA SubscribersFinite == ASSUME StreamAssumption PROVE IsFiniteSet(Subscribers)
  BY FS_Subset DEF StreamAssumption, Subscribers

(* A step in which no stream begins or ends to be counted.                 *)
LEMMA SameSubscribers ==
    ASSUME GaugeInv, UNCHANGED connected, StagesKnown',
           \A p \in Streams : stream'[p].stage \in Counted <=> stream[p].stage \in Counted
    PROVE  GaugeInv'
<1>1. Subscribers' = Subscribers
  BY DEF Subscribers, Counted
<1> QED
  BY <1>1 DEF GaugeInv, GaugeIsSubscribers

LEMMA GaugeStart == ASSUME StreamAssumption, Init PROVE GaugeInv
<1>1. Subscribers = {}
  BY DEF Init, NoStream, Subscribers
<1>2. StagesKnown
  BY DEF Init, NoStream, StagesKnown
<1> QED
  BY <1>1, <1>2, FS_EmptySet DEF Init, GaugeInv, GaugeIsSubscribers

(* The request of a client lifts the gauge before its generator runs.      *)
LEMMA OpenCounts ==
    ASSUME StreamAssumption, GaugeInv, NEW c \in Clients, Open(c) PROVE GaugeInv'
<1> DEFINE p == CHOOSE p \in Unused : TRUE
<1>1. p \in Unused
  BY DEF Open
<1>2. /\ stream' = [stream EXCEPT ![p] =
            [NoStream EXCEPT !.stage = "open", !.owner = c, !.last = resumeId[c]]]
      /\ connected' = connected + 1
  BY DEF Open
<1>3. p \in Streams /\ stream[p].stage = "unused"
  BY <1>1 DEF Unused
<1> HIDE DEF p
<1>4. stream'[p].stage = "open" /\ "stage" \in DOMAIN stream'[p]
  BY <1>2, <1>3 DEF NoStream, GaugeInv, StagesKnown
<1>5. \A q \in Streams \ {p} : stream'[q] = stream[q]
  BY <1>2, <1>3 DEF GaugeInv, StagesKnown
<1>6. Subscribers' = Subscribers \union {p} /\ p \notin Subscribers
  BY <1>3, <1>4, <1>5 DEF Subscribers
<1>7. StagesKnown'
  BY <1>2, <1>4, <1>5 DEF GaugeInv, StagesKnown
<1>8. Cardinality(Subscribers') = Cardinality(Subscribers) + 1
  BY <1>6, SubscribersFinite, FS_AddElement
<1> QED
  BY <1>2, <1>7, <1>8 DEF GaugeInv, GaugeIsSubscribers

(* The finally of a running generator lowers it.                           *)
LEMMA CloseCounts ==
    ASSUME StreamAssumption, GaugeInv, NEW p \in Streams, Close(p) PROVE GaugeInv'
<1>1. /\ stream[p].stage = "running"
      /\ stream' = [stream EXCEPT ![p] = NoStream]
      /\ connected' = connected - 1
  BY DEF Close
<1>2. stream'[p] = NoStream /\ \A q \in Streams \ {p} : stream'[q] = stream[q]
  BY <1>1 DEF GaugeInv, StagesKnown
<1>3. Subscribers' = Subscribers \ {p} /\ p \in Subscribers
  BY <1>1, <1>2 DEF Subscribers, NoStream
<1>4. StagesKnown'
  BY <1>1, <1>2 DEF GaugeInv, StagesKnown, NoStream
<1>5. /\ Cardinality(Subscribers') = Cardinality(Subscribers) - 1
      /\ Cardinality(Subscribers) # 0 /\ Cardinality(Subscribers) \in Nat
  BY <1>3, SubscribersFinite, FS_RemoveElement, FS_EmptySet, FS_CardinalityType
<1> QED
  BY <1>1, <1>4, <1>5 DEF GaugeInv, GaugeIsSubscribers

(* The process forgets its streams and its gauge together.                 *)
LEMMA RestartCounts == ASSUME StreamAssumption, Restart PROVE GaugeInv'
<1>1. Subscribers' = {} /\ connected' = 0
  BY DEF Restart, Subscribers, NoStream
<1>2. StagesKnown'
  BY DEF Restart, StagesKnown, NoStream
<1> QED
  BY <1>1, <1>2, FS_EmptySet DEF GaugeInv, GaugeIsSubscribers

LEMMA GaugeStep == StreamAssumption /\ GaugeInv /\ [Next]_vars => GaugeInv'
<1> SUFFICES ASSUME StreamAssumption, GaugeInv, [Next]_vars PROVE GaugeInv'
  OBVIOUS
<1> USE DEF StagesKnown, Counted
<1>1. StagesKnown
  BY DEF GaugeInv
<1>2. CASE Broadcast
  <2>1. PICK n : /\ stream' = [p \in Streams |->
                        IF p \in Subscribers
                        THEN [stream[p] EXCEPT !.queue = Offered(@, n)] ELSE stream[p]]
                 /\ UNCHANGED connected
    BY <1>2 DEF Broadcast
  <2>2. \A p \in Streams : /\ "stage" \in DOMAIN stream'[p]
                           /\ stream'[p].stage = stream[p].stage
    BY <1>1, <2>1
  <2> QED
    BY <2>1, <2>2, SameSubscribers
<1>3. CASE Restart
  BY <1>3, RestartCounts
<1>4. ASSUME NEW c \in Clients, Open(c) PROVE GaugeInv'
  BY <1>4, OpenCounts
<1>5. ASSUME NEW c \in Clients, Receive(c) \/ Drop(c) PROVE GaugeInv'
  BY <1>1, <1>5, SameSubscribers DEF Receive, Drop
<1>6. ASSUME NEW p \in Streams, Start(p) PROVE GaugeInv'
  <2>1. PICK r : /\ stream' = [stream EXCEPT ![p].stage = "running", ![p].replay = r]
                 /\ stream[p].stage = "open" /\ UNCHANGED connected
    BY <1>6 DEF Start
  <2>2. "stage" \in DOMAIN stream'[p] /\ stream'[p].stage = "running"
    BY <1>1, <2>1
  <2>3. DOMAIN stream' = Streams /\ \A q \in Streams \ {p} : stream'[q] = stream[q]
    BY <1>1, <2>1
  <2> QED
    BY <1>1, <2>1, <2>2, <2>3, SameSubscribers
<1>7. ASSUME NEW p \in Streams, Yield(p) PROVE GaugeInv'
  <2>1. PICK s : /\ stream' = [stream EXCEPT ![p] = s] /\ UNCHANGED connected
                 /\ "stage" \in DOMAIN s /\ s.stage = stream[p].stage
    <3>1. stream' = [stream EXCEPT ![p] =
              IF stream[p].replay # <<>> THEN [stream[p] EXCEPT !.replay = Tail(@)]
              ELSE [stream[p] EXCEPT !.queue = Tail(@)]]
      BY <1>7 DEF Yield
    <3> QED
      BY <1>1, <1>7, <3>1 DEF Yield
  <2>2. DOMAIN stream' = Streams /\ stream'[p] = s
        /\ \A q \in Streams \ {p} : stream'[q] = stream[q]
    BY <1>1, <2>1
  <2> QED
    BY <1>1, <2>1, <2>2, SameSubscribers
<1>8. ASSUME NEW p \in Streams, Close(p) PROVE GaugeInv'
  BY <1>8, CloseCounts
<1>9. ASSUME NEW p \in Streams, Abandon(p) PROVE GaugeInv'
  <2>1. /\ stream' = [stream EXCEPT ![p].stage = "lost"]
        /\ stream[p].stage = "open" /\ UNCHANGED connected
    BY <1>9 DEF Abandon
  <2>2. "stage" \in DOMAIN stream'[p] /\ stream'[p].stage = "lost"
    BY <1>1, <2>1
  <2>3. DOMAIN stream' = Streams /\ \A q \in Streams \ {p} : stream'[q] = stream[q]
    BY <1>1, <2>1
  <2> QED
    BY <1>1, <2>1, <2>2, <2>3, SameSubscribers
<1>10. CASE UNCHANGED vars
  BY <1>1, <1>10, SameSubscribers DEF vars
<1> QED
  BY <1>2, <1>3, <1>4, <1>5, <1>6, <1>7, <1>8, <1>9, <1>10 DEF Next

-----------------------------------------------------------------------------
(* connected_clients is the number of queues broadcasts still fill, those  *)
(* of abandoned generators included, whatever breaks or is restarted.      *)
THEOREM SubscribersAreCounted == Spec => []GaugeIsSubscribers
<1>1. Init => GaugeInv
  BY StreamAssumption, GaugeStart
<1>2. GaugeInv /\ [Next]_vars => GaugeInv'
  BY StreamAssumption, GaugeStep
<1>3. GaugeInv => GaugeIsSubscribers
  BY DEF GaugeInv
<1> QED
  BY <1>1, <1>2, <1>3, PTL DEF Spec

-----------------------------------------------------------------------------
(* What a client that is served has still to read, in order: the events on *)
(* their way, then the replay, then the queue.                             *)
Line(c) == (wire[c] \o stream[at[c]].replay) \o stream[at[c]].queue

(* Nothing that is due is missing among what was read and the line, and    *)
(* before an event of the line come the due events before it.              *)
Complete(read, line, due) ==
    /\ due \subseteq read \union ToSet(line)
    /\ \A i \in DOMAIN line : \A n \in due :
          n < line[i] => n \in read \/ \E j \in 1 .. i - 1 : line[j] = n

(* Only events of the window are read, or are in the line, when one comes  *)
(* that is not after them.                                                 *)
Ascends(read, line, win) ==
    /\ \A n \in read : \A i \in DOMAIN line : n >= line[i] => n \in win
    /\ \A i, j \in DOMAIN line : i < j /\ line[i] >= line[j] => line[i] \in win

(* The log holds the latest events, without a gap.                         *)
LogLatest ==
    /\ Len(eventLog) <= published - base
    /\ \A i \in DOMAIN eventLog : eventLog[i] = published - Len(eventLog) + i

(* A queue has events of this life of the server, in order.  What comes    *)
(* while a generator has not started is in the window from then on.        *)
QueueInOrder(p) ==
    LET s == stream[p] IN
    /\ \A i \in DOMAIN s.queue : base < s.queue[i] /\ s.queue[i] <= published
    /\ \A i, j \in DOMAIN s.queue : i < j => s.queue[i] < s.queue[j]
    /\ \A i \in DOMAIN s.replay : base < s.replay[i] /\ s.replay[i] <= published
    /\ s.stage = "open" =>
          /\ s.replay = <<>>
          /\ \A i \in DOMAIN s.queue : s.queue[i] .. published \subseteq window

(* The id a client resumes from stands for all that is due before it.      *)
ResumeStands(c) ==
    idFrom[c] = base /\ resumeId[c] > 0 =>
        /\ base + resumeId[c] <= published
        /\ \A n \in Due(c) : n <= base + resumeId[c] => n \in ToSet(got[c])
        /\ \A n \in ToSet(got[c]) : n > base + resumeId[c] => n \in window

ReadSoFar(c) ==
    /\ c \notin Browsers => resumeId[c] = 0
    /\ idFrom[c] <= base /\ since[c] <= published
    /\ \A n \in ToSet(got[c]) : n <= IF idFrom[c] = base THEN published ELSE base
    /\ \A i \in DOMAIN wire[c] : base < wire[c][i] /\ wire[c][i] <= published

(* A client without a stream has nothing on its way, and the stream it     *)
(* reads is its own.                                                       *)
Attachment(c) ==
    IF at[c] = None THEN wire[c] = <<>>
    ELSE LET s == stream[at[c]] IN
         /\ s.owner = c /\ s.stage \in {"open", "running"}
         /\ s.stage = "open" =>
               /\ wire[c] = <<>> /\ s.last = resumeId[c]
               /\ s.last = 0 => Due(c) \subseteq ToSet(s.queue)
         /\ s.stage = "running" =>
               /\ Complete(ToSet(got[c]), Line(c), Due(c))
               /\ Ascends(ToSet(got[c]), Line(c), window)

Served(c) == ReadSoFar(c) /\ ResumeStands(c) /\ Attachment(c)

DeliveryInv ==
    /\ TypeOK /\ LogLatest
    /\ \A p \in Streams : QueueInOrder(p)
    /\ \A c \in Clients : Served(c)
    /\ RepeatsOnlyFromWindow

-----------------------------------------------------------------------------
(* How the line moves.                                                     *)
LEMMA LineGrows ==
    ASSUME NEW T, NEW w \in Seq(T), NEW r \in Seq(T), NEW q \in Seq(T), NEW n \in T
    PROVE  (w \o r) \o Append(q, n) = Append((w \o r) \o q, n)
OBVIOUS

(* How sequences of numbers join.                                          *)
LEMMA Concat == \A u, v, w \in Seq(Nat) : (u \o v) \o w = u \o (v \o w)
OBVIOUS

LEMMA FirstMoves ==
    \A w, s \in Seq(Nat) : s # <<>> => Append(w, Head(s)) \o Tail(s) = w \o s
<1> SUFFICES ASSUME NEW w \in Seq(Nat), NEW s \in Seq(Nat), s # <<>>
             PROVE  Append(w, Head(s)) \o Tail(s) = w \o s
  OBVIOUS
<1>1. Head(s) \in Nat /\ Tail(s) \in Seq(Nat) /\ <<Head(s)>> \in Seq(Nat)
  OBVIOUS
<1>2. s = <<Head(s)>> \o Tail(s) /\ Append(w, Head(s)) = w \o <<Head(s)>>
  BY <1>1
<1>3. (w \o <<Head(s)>>) \o Tail(s) = w \o (<<Head(s)>> \o Tail(s))
  BY <1>1, Concat
<1> QED
  BY <1>2, <1>3, Zenon

LEMMA LineShifts ==
    \A w, r, q \in Seq(Nat) :
        /\ r # <<>> => (Append(w, Head(r)) \o Tail(r)) \o q = (w \o r) \o q
        /\ r = <<>> /\ q # <<>> =>
              (Append(w, Head(q)) \o r) \o Tail(q) = (w \o r) \o q
<1> SUFFICES ASSUME NEW w \in Seq(Nat), NEW r \in Seq(Nat), NEW q \in Seq(Nat)
             PROVE  /\ r # <<>> => (Append(w, Head(r)) \o Tail(r)) \o q = (w \o r) \o q
                    /\ r = <<>> /\ q # <<>> =>
                          (Append(w, Head(q)) \o r) \o Tail(q) = (w \o r) \o q
  OBVIOUS
<1>1. CASE r # <<>>
  <2>1. Append(w, Head(r)) \o Tail(r) = w \o r
    BY <1>1, FirstMoves
  <2> QED
    BY <1>1, <2>1, Zenon
<1>2. CASE r = <<>>
  <2>1. w \o r = w
    BY <1>2
  <2>2. ASSUME q # <<>>
        PROVE  (Append(w, Head(q)) \o r) \o Tail(q) = (w \o r) \o q
    <3>1. Append(w, Head(q)) \in Seq(Nat)
      BY <2>2
    <3>2. Append(w, Head(q)) \o r = Append(w, Head(q))
      BY <1>2, <3>1
    <3>3. Append(w, Head(q)) \o Tail(q) = w \o q
      BY <2>2, FirstMoves
    <3> QED
      BY <2>1, <3>2, <3>3, Zenon
  <2> QED
    BY <1>2, <2>2, Zenon
<1> QED
  BY <1>1, <1>2

LEMMA LineShrinks ==
    \A w, r, q \in Seq(Nat) : w # <<>> => (Tail(w) \o r) \o q = Tail((w \o r) \o q)
<1> SUFFICES ASSUME NEW w \in Seq(Nat), NEW r \in Seq(Nat), NEW q \in Seq(Nat), w # <<>>
             PROVE  (Tail(w) \o r) \o q = Tail((w \o r) \o q)
  OBVIOUS
<1>1. ASSUME NEW v \in Seq(Nat), NEW u \in Seq(Nat), v # <<>>
      PROVE  Tail(v \o u) = Tail(v) \o u /\ v \o u \in Seq(Nat) /\ v \o u # <<>>
  BY <1>1
<1>2. /\ Tail(w \o r) = Tail(w) \o r /\ w \o r \in Seq(Nat) /\ w \o r # <<>>
  BY <1>1
<1>3. Tail((w \o r) \o q) = Tail(w \o r) \o q
  BY <1>1, <1>2
<1> QED
  BY <1>2, <1>3, Zenon

LEMMA LineHolds ==
    ASSUME NEW T, NEW w \in Seq(T), NEW r \in Seq(T), NEW q \in Seq(T)
    PROVE  /\ (w \o r) \o q \in Seq(T)
           /\ ToSet((w \o r) \o q) = ToSet(w) \union ToSet(r) \union ToSet(q)
<1>1. (w \o r) \o q \in Seq(T) /\ w \o r \in Seq(T)
  OBVIOUS
<1>2. ASSUME NEW a \in Seq(T), NEW b \in Seq(T)
      PROVE  ToSet(a \o b) = ToSet(a) \union ToSet(b)
  <2>1. ToSet(a \o b) \subseteq ToSet(a) \union ToSet(b)
    BY DEF ToSet
  <2>2. ASSUME NEW i \in DOMAIN a PROVE a[i] \in ToSet(a \o b)
    <3>1. i \in DOMAIN (a \o b) /\ (a \o b)[i] = a[i]
      OBVIOUS
    <3> QED
      BY <3>1 DEF ToSet
  <2>3. ASSUME NEW i \in DOMAIN b PROVE b[i] \in ToSet(a \o b)
    <3>1. Len(a) + i \in DOMAIN (a \o b) /\ (a \o b)[Len(a) + i] = b[i]
      OBVIOUS
    <3> QED
      BY <3>1 DEF ToSet
  <2> QED
    BY <2>1, <2>2, <2>3 DEF ToSet
<1> QED
  BY <1>1, <1>2

(* Broadcasting, reading, and claims that are given up keep a line whole.  *)
LEMMA CompleteAppend ==
    ASSUME NEW read, NEW line \in Seq(Nat), NEW n \in Nat, NEW due, NEW due2,
           Complete(read, line, due), due2 \subseteq due \union {n}, due2 \subseteq Nat,
           \A i \in DOMAIN line : line[i] < n
    PROVE  Complete(read, Append(line, n), due2)
<1> DEFINE more == Append(line, n)
<1>1. /\ DOMAIN more = 1 .. Len(line) + 1 /\ DOMAIN line = 1 .. Len(line)
      /\ more[Len(line) + 1] = n /\ \A i \in DOMAIN line : more[i] = line[i]
      /\ Len(line) \in Nat
  OBVIOUS
<1> HIDE DEF more
<1>2. ToSet(more) = ToSet(line) \union {n}
  BY <1>1 DEF ToSet
<1>3. due2 \subseteq read \union ToSet(more)
  BY <1>2 DEF Complete
<1>4. ASSUME NEW i \in DOMAIN more, NEW m \in due2, m < more[i]
      PROVE  m \in read \/ \E j \in 1 .. i - 1 : more[j] = m
  <2>1. CASE i \in DOMAIN line
    <3>1. CASE m \in due
      <4>1. m \in read \/ \E j \in 1 .. i - 1 : line[j] = m
        BY <1>1, <1>4, <2>1, <3>1 DEF Complete
      <4>2. \A j \in 1 .. i - 1 : line[j] = more[j]
        BY <1>1, <2>1
      <4> QED
        BY <4>1, <4>2
    <3>2. CASE m = n
      <4>1. line[i] \in Nat /\ line[i] < n /\ n < line[i]
        BY <1>1, <1>4, <2>1, <3>2
      <4> QED
        BY <4>1
    <3> QED
      BY <3>1, <3>2
  <2>2. CASE i = Len(line) + 1
    <3>1. m # n /\ m \in due
      BY <1>1, <1>4, <2>2
    <3>2. m \in read \/ \E j \in DOMAIN line : line[j] = m
      BY <3>1 DEF Complete, ToSet
    <3> QED
      BY <1>1, <2>2, <3>2
  <2> QED
    BY <1>1, <2>1, <2>2
<1> QED
  BY <1>3, <1>4 DEF Complete, more

LEMMA CompleteLess ==
    ASSUME NEW read, NEW line, NEW due, NEW due2, due2 \subseteq due,
           Complete(read, line, due)
    PROVE  Complete(read, line, due2)
BY DEF Complete

LEMMA CompleteTail ==
    ASSUME NEW read, NEW line \in Seq(Nat), NEW due, due \subseteq Nat,
           line # <<>>, Complete(read, line, due)
    PROVE  /\ Complete(read \union {Head(line)}, Tail(line), due)
           /\ \A n \in due : n <= Head(line) => n \in read \union {Head(line)}
<1> DEFINE rest == Tail(line)
<1>1. /\ DOMAIN rest = 1 .. Len(line) - 1 /\ DOMAIN line = 1 .. Len(line)
      /\ Len(line) \in Nat \ {0} /\ Head(line) = line[1]
      /\ \A i \in DOMAIN rest : rest[i] = line[i + 1]
  OBVIOUS
<1> HIDE DEF rest
<1>2. due \subseteq read \union {Head(line)} \union ToSet(rest)
  <2> SUFFICES ASSUME NEW n \in due, n \notin read, n # line[1]
               PROVE  n \in ToSet(rest)
    BY <1>1
  <2>1. PICK i \in DOMAIN line : line[i] = n
    BY DEF Complete, ToSet
  <2>2. i - 1 \in DOMAIN rest /\ rest[i - 1] = n
    BY <1>1, <2>1
  <2> QED
    BY <2>2 DEF ToSet
<1>3. ASSUME NEW i \in DOMAIN rest, NEW n \in due, n < rest[i]
      PROVE  n \in read \union {Head(line)} \/ \E j \in 1 .. i - 1 : rest[j] = n
  <2>1. i + 1 \in DOMAIN line /\ n < line[i + 1]
    BY <1>1, <1>3
  <2>2. n \in read \/ \E j \in 1 .. (i + 1) - 1 : line[j] = n
    BY <2>1 DEF Complete
  <2>3. ASSUME NEW j \in 1 .. (i + 1) - 1, line[j] = n, j # 1
        PROVE  \E k \in 1 .. i - 1 : rest[k] = n
    <3>1. i \in Nat /\ j \in Nat /\ j >= 1 /\ j <= i /\ i <= Len(line) - 1
      BY <1>1, <2>3
    <3>2. j - 1 \in 1 .. i - 1 /\ j - 1 \in DOMAIN rest /\ (j - 1) + 1 = j
      BY <1>1, <2>3, <3>1
    <3>3. rest[j - 1] = n
      BY <1>1, <2>3, <3>2
    <3> QED
      BY <3>2, <3>3
  <2> QED
    BY <1>1, <2>2, <2>3
<1>4. ASSUME NEW n \in due, n <= Head(line)
      PROVE  n \in read \union {Head(line)}
  <2>1. 1 \in DOMAIN line /\ line[1] \in Nat
    BY <1>1
  <2>2. n < line[1] => n \in read \/ \E j \in 1 .. 1 - 1 : line[j] = n
    BY <2>1 DEF Complete
  <2> QED
    BY <1>1, <1>4, <2>1, <2>2
<1> QED
  BY <1>2, <1>3, <1>4 DEF Complete, rest

LEMMA AscendsAppend ==
    ASSUME NEW read, NEW line \in Seq(Nat), NEW n \in Nat, NEW win, NEW win2,
           read \subseteq Nat, Ascends(read, line, win), win \subseteq win2,
           \A m \in read : m < n, \A i \in DOMAIN line : line[i] < n
    PROVE  Ascends(read, Append(line, n), win2)
<1> DEFINE more == Append(line, n)
<1>1. /\ DOMAIN more = 1 .. Len(line) + 1 /\ DOMAIN line = 1 .. Len(line)
      /\ more[Len(line) + 1] = n /\ \A i \in DOMAIN line : more[i] = line[i]
      /\ Len(line) \in Nat /\ \A i \in DOMAIN line : line[i] \in Nat
  OBVIOUS
<1> HIDE DEF more
<1> QED
  BY <1>1 DEF Ascends, more

LEMMA AscendsMore ==
    ASSUME NEW read, NEW line, NEW win, NEW win2, win \subseteq win2,
           Ascends(read, line, win)
    PROVE  Ascends(read, line, win2)
BY DEF Ascends

LEMMA AscendsTail ==
    ASSUME NEW read, NEW line \in Seq(Nat), NEW win, line # <<>>,
           Ascends(read, line, win)
    PROVE  /\ Ascends(read \union {Head(line)}, Tail(line), win)
           /\ \A n \in read : n >= Head(line) => n \in win
<1> DEFINE rest == Tail(line)
<1>1. /\ DOMAIN rest = 1 .. Len(line) - 1 /\ DOMAIN line = 1 .. Len(line)
      /\ Len(line) \in Nat \ {0} /\ Head(line) = line[1]
      /\ \A i \in DOMAIN rest : rest[i] = line[i + 1] /\ i + 1 \in DOMAIN line
  OBVIOUS
<1>2. 1 \in DOMAIN line /\ \A i \in DOMAIN rest : 1 < i + 1
  BY <1>1
<1>3. \A i, j \in DOMAIN rest : i < j => i + 1 < j + 1
  BY <1>1
<1> HIDE DEF rest
<1>4. \A n \in read : \A i \in DOMAIN rest : n >= rest[i] => n \in win
  BY <1>1 DEF Ascends
<1>5. \A i \in DOMAIN rest : Head(line) >= rest[i] => Head(line) \in win
  BY <1>1, <1>2 DEF Ascends
<1>6. \A i, j \in DOMAIN rest : i < j /\ rest[i] >= rest[j] => rest[i] \in win
  BY <1>1, <1>3 DEF Ascends
<1>7. \A n \in read : n >= Head(line) => n \in win
  BY <1>1, <1>2 DEF Ascends
<1> QED
  BY <1>4, <1>5, <1>6, <1>7 DEF Ascends, rest

-----------------------------------------------------------------------------
(* Types.                                                                  *)
StreamState == [stage : Stages, owner : Clients \union {None}, last : Nat,
                replay : Seq(Events), queue : Seq(Events)]

(* What is a number.                                                       *)
LEMMA Numbers ==
    ASSUME StreamAssumption, TypeOK
    PROVE  /\ published \in Nat /\ base \in Nat /\ base <= published
           /\ eventLog \in Seq(Nat)
           /\ \A c \in Clients : /\ got[c] \in Seq(Nat) /\ wire[c] \in Seq(Nat)
                                 /\ ToSet(got[c]) \subseteq Nat
                                 /\ at[c] # None => Line(c) \in Seq(Nat)
           /\ \A p \in Streams : /\ stream[p].queue \in Seq(Nat)
                                 /\ stream[p].replay \in Seq(Nat)
<1>1. Seq(Events) \subseteq Seq(Nat)
  <2>1. Events \subseteq Nat
    BY DEF Events, StreamAssumption
  <2> QED
    BY <2>1, SeqMonotonic
<1>2. published \in Nat /\ base \in Nat /\ base <= published
  BY DEF TypeOK, StreamAssumption
<1>3. ASSUME NEW c \in Clients
      PROVE  /\ got[c] \in Seq(Nat) /\ wire[c] \in Seq(Nat)
             /\ ToSet(got[c]) \subseteq Nat
  <2>1. got[c] \in Seq(Nat) /\ wire[c] \in Seq(Nat)
    BY <1>1 DEF TypeOK
  <2> QED
    BY <2>1 DEF ToSet
<1>4. ASSUME NEW p \in Streams
      PROVE  stream[p].queue \in Seq(Nat) /\ stream[p].replay \in Seq(Nat)
  BY <1>1 DEF TypeOK
<1>5. ASSUME NEW c \in Clients, at[c] # None
      PROVE  Line(c) \in Seq(Nat)
  <2>1. at[c] \in Streams
    BY <1>5 DEF TypeOK
  <2> QED
    BY <1>3, <1>4, <2>1, LineHolds DEF Line
<1>6. eventLog \in Seq(Nat)
  BY <1>1 DEF TypeOK
<1> QED
  BY <1>2, <1>3, <1>4, <1>5, <1>6

LEMMA TypeStart == StreamAssumption /\ Init => TypeOK
  BY DEF StreamAssumption, Init, TypeOK, NoStream, Stages, Events

LEMMA NoStreamType == NoStream \in StreamState /\ NoStream.queue = <<>>
  BY DEF NoStream, StreamState, Stages

(* A step that changes one stream, and its queue not at all or for less.   *)
LEMMA OneStreamType ==
    ASSUME TypeOK, NEW p \in Streams, NEW s \in StreamState,
           Len(s.queue) <= QueueSize, stream' = [stream EXCEPT ![p] = s]
    PROVE  /\ stream' \in [Streams -> StreamState]
           /\ \A q \in Streams : Len(stream'[q].queue) <= QueueSize
BY DEF TypeOK, StreamState

LEMMA BroadcastType ==
    ASSUME StreamAssumption, TypeOK, Broadcast PROVE TypeOK'
<1> DEFINE n == published + 1
<1>1. /\ n \in Events /\ published' = n /\ n \in 0 .. MaxEvents
      /\ base \in 0 .. n
  BY DEF Broadcast, TypeOK, Events, StreamAssumption
<1>2. eventLog' \in Seq(Events) /\ Len(eventLog') <= LogSize
  <2> DEFINE log == Append(eventLog, n)
  <2>1. log \in Seq(Events) /\ eventLog' = Trim(log) /\ LogSize \in Nat
    BY <1>1 DEF Broadcast, TypeOK, StreamAssumption
  <2> HIDE DEF log
  <2> QED
    BY <2>1 DEF Trim
<1>3. ASSUME NEW p \in Streams
      PROVE  stream'[p] \in StreamState /\ Len(stream'[p].queue) <= QueueSize
  <2>1. stream[p] \in StreamState /\ Len(stream[p].queue) <= QueueSize
    BY DEF TypeOK, StreamState
  <2>2. /\ Offered(stream[p].queue, n) \in Seq(Events)
        /\ Len(Offered(stream[p].queue, n)) <= QueueSize
    BY <1>1, <2>1 DEF Offered, StreamState, StreamAssumption
  <2>3. stream'[p] = IF p \in Subscribers
                     THEN [stream[p] EXCEPT !.queue = Offered(@, n)] ELSE stream[p]
    BY DEF Broadcast
  <2> QED
    BY <2>1, <2>2, <2>3 DEF StreamState
<1>4. DOMAIN stream' = Streams /\ stream' = [p \in Streams |-> stream'[p]]
  BY DEF Broadcast
<1>5. stream' \in [Streams -> StreamState]
  BY <1>3, <1>4
<1>6. excused' \in [Clients -> SUBSET Events] /\ window' \in SUBSET Events
  BY <1>1 DEF Broadcast, TypeOK
<1> QED
  BY <1>1, <1>2, <1>3, <1>5, <1>6 DEF Broadcast, TypeOK, client, StreamState

LEMMA OpenType ==
    ASSUME StreamAssumption, TypeOK, NEW c \in Clients, Open(c) PROVE TypeOK'
<1> DEFINE p == CHOOSE p \in Unused : TRUE
           s == [NoStream EXCEPT !.stage = "open", !.owner = c, !.last = resumeId[c]]
<1>1. p \in Streams
  BY DEF Open, Unused
<1>2. s \in StreamState /\ Len(s.queue) <= QueueSize
  <2> DEFINE s1 == [NoStream EXCEPT !.stage = "open"]
             s2 == [s1 EXCEPT !.owner = c]
  <2>1. resumeId[c] \in Nat /\ "open" \in Stages /\ Len(<<>>) <= QueueSize
    BY DEF TypeOK, StreamAssumption, Stages
  <2>2. s1 \in StreamState /\ s1.queue = <<>>
    BY <2>1, NoStreamType DEF StreamState
  <2> HIDE DEF s1
  <2>3. s2 \in StreamState /\ s2.queue = <<>>
    BY <2>2 DEF StreamState
  <2>4. s = [s2 EXCEPT !.last = resumeId[c]]
    BY DEF s1
  <2> HIDE DEF s2, s
  <2> QED
    BY <2>1, <2>3, <2>4 DEF StreamState
<1>3. stream' = [stream EXCEPT ![p] = s] /\ at' = [at EXCEPT ![c] = p]
  BY DEF Open
<1> HIDE DEF p, s
<1>4. /\ stream' \in [Streams -> StreamState]
      /\ \A q \in Streams : Len(stream'[q].queue) <= QueueSize
  BY <1>1, <1>2, <1>3, OneStreamType
<1>5. at' \in [Clients -> Streams \union {None}]
  BY <1>1, <1>3 DEF TypeOK
<1>6. since' \in [Clients -> 0 .. MaxEvents]
  <2>1. since' = IF resumeId[c] = 0 THEN [since EXCEPT ![c] = published] ELSE since
    BY DEF Open
  <2> QED
    BY <2>1 DEF TypeOK
<1>7. connected' \in Nat
  <2>1. connected \in Nat
    BY DEF TypeOK
  <2>2. connected' = connected + 1
    BY DEF Open
  <2> QED
    BY <2>1, <2>2
<1> QED
  BY <1>4, <1>5, <1>6, <1>7 DEF Open, TypeOK, StreamState

LEMMA StartType ==
    ASSUME StreamAssumption, TypeOK, NEW p \in Streams, Start(p) PROVE TypeOK'
<1> DEFINE last == stream[p].last
           r == IF last > 0 THEN Missed(last) ELSE <<>>
           s == [stream[p] EXCEPT !.stage = "running", !.replay = r]
           c == stream[p].owner
<1>1. Missed(last) \in Seq(Events)
  <2>1. eventLog \in Seq(Events)
    BY DEF TypeOK
  <2>2. Missed(last) \in Seq(Events \cap {n \in Nat : Id(n) > last})
    BY <2>1, KeepType DEF Missed
  <2> QED
    BY <2>2
<1>2. stream[p] \in StreamState /\ Len(stream[p].queue) <= QueueSize
  BY DEF TypeOK, StreamState
<1>3. stream' = [stream EXCEPT ![p] = s]
  <2>1. stream' = [stream EXCEPT ![p].stage = "running", ![p].replay = r]
    BY DEF Start
  <2> HIDE DEF r
  <2> QED
    BY <2>1 DEF TypeOK
<1>4. s \in StreamState /\ Len(s.queue) <= QueueSize
  <2>1. r \in Seq(Events) /\ "running" \in Stages
    BY <1>1 DEF Stages
  <2> HIDE DEF r
  <2> DEFINE s1 == [stream[p] EXCEPT !.stage = "running"]
  <2>2. s1 \in StreamState /\ s1.queue = stream[p].queue
    BY <1>2, <2>1 DEF StreamState
  <2>3. s = [s1 EXCEPT !.replay = r]
    OBVIOUS
  <2> HIDE DEF s1, s
  <2> QED
    BY <1>2, <2>1, <2>2, <2>3 DEF StreamState
<1> HIDE DEF s, r
<1>5. /\ stream' \in [Streams -> StreamState]
      /\ \A q \in Streams : Len(stream'[q].queue) <= QueueSize
  BY <1>3, <1>4, OneStreamType
<1>6. excused' \in [Clients -> SUBSET Events]
  <2>1. \A n \in 1 .. published : n \in Events
    BY DEF TypeOK, Events
  <2>2. excused' = [excused EXCEPT ![c] =
              @ \union {n \in 1 .. published : last > 0 /\ n \notin ToSet(eventLog)}]
    BY DEF Start
  <2> QED
    BY <2>1, <2>2 DEF TypeOK
<1>7. since' \in [Clients -> 0 .. MaxEvents]
  <2>1. since' = IF last > 0 /\ idFrom[c] # base
                 THEN [since EXCEPT ![c] = published] ELSE since
    BY DEF Start
  <2> QED
    BY <2>1 DEF TypeOK
<1> QED
  BY <1>5, <1>6, <1>7 DEF Start, TypeOK, StreamState, client

LEMMA YieldType ==
    ASSUME StreamAssumption, TypeOK, NEW p \in Streams, Yield(p) PROVE TypeOK'
<1> DEFINE old == stream[p]
           s == IF old.replay # <<>> THEN [old EXCEPT !.replay = Tail(@)]
                ELSE [old EXCEPT !.queue = Tail(@)]
           n == Head(old.replay \o old.queue)
<1>1. old \in StreamState /\ Len(old.queue) <= QueueSize
  BY DEF TypeOK, StreamState
<1>2. stream' = [stream EXCEPT ![p] = s] /\ old.replay \o old.queue # <<>>
  BY DEF Yield
<1>3. old.replay \in Seq(Events) /\ old.queue \in Seq(Events)
  BY <1>1 DEF StreamState
<1>4. n \in Events
  <2>1. old.replay \o old.queue \in Seq(Events)
    BY <1>3
  <2> QED
    BY <1>2, <2>1, HeadTailProperties
<1>5. s \in StreamState /\ Len(s.queue) <= QueueSize
  <2>1. CASE old.replay # <<>>
    <3>1. Tail(old.replay) \in Seq(Events)
      BY <1>3, <2>1
    <3>2. s = [old EXCEPT !.replay = Tail(old.replay)]
      BY <2>1
    <3> QED
      BY <1>1, <3>1, <3>2 DEF StreamState
  <2>2. CASE old.replay = <<>>
    <3>1. old.queue # <<>>
      BY <1>2, <1>3, <2>2
    <3>2. Tail(old.queue) \in Seq(Events) /\ Len(Tail(old.queue)) <= QueueSize
      BY <1>1, <1>3, <3>1, HeadTailProperties, LenProperties DEF StreamAssumption
    <3>3. s = [old EXCEPT !.queue = Tail(old.queue)]
      BY <2>2
    <3> QED
      BY <1>1, <3>2, <3>3 DEF StreamState
  <2> QED
    BY <2>1, <2>2
<1> HIDE DEF s
<1>6. /\ stream' \in [Streams -> StreamState]
      /\ \A q \in Streams : Len(stream'[q].queue) <= QueueSize
  BY <1>2, <1>5, OneStreamType
<1>7. wire' \in [Clients -> Seq(Events)]
  <2>1. wire' = IF at[old.owner] = p THEN [wire EXCEPT ![old.owner] = Append(@, n)]
                ELSE wire
    BY DEF Yield
  <2> HIDE DEF n
  <2>2. \A c \in Clients : Append(wire[c], n) \in Seq(Events)
    BY <1>4 DEF TypeOK
  <2> QED
    BY <1>4, <2>1, <2>2 DEF TypeOK
<1> QED
  BY <1>6, <1>7 DEF Yield, TypeOK, StreamState, client, ghosts

LEMMA ReceiveType ==
    ASSUME StreamAssumption, TypeOK, NEW c \in Clients, Receive(c), base < Head(wire[c])
    PROVE  TypeOK'
<1>1. Head(wire[c]) \in Events /\ Tail(wire[c]) \in Seq(Events)
  BY DEF Receive, TypeOK
<1>2. Id(Head(wire[c])) \in Nat /\ base \in 0 .. MaxEvents
  BY <1>1 DEF TypeOK, Events, Id, StreamAssumption
<1>3. got' \in [Clients -> Seq(Events)]
  <2>1. Append(got[c], Head(wire[c])) \in Seq(Events)
    BY <1>1 DEF TypeOK
  <2> QED
    BY <2>1 DEF Receive, TypeOK
<1>4. wire' \in [Clients -> Seq(Events)]
  BY <1>1 DEF Receive, TypeOK
<1>5. lastId' \in [Clients -> Nat] /\ resumeId' \in [Clients -> Nat]
  BY <1>2 DEF Receive, TypeOK
<1>6. idFrom' \in [Clients -> 0 .. MaxEvents]
  BY <1>2 DEF Receive, TypeOK
<1> QED
  BY <1>3, <1>4, <1>5, <1>6 DEF Receive, TypeOK

(* The other steps touch what is typed simply.                             *)
LEMMA CloseType ==
    ASSUME StreamAssumption, TypeOK, GaugeInv, NEW p \in Streams, Close(p)
    PROVE  TypeOK'
<1>1. connected' \in Nat
  BY CloseCounts DEF GaugeInv
<1>2. stream' = [stream EXCEPT ![p] = NoStream] /\ Len(NoStream.queue) <= QueueSize
  BY NoStreamType DEF Close, StreamAssumption
<1>3. /\ stream' \in [Streams -> StreamState]
      /\ \A q \in Streams : Len(stream'[q].queue) <= QueueSize
  BY <1>2, NoStreamType, OneStreamType
<1> QED
  BY <1>1, <1>3 DEF Close, TypeOK, StreamState, client, ghosts

LEMMA AbandonType ==
    ASSUME StreamAssumption, TypeOK, NEW p \in Streams, Abandon(p) PROVE TypeOK'
<1> DEFINE s == [stream[p] EXCEPT !.stage = "lost"]
<1>1. stream' = [stream EXCEPT ![p] = s]
  BY DEF Abandon
<1>2. s \in StreamState /\ Len(s.queue) <= QueueSize
  <2>1. stream[p] \in StreamState /\ Len(stream[p].queue) <= QueueSize
    BY DEF TypeOK, StreamState
  <2> QED
    BY <2>1 DEF StreamState, Stages
<1> HIDE DEF s
<1>3. /\ stream' \in [Streams -> StreamState]
      /\ \A q \in Streams : Len(stream'[q].queue) <= QueueSize
  BY <1>1, <1>2, OneStreamType
<1> QED
  BY <1>3 DEF Abandon, TypeOK, StreamState, client, ghosts

LEMMA DropType ==
    ASSUME StreamAssumption, TypeOK, NEW c \in Clients, Drop(c) PROVE TypeOK'
<1>1. drops' \in 0 .. MaxDrops
  BY DEF Drop, TypeOK, StreamAssumption
<1>2. /\ at' \in [Clients -> Streams \union {None}]
      /\ wire' \in [Clients -> Seq(Events)]
  BY DEF Drop, TypeOK
<1> QED
  BY <1>1, <1>2 DEF Drop, TypeOK, ghosts

LEMMA RestartType ==
    ASSUME StreamAssumption, TypeOK, Restart PROVE TypeOK'
<1>1. /\ stream' \in [Streams -> StreamState]
      /\ \A q \in Streams : Len(stream'[q].queue) <= QueueSize
  BY NoStreamType DEF Restart, StreamAssumption
<1>2. eventLog' \in Seq(Events) /\ Len(eventLog') <= LogSize
  BY DEF Restart, StreamAssumption
<1>3. /\ restarts' \in 0 .. MaxRestarts /\ base' \in 0 .. published'
      /\ connected' \in Nat
  BY DEF Restart, TypeOK, StreamAssumption
<1> QED
  BY <1>1, <1>2, <1>3 DEF Restart, TypeOK, StreamState, ghosts

-----------------------------------------------------------------------------
(* What a step leaves alone.                                               *)
LEMMA SameClient ==
    ASSUME StreamAssumption, TypeOK, TypeOK', NEW c \in Clients, Served(c),
           base' = base, published' >= published, window \subseteq window',
           at'[c] = at[c], wire'[c] = wire[c], resumeId'[c] = resumeId[c],
           got'[c] = got[c], idFrom'[c] = idFrom[c], since'[c] <= published',
           at[c] # None => stream'[at[c]] = stream[at[c]],
           Due(c)' \subseteq Due(c)
    PROVE  Served(c)'
<1>0. /\ published \in Nat /\ base \in Nat /\ published' \in Nat
      /\ ToSet(got[c]) \subseteq Nat /\ wire[c] \in Seq(Nat)
  <2>1. published' \in Nat
    BY DEF TypeOK
  <2> QED
    BY <2>1, Numbers
<1>1. ReadSoFar(c)'
  <2>1. ASSUME NEW n \in ToSet(got[c])
        PROVE  n <= IF idFrom[c] = base THEN published' ELSE base
    <3>1. n <= IF idFrom[c] = base THEN published ELSE base
      BY DEF Served, ReadSoFar
    <3>2. n \in Nat /\ published \in Nat /\ published' \in Nat /\ base \in Nat
      BY <1>0
    <3> QED
      BY <3>1, <3>2
  <2>2. ASSUME NEW i \in DOMAIN wire[c]
        PROVE  base < wire[c][i] /\ wire[c][i] <= published'
    <3>1. base < wire[c][i] /\ wire[c][i] <= published
      BY DEF Served, ReadSoFar
    <3>2. wire[c][i] \in Nat /\ published \in Nat /\ published' \in Nat
      BY <1>0
    <3> QED
      BY <3>1, <3>2
  <2> QED
    BY <2>1, <2>2 DEF Served, ReadSoFar
<1>2. ResumeStands(c)'
  <2>1. resumeId[c] \in Nat /\ base \in Nat /\ published \in Nat /\ published' \in Nat
    BY DEF TypeOK
  <2> QED
    BY <2>1 DEF Served, ResumeStands
<1>3. Attachment(c)'
  <2>1. CASE at[c] = None
    BY <2>1 DEF Served, Attachment
  <2>2. CASE at[c] # None
    <3>1. Line(c)' = Line(c)
      BY <2>2 DEF Line
    <3>2. Complete(ToSet(got[c]), Line(c), Due(c))
             => Complete(ToSet(got[c]), Line(c), Due(c)')
      BY CompleteLess
    <3>3. Ascends(ToSet(got[c]), Line(c), window)
             => Ascends(ToSet(got[c]), Line(c), window')
      BY AscendsMore
    <3> QED
      BY <2>2, <3>1, <3>2, <3>3 DEF Served, Attachment
  <2> QED
    BY <2>1, <2>2
<1> QED
  BY <1>1, <1>2, <1>3 DEF Served

LEMMA SameStream ==
    ASSUME NEW p \in Streams, QueueInOrder(p), stream'[p] = stream[p],
           UNCHANGED <<base, published, window>>
    PROVE  QueueInOrder(p)'
BY DEF QueueInOrder

(* Streams of different clients are different.                             *)
LEMMA OwnStream ==
    ASSUME NEW c \in Clients, Served(c), at[c] # None
    PROVE  stream[at[c]].owner = c /\ stream[at[c]].stage \in {"open", "running"}
BY DEF Served, Attachment

(* The line holds events of this life of the server.                       *)
LEMMA LineBound ==
    ASSUME StreamAssumption, DeliveryInv, NEW c \in Clients, at[c] # None,
           NEW n \in ToSet(Line(c))
    PROVE  n \in Nat /\ base < n /\ n <= published
<1>1. at[c] \in Streams
  BY DEF DeliveryInv, TypeOK
<1>2. /\ wire[c] \in Seq(Nat) /\ stream[at[c]].replay \in Seq(Nat)
      /\ stream[at[c]].queue \in Seq(Nat)
  BY <1>1, Numbers DEF DeliveryInv
<1>3. n \in ToSet(wire[c]) \union ToSet(stream[at[c]].replay) \union ToSet(stream[at[c]].queue)
  BY <1>2, LineHolds DEF Line
<1>4. ReadSoFar(c) /\ QueueInOrder(at[c])
  BY <1>1 DEF DeliveryInv, Served
<1> QED
  BY <1>2, <1>3, <1>4 DEF ReadSoFar, QueueInOrder, ToSet

(* What a broadcast does to the log, ...                                   *)
LEMMA BroadcastLog ==
    ASSUME StreamAssumption, DeliveryInv, Broadcast
    PROVE  LogLatest'
<1> DEFINE n   == published + 1
           len == Len(eventLog)
           log == Append(eventLog, n)
<1>1. /\ published \in Nat /\ base \in Nat /\ base <= published
      /\ eventLog \in Seq(Nat) /\ len \in Nat /\ LogSize \in Nat \ {0}
  BY Numbers DEF DeliveryInv, StreamAssumption
<1>2. eventLog' = Trim(log) /\ published' = n /\ base' = base
  BY DEF Broadcast
<1>3. len <= published - base /\ \A i \in 1 .. len : eventLog[i] = published - len + i
  BY <1>1 DEF DeliveryInv, LogLatest
<1>4. log \in Seq(Nat) /\ Len(log) = len + 1 /\ \A i \in 1 .. len + 1 : log[i] = n - (len + 1) + i
  BY <1>1, <1>3
<1> HIDE DEF log, len
<1>5. CASE len + 1 > LogSize
  <2>1. eventLog' = SubSeq(log, (len + 1) - LogSize + 1, len + 1)
    BY <1>2, <1>4, <1>5 DEF Trim
  <2>2. /\ Len(eventLog') = LogSize
        /\ DOMAIN eventLog' = 1 .. LogSize
        /\ \A i \in 1 .. LogSize : eventLog'[i] = log[(len + 1) - LogSize + i]
    BY <1>1, <1>4, <1>5, <2>1
  <2>3. \A i \in 1 .. LogSize : (len + 1) - LogSize + i \in 1 .. len + 1
    BY <1>1, <1>5
  <2>4. ASSUME NEW i \in 1 .. LogSize PROVE eventLog'[i] = n - LogSize + i
    <3>1. eventLog'[i] = n - (len + 1) + ((len + 1) - LogSize + i)
      BY <1>4, <2>2, <2>3
    <3>2. i \in Nat /\ n \in Nat
      BY <1>1
    <3> QED
      BY <1>1, <3>1, <3>2
  <2> QED
    BY <1>1, <1>2, <1>3, <1>5, <2>2, <2>4 DEF LogLatest
<1>6. CASE ~ (len + 1 > LogSize)
  <2>1. eventLog' = log
    BY <1>2, <1>4, <1>6 DEF Trim
  <2> QED
    BY <1>1, <1>2, <1>3, <1>4, <2>1 DEF LogLatest
<1> QED
  BY <1>5, <1>6

(* ... to a queue, ...                                                     *)
LEMMA BroadcastQueue ==
    ASSUME StreamAssumption, DeliveryInv, Broadcast, NEW p \in Streams
    PROVE  QueueInOrder(p)'
<1> DEFINE n == published + 1
           q == stream[p].queue
<1>1. /\ published \in Nat /\ base \in Nat /\ base <= published
      /\ q \in Seq(Nat) /\ stream[p].replay \in Seq(Nat)
  BY Numbers DEF DeliveryInv
<1>2. /\ published' = n /\ base' = base
      /\ stream'[p] = IF p \in Subscribers
                      THEN [stream[p] EXCEPT !.queue = Offered(@, n)] ELSE stream[p]
      /\ window' = IF \E r \in Streams : stream[r].stage = "open"
                   THEN window \union {n} ELSE window
  BY DEF Broadcast
<1>3. stream[p] \in StreamState
  BY DEF DeliveryInv, TypeOK, StreamState
<1>4. stream'[p].stage = stream[p].stage /\ stream'[p].replay = stream[p].replay
  BY <1>2, <1>3 DEF StreamState
<1>5. stream'[p].queue = q \/ stream'[p].queue = Append(q, n)
  BY <1>2, <1>3 DEF StreamState, Offered
<1>6. QueueInOrder(p)
  BY DEF DeliveryInv
<1>7. stream[p].stage = "open" =>
         window' = window \union {n} /\ \A i \in DOMAIN q : q[i] .. n \subseteq window'
  <2> SUFFICES ASSUME stream[p].stage = "open"
               PROVE  window' = window \union {n}
                      /\ \A i \in DOMAIN q : q[i] .. n \subseteq window'
    OBVIOUS
  <2>1. window' = window \union {n}
    BY <1>2
  <2>2. \A i \in DOMAIN q : q[i] .. published \subseteq window
    BY <1>6 DEF QueueInOrder
  <2> QED
    BY <1>1, <2>1, <2>2
<1>10. \A i \in DOMAIN stream[p].replay :
         base < stream[p].replay[i] /\ stream[p].replay[i] <= published'
  <2>1. \A i \in DOMAIN stream[p].replay : stream[p].replay[i] \in Nat
    BY <1>1
  <2> QED
    BY <1>1, <1>2, <1>6, <2>1 DEF QueueInOrder
<1>11. \A i \in DOMAIN q : base < q[i] /\ q[i] <= published /\ q[i] \in Nat
  BY <1>1, <1>6 DEF QueueInOrder
<1>12. \A i, j \in DOMAIN q : i < j => q[i] < q[j]
  BY <1>6 DEF QueueInOrder
<1>13. stream[p].stage = "open" => stream[p].replay = <<>>
  BY <1>6 DEF QueueInOrder
<1>14. n \in Nat /\ published < n /\ published' = n /\ base' = base
  BY <1>1, <1>2
<1> HIDE DEF n
<1>8. CASE stream'[p].queue = q
  <2>1. \A i \in DOMAIN q : base < q[i] /\ q[i] <= n
    BY <1>1, <1>11, <1>14
  <2> HIDE DEF q
  <2> QED
    BY <1>4, <1>7, <1>8, <1>10, <1>12, <1>13, <1>14, <2>1 DEF QueueInOrder
<1>9. CASE stream'[p].queue = Append(q, n)
  <2> DEFINE q2 == Append(q, n)
  <2>1. /\ DOMAIN q2 = 1 .. Len(q) + 1 /\ DOMAIN q = 1 .. Len(q) /\ Len(q) \in Nat
        /\ q2[Len(q) + 1] = n /\ \A i \in DOMAIN q : q2[i] = q[i]
    <3>1. ASSUME NEW v \in Seq(Nat), NEW m \in Nat
          PROVE  /\ DOMAIN Append(v, m) = 1 .. Len(v) + 1 /\ DOMAIN v = 1 .. Len(v)
                 /\ Len(v) \in Nat /\ Append(v, m)[Len(v) + 1] = m
                 /\ \A i \in DOMAIN v : Append(v, m)[i] = v[i]
      OBVIOUS
    <3> HIDE DEF q
    <3> QED
      BY <1>1, <1>14, <3>1
  <2>2. \A i \in DOMAIN q2 :
           \/ i \in DOMAIN q /\ q2[i] = q[i]
           \/ i = Len(q) + 1 /\ q2[i] = n
    BY <2>1
  <2>3. stream'[p].queue = q2
    BY <1>9
  <2> HIDE DEF q2, q
  <2>4. \A i \in DOMAIN q2 : base < q2[i] /\ q2[i] <= n
    BY <1>1, <1>11, <1>14, <2>2
  <2>5. \A i, j \in DOMAIN q2 : i < j => q2[i] < q2[j]
    BY <1>1, <1>11, <1>12, <1>14, <2>1, <2>2
  <2>6. stream[p].stage = "open" => \A i \in DOMAIN q2 : q2[i] .. n \subseteq window'
    <3>1. n .. n = {n}
      BY <1>14
    <3> QED
      BY <1>7, <2>2, <3>1
  <2> QED
    BY <1>4, <1>10, <1>13, <1>14, <2>3, <2>4, <2>5, <2>6 DEF QueueInOrder
<1> QED
  BY <1>5, <1>8, <1>9

(* ... and to a client.                                                    *)
LEMMA BroadcastClient ==
    ASSUME StreamAssumption, DeliveryInv, Broadcast, TypeOK', NEW c \in Clients
    PROVE  Served(c)'
<1> DEFINE n == published + 1
           p == at[c]
<1>1. /\ published \in Nat /\ base \in Nat /\ base <= published
      /\ got[c] \in Seq(Nat) /\ wire[c] \in Seq(Nat) /\ ToSet(got[c]) \subseteq Nat
      /\ resumeId[c] \in Nat
  <2>1. resumeId[c] \in Nat
    BY DEF DeliveryInv, TypeOK
  <2> QED
    BY <2>1, Numbers DEF DeliveryInv
<1>2. /\ published' = n /\ n \in Nat /\ published < n
      /\ UNCHANGED <<base, at, wire, resumeId, got, idFrom, since>>
  BY <1>1 DEF Broadcast, client
<1>3. window \subseteq window'
  BY DEF Broadcast
<1>4. Served(c)
  BY DEF DeliveryInv
<1>5. excused'[c] = IF p # None /\ Len(stream[p].queue) >= QueueSize
                    THEN excused[c] \union {n} ELSE excused[c]
  BY DEF Broadcast
<1>6. Due(c)' \subseteq Due(c) \union {n} /\ Due(c)' \subseteq Nat
  <2>1. since[c] \in Nat
    BY DEF DeliveryInv, TypeOK
  <2>2. ASSUME NEW m \in since[c] + 1 .. n
        PROVE  m \in Nat /\ (m = n \/ m \in since[c] + 1 .. published)
    <3> DEFINE a == since[c]
    <3>1. a \in Nat /\ published \in Nat /\ m \in a + 1 .. published + 1
      BY <1>1, <2>1
    <3> HIDE DEF a
    <3>2. m \in Int /\ a + 1 <= m /\ m <= published + 1
      BY <3>1
    <3>3. m \in Nat /\ (m = published + 1 \/ (a + 1 <= m /\ m <= published))
      BY <3>1, <3>2
    <3>4. m \in Nat /\ (m = published + 1 \/ m \in a + 1 .. published)
      BY <3>1, <3>3
    <3> QED
      BY <3>4 DEF a
  <2> QED
    BY <1>2, <1>5, <2>2 DEF Due
<1>7. ReadSoFar(c)'
  <2>1. ReadSoFar(c)
    BY <1>4 DEF Served
  <2>2. \A i \in DOMAIN wire[c] : wire[c][i] \in Nat
    BY <1>1
  <2>3. since[c] \in Nat
    BY DEF DeliveryInv, TypeOK
  <2> HIDE DEF n
  <2> QED
    BY <1>1, <1>2, <2>1, <2>2, <2>3 DEF ReadSoFar
<1>8. ResumeStands(c)'
  <2>1. ResumeStands(c)
    BY <1>4 DEF Served
  <2> HIDE DEF n
  <2>2. SUFFICES ASSUME idFrom[c] = base, resumeId[c] > 0
                 PROVE  /\ base + resumeId[c] <= n
                        /\ \A m \in Due(c)' : m <= base + resumeId[c] => m \in ToSet(got[c])
                        /\ \A m \in ToSet(got[c]) : m > base + resumeId[c] => m \in window'
    BY <1>2 DEF ResumeStands
  <2>3. base + resumeId[c] <= published
    BY <2>1, <2>2 DEF ResumeStands
  <2>4. \A m \in Due(c)' : m <= base + resumeId[c] => m \in Due(c)
    BY <1>1, <1>2, <1>6, <2>3
  <2> QED
    BY <1>1, <1>2, <1>3, <2>1, <2>2, <2>3, <2>4 DEF ResumeStands
<1>9. Attachment(c)'
  <2>1. CASE p = None
    BY <1>2, <1>4, <2>1 DEF Served, Attachment
  <2>2. CASE p # None
    <3> DEFINE q == stream[p].queue
    <3>1. p \in Streams /\ p \in Subscribers
      <4>1. p \in Streams
        BY <2>2 DEF DeliveryInv, TypeOK
      <4> QED
        BY <1>4, <2>2, <4>1, OwnStream DEF Subscribers
    <3>2. stream'[p] = [stream[p] EXCEPT !.queue = Offered(@, n)]
      BY <3>1 DEF Broadcast
    <3>3. stream[p] \in StreamState
      BY <3>1 DEF DeliveryInv, TypeOK, StreamState
    <3>4. /\ stream'[p].stage = stream[p].stage /\ stream'[p].owner = stream[p].owner
          /\ stream'[p].last = stream[p].last /\ stream'[p].replay = stream[p].replay
          /\ stream'[p].queue = Offered(q, n)
      BY <3>2, <3>3 DEF StreamState
    <3>5. q \in Seq(Nat) /\ stream[p].replay \in Seq(Nat)
      BY <3>1, Numbers DEF DeliveryInv
    <3>6. CASE Len(q) < QueueSize
      <4>1. stream'[p].queue = Append(q, n)
        BY <3>4, <3>6 DEF Offered
      <4>2. Line(c)' = Append(Line(c), n)
        <5>1. Line(c)' = (wire[c] \o stream[p].replay) \o Append(q, n)
          BY <1>2, <3>4, <4>1 DEF Line
        <5> DEFINE w == wire[c]
                   r == stream[p].replay
        <5>0. w \in Seq(Nat) /\ r \in Seq(Nat) /\ q \in Seq(Nat) /\ n \in Nat
          BY <1>1, <1>2, <3>5
        <5> HIDE DEF n, q, w, r
        <5>3. (w \o r) \o Append(q, n) = Append((w \o r) \o q, n)
          BY <5>0, LineGrows
        <5>2. (wire[c] \o stream[p].replay) \o Append(q, n)
                 = Append((wire[c] \o stream[p].replay) \o q, n)
          BY <5>3 DEF w, r
        <5> QED
          BY <5>1, <5>2 DEF Line, q
      <4>3. Line(c) \in Seq(Nat)
        BY <2>2, Numbers DEF DeliveryInv
      <4>4. \A i \in DOMAIN Line(c) : Line(c)[i] < n
        <5>1. \A m \in ToSet(Line(c)) : m \in Nat /\ m <= published
          BY <2>2, LineBound
        <5>2. \A i \in DOMAIN Line(c) : Line(c)[i] \in ToSet(Line(c))
          BY DEF ToSet
        <5> QED
          BY <1>1, <5>1, <5>2
      <4>5. \A m \in ToSet(got[c]) : m < n
        BY <1>1, <1>4 DEF Served, ReadSoFar
      <4>6. ToSet(Append(q, n)) = ToSet(q) \union {n}
        <5>1. /\ DOMAIN Append(q, n) = 1 .. Len(q) + 1 /\ DOMAIN q = 1 .. Len(q)
              /\ Len(q) \in Nat /\ Append(q, n)[Len(q) + 1] = n
              /\ \A i \in DOMAIN q : Append(q, n)[i] = q[i]
          <6> HIDE DEF n, q
          <6> QED
            BY <1>2, <3>5
        <5> HIDE DEF n, q
        <5> QED
          BY <5>1 DEF ToSet
      <4> HIDE DEF n, q
      <4>7. Complete(ToSet(got[c]), Line(c), Due(c))
               => Complete(ToSet(got[c]), Append(Line(c), n), Due(c)')
        BY <1>2, <1>6, <4>3, <4>4, CompleteAppend
      <4>8. Ascends(ToSet(got[c]), Line(c), window)
               => Ascends(ToSet(got[c]), Append(Line(c), n), window')
        BY <1>1, <1>2, <1>3, <4>3, <4>4, <4>5, AscendsAppend
      <4> QED
        BY <1>2, <1>4, <1>6, <2>2, <3>4, <4>1, <4>2, <4>6, <4>7, <4>8
           DEF Served, Attachment, q
    <3>7. CASE ~ (Len(q) < QueueSize)
      <4>1. stream'[p].queue = q
        BY <3>4, <3>7 DEF Offered
      <4>2. Line(c)' = Line(c)
        BY <1>2, <3>4, <4>1 DEF Line
      <4>3. n \in excused'[c]
        BY <1>5, <2>2, <3>5, <3>7 DEF StreamAssumption
      <4>4. Due(c)' \subseteq Due(c)
        BY <1>6, <4>3 DEF Due
      <4>5. Complete(ToSet(got[c]), Line(c), Due(c))
               => Complete(ToSet(got[c]), Line(c), Due(c)')
        BY <4>4, CompleteLess
      <4>6. Ascends(ToSet(got[c]), Line(c), window)
               => Ascends(ToSet(got[c]), Line(c), window')
        BY <1>3, AscendsMore
      <4> QED
        BY <1>2, <1>4, <2>2, <3>4, <4>1, <4>2, <4>4, <4>5, <4>6 DEF Served, Attachment
    <3> QED
      BY <3>6, <3>7
  <2> QED
    BY <2>1, <2>2
<1> QED
  BY <1>7, <1>8, <1>9 DEF Served

(* What _get_events_after returns: the events of the log after an id, in   *)
(* order.                                                                  *)
LEMMA MissedIsRest ==
    ASSUME StreamAssumption, TypeOK, LogLatest, NEW last \in Nat
    PROVE  /\ Missed(last) \in Seq(Nat)
           /\ \A i \in DOMAIN Missed(last) :
                 base + last < Missed(last)[i] /\ Missed(last)[i] <= published
           /\ \A i, j \in DOMAIN Missed(last) :
                 i < j => Missed(last)[i] < Missed(last)[j]
           /\ \A n \in ToSet(eventLog) : n > base + last => n \in ToSet(Missed(last))
<1> DEFINE S == {n \in Nat : Id(n) > last}
           len == Len(eventLog)
<1>1. /\ published \in Nat /\ base \in Nat /\ base <= published
      /\ eventLog \in Seq(Nat) /\ len \in Nat /\ DOMAIN eventLog = 1 .. len
  BY Numbers
<1>2. \A i \in 1 .. len : eventLog[i] = published - len + i /\ eventLog[i] <= published
  BY <1>1 DEF LogLatest
<1>3. \A i, j \in DOMAIN eventLog : i < j => eventLog[i] < eventLog[j]
  BY <1>1, <1>2
<1>4. Missed(last) = Keep(eventLog, S)
  BY DEF Missed
<1>5. \A n \in Nat : n \in S <=> n > base + last
  BY <1>1 DEF Id
<1> HIDE DEF S, len
<1>6. Keep(eventLog, S) \in Seq(Nat)
  <2>1. Keep(eventLog, S) \in Seq(Nat \cap S)
    BY <1>1, KeepType
  <2> QED
    BY <2>1
<1>7. ASSUME NEW i \in DOMAIN Keep(eventLog, S)
      PROVE  base + last < Keep(eventLog, S)[i] /\ Keep(eventLog, S)[i] <= published
  <2>1. Keep(eventLog, S)[i] \in S
    BY <1>1, KeepHolds
  <2>2. PICK k \in DOMAIN eventLog : eventLog[k] = Keep(eventLog, S)[i]
    BY <1>1, KeepHolds
  <2>3. eventLog[k] \in Nat /\ eventLog[k] <= published
    BY <1>1, <1>2
  <2> QED
    BY <1>1, <1>5, <2>1, <2>2, <2>3
<1>8. \A i, j \in DOMAIN Keep(eventLog, S) :
         i < j => Keep(eventLog, S)[i] < Keep(eventLog, S)[j]
  BY <1>1, <1>3, KeepAscends
<1>9. ASSUME NEW n \in ToSet(eventLog), n > base + last
      PROVE  n \in ToSet(Keep(eventLog, S))
  <2>1. PICK k \in DOMAIN eventLog : eventLog[k] = n
    BY DEF ToSet
  <2>2. n \in S
    BY <1>1, <1>5, <1>9, <2>1
  <2>3. \A m \in DOMAIN eventLog : eventLog[m] \in S =>
           \E i \in DOMAIN Keep(eventLog, S) : Keep(eventLog, S)[i] = eventLog[m]
    BY <1>1, KeepHolds
  <2>4. \E i \in DOMAIN Keep(eventLog, S) : Keep(eventLog, S)[i] = n
    BY <2>1, <2>2, <2>3
  <2> QED
    BY <2>4 DEF ToSet
<1> QED
  BY <1>4, <1>6, <1>7, <1>8, <1>9

(* A line of a replay r and a queue q.                                     *)
LEMMA ReplayThenQueue ==
    ASSUME NEW r \in Seq(Nat), NEW q \in Seq(Nat), NEW read, NEW due, NEW win,
           NEW low \in Nat, NEW high \in Nat,
           read \subseteq Nat, due \subseteq Nat,
           \A i \in DOMAIN r : low < r[i] /\ r[i] <= high,
           \A i, j \in DOMAIN r : i < j => r[i] < r[j],
           \A i, j \in DOMAIN q : i < j => q[i] < q[j],
           \A i \in DOMAIN q : q[i] <= high /\ q[i] .. high \subseteq win,
           \A n \in due : n \in read \union ToSet(r) \/ (r = <<>> /\ n \in ToSet(q)),
           \A n \in read : n <= high,
           \A n \in read : n > low /\ r # <<>> => n \in win
    PROVE  Complete(read, r \o q, due) /\ Ascends(read, r \o q, win)
<1> DEFINE line == r \o q
           k == Len(r)
<1>1. /\ DOMAIN line = 1 .. k + Len(q) /\ DOMAIN r = 1 .. k /\ DOMAIN q = 1 .. Len(q)
      /\ k \in Nat /\ Len(q) \in Nat /\ line \in Seq(Nat)
      /\ \A i \in 1 .. k : line[i] = r[i]
      /\ \A i \in 1 .. Len(q) : line[k + i] = q[i]
  OBVIOUS
<1>2. ASSUME NEW i \in DOMAIN line
      PROVE  \/ i \in DOMAIN r /\ line[i] = r[i] /\ r # <<>>
             \/ i - k \in DOMAIN q /\ line[i] = q[i - k] /\ i > k
  <2>1. CASE i <= k
    BY <1>1, <2>1
  <2>2. CASE i > k
    <3>1. i - k \in 1 .. Len(q) /\ k + (i - k) = i
      BY <1>1, <2>2
    <3> QED
      BY <1>1, <2>2, <3>1
  <2> QED
    BY <1>1, <2>1, <2>2
<1>3. r = <<>> => k = 0
  OBVIOUS
<1>9. \A i \in DOMAIN q : q[i] \in Nat
  OBVIOUS
<1> HIDE DEF line, k
<1>4. /\ \A i \in DOMAIN r : i \in DOMAIN line /\ line[i] = r[i]
      /\ \A i \in DOMAIN q : k + i \in DOMAIN line /\ line[k + i] = q[i]
  <2>1. \A i \in 1 .. k : i \in 1 .. k + Len(q)
    BY <1>1
  <2>2. \A i \in 1 .. Len(q) : k + i \in 1 .. k + Len(q)
    BY <1>1
  <2> QED
    BY <1>1, <2>1, <2>2
<1>5. due \subseteq read \union ToSet(line)
  BY <1>4 DEF ToSet
<1>6. ASSUME NEW i \in DOMAIN line, NEW n \in due, n < line[i], n \notin read
      PROVE  \E j \in 1 .. i - 1 : line[j] = n
  <2>1. CASE n \in ToSet(r)
    <3>1. PICK j \in DOMAIN r : r[j] = n
      BY <2>1 DEF ToSet
    <3>2. j < i
      <4>1. CASE i \in DOMAIN r /\ line[i] = r[i]
        <5>1. ~ (i < j) /\ i # j
          BY <1>1, <1>6, <3>1, <4>1
        <5> QED
          BY <1>1, <3>1, <4>1, <5>1
      <4>2. CASE i > k
        BY <1>1, <3>1, <4>2
      <4> QED
        BY <1>2, <4>1, <4>2
    <3>3. j \in 1 .. i - 1
      BY <1>1, <3>1, <3>2
    <3> QED
      BY <1>4, <3>1, <3>3
  <2>2. CASE r = <<>> /\ n \in ToSet(q)
    <3>1. PICK j \in DOMAIN q : q[j] = n
      BY <2>2 DEF ToSet
    <3>2. k = 0 /\ i \in DOMAIN q /\ line[i] = q[i] /\ line[j] = q[j]
      BY <1>1, <1>3, <1>4, <2>2, <3>1
    <3>3. ~ (i < j) /\ i # j
      BY <1>1, <1>6, <3>1, <3>2
    <3>4. j \in 1 .. i - 1
      BY <1>1, <3>1, <3>2, <3>3
    <3> QED
      BY <3>1, <3>2, <3>4
  <2> QED
    BY <1>6, <2>1, <2>2
<1>7. ASSUME NEW n \in read, NEW i \in DOMAIN line, n >= line[i]
      PROVE  n \in win
  <2>1. CASE i \in DOMAIN r /\ line[i] = r[i] /\ r # <<>>
    BY <1>1, <1>7, <2>1
  <2>2. CASE i - k \in DOMAIN q /\ line[i] = q[i - k]
    <3>1. q[i - k] \in Nat /\ n \in Nat /\ n <= high
      BY <1>1, <2>2
    <3>2. n \in q[i - k] .. high
      BY <1>7, <2>2, <3>1
    <3> QED
      BY <2>2, <3>2
  <2> QED
    BY <1>2, <2>1, <2>2
<1>8. ASSUME NEW i \in DOMAIN line, NEW j \in DOMAIN line, i < j, line[i] >= line[j]
      PROVE  line[i] \in win
  <2>1. j \notin DOMAIN r \/ i \notin DOMAIN r
    BY <1>1, <1>8
  <2>2. j - k \in DOMAIN q /\ line[j] = q[j - k] /\ j > k
    BY <1>1, <1>2, <1>8, <2>1
  <2>3. CASE i \in DOMAIN r /\ line[i] = r[i]
    <3>1. line[i] \in q[j - k] .. high
      BY <1>1, <1>8, <2>2, <2>3
    <3> QED
      BY <2>2, <3>1
  <2>4. CASE i - k \in DOMAIN q /\ line[i] = q[i - k]
    <3>1. q[i - k] \in Nat /\ q[j - k] \in Nat
      BY <1>9, <2>2, <2>4
    <3>2. i - k < j - k
      <4>1. i \in Int /\ j \in Int
        BY <1>1
      <4> QED
        BY <1>1, <1>8, <4>1
    <3>3. q[i - k] < q[j - k]
      BY <2>2, <2>4, <3>2
    <3> QED
      BY <1>8, <2>2, <2>4, <3>1, <3>3
  <2> QED
    BY <1>2, <2>3, <2>4
<1> QED
  BY <1>5, <1>6, <1>7, <1>8 DEF Complete, Ascends, line

(* The first run of a generator.                                           *)
LEMMA StartDelivers ==
    ASSUME StreamAssumption, DeliveryInv, TypeOK', NEW p \in Streams, Start(p)
    PROVE  /\ \A q \in Streams : QueueInOrder(q)'
           /\ \A d \in Clients : Served(d)'
<1> DEFINE last == stream[p].last
           c == stream[p].owner
           r == IF last > 0 THEN Missed(last) ELSE <<>>
           q == stream[p].queue
<1>1. /\ published \in Nat /\ base \in Nat /\ base <= published
      /\ q \in Seq(Nat) /\ last \in Nat
  <2>1. last \in Nat
    BY DEF DeliveryInv, TypeOK
  <2> QED
    BY <2>1, Numbers DEF DeliveryInv
<1>2. /\ stream[p].stage = "open"
      /\ stream' = [stream EXCEPT ![p].stage = "running", ![p].replay = r]
      /\ excused' = [excused EXCEPT ![c] =
              @ \union {n \in 1 .. published : last > 0 /\ n \notin ToSet(eventLog)}]
      /\ since' = IF last > 0 /\ idFrom[c] # base
                    THEN [since EXCEPT ![c] = published] ELSE since
      /\ UNCHANGED <<published, base, eventLog, wire, at, lastId, resumeId, got,
                     window, idFrom>>
  BY DEF Start, client
<1>3. stream[p] \in StreamState /\ stream \in [Streams -> StreamState]
  BY DEF DeliveryInv, TypeOK, StreamState
<1>4. /\ /\ r \in Seq(Nat)
         /\ \A i \in DOMAIN r : base + last < r[i] /\ r[i] <= published
         /\ \A i, j \in DOMAIN r : i < j => r[i] < r[j]
      /\ last > 0 => \A n \in ToSet(eventLog) : n > base + last => n \in ToSet(r)
  <2>1. CASE last > 0
    <3>1. r = Missed(last)
      BY <2>1
    <3>2. /\ Missed(last) \in Seq(Nat)
          /\ \A i \in DOMAIN Missed(last) :
                base + last < Missed(last)[i] /\ Missed(last)[i] <= published
          /\ \A i, j \in DOMAIN Missed(last) :
                i < j => Missed(last)[i] < Missed(last)[j]
          /\ \A n \in ToSet(eventLog) : n > base + last => n \in ToSet(Missed(last))
      BY <1>1, MissedIsRest DEF DeliveryInv
    <3> QED
      BY <3>1, <3>2
  <2>2. CASE ~ (last > 0)
    <3>1. r = <<>>
      BY <2>2
    <3> QED
      BY <2>2, <3>1
  <2> QED
    BY <2>1, <2>2
<1>5. QueueInOrder(p)
  BY DEF DeliveryInv
<1>6. r # <<>> => last > 0
  OBVIOUS
<1> HIDE DEF r
<1>7. /\ stream'[p].stage = "running" /\ stream'[p].replay = r
      /\ stream'[p].queue = q /\ stream'[p].owner = c
      /\ \A o \in Streams \ {p} : stream'[o] = stream[o]
  BY <1>2, <1>3 DEF StreamState
<1>8. QueueInOrder(p)'
  <2>1. \A i \in DOMAIN r : base < r[i] /\ r[i] <= published
    <3>1. \A i \in DOMAIN r : r[i] \in Nat
      BY <1>4
    <3> QED
      BY <1>1, <1>4, <3>1
  <2> QED
    BY <1>2, <1>5, <1>7, <2>1 DEF QueueInOrder
<1>9. \A o \in Streams \ {p} : QueueInOrder(o)'
  BY <1>2, <1>7, SameStream DEF DeliveryInv
<1>10. ASSUME NEW d \in Clients
       PROVE  /\ Due(d)' \subseteq Due(d) /\ since'[d] <= published'
              /\ Due(d) \subseteq Nat /\ ReadSoFar(d) /\ ResumeStands(d)
  <2>1. since[d] <= published /\ ReadSoFar(d) /\ ResumeStands(d)
    BY DEF DeliveryInv, Served, ReadSoFar
  <2>2. since[d] \in Nat /\ (since'[d] = since[d] \/ since'[d] = published)
    BY <1>2 DEF DeliveryInv, TypeOK
  <2>3. excused[d] \subseteq excused'[d]
    BY <1>2 DEF DeliveryInv, TypeOK
  <2>4. since[d] <= since'[d] /\ since'[d] <= published /\ since'[d] \in Nat
    BY <1>1, <2>1, <2>2
  <2>5. since'[d] + 1 .. published \subseteq since[d] + 1 .. published
    BY <1>1, <2>2, <2>4
  <2> QED
    BY <1>2, <2>1, <2>2, <2>3, <2>4, <2>5 DEF Due
<1>11. ASSUME NEW d \in Clients, at[d] # p
       PROVE  Served(d)'
  <2>1. at[d] # None => at[d] \in Streams \ {p}
    BY <1>11 DEF DeliveryInv, TypeOK
  <2>2. at[d] # None => stream'[at[d]] = stream[at[d]]
    BY <1>7, <2>1
  <2>3. /\ base' = base /\ published' >= published /\ window \subseteq window'
        /\ at'[d] = at[d] /\ wire'[d] = wire[d] /\ resumeId'[d] = resumeId[d]
        /\ got'[d] = got[d] /\ idFrom'[d] = idFrom[d]
    BY <1>1, <1>2
  <2>4. TypeOK /\ Served(d)
    BY DEF DeliveryInv
  <2> QED
    BY <1>10, <2>2, <2>3, <2>4, SameClient
<1>12. ASSUME NEW d \in Clients, at[d] = p
       PROVE  Served(d)'
  <2>1. p # None
    BY DEF StreamAssumption
  <2>2. /\ c = d /\ wire[d] = <<>> /\ last = resumeId[d]
        /\ last = 0 => Due(d) \subseteq ToSet(q)
    BY <1>2, <1>12, <2>1 DEF DeliveryInv, Served, Attachment
  <2>3. ToSet(got[d]) \subseteq Nat
    BY Numbers DEF DeliveryInv
  <2>4. ReadSoFar(d)'
    BY <1>2, <1>10 DEF ReadSoFar
  <2>5. ResumeStands(d)'
    BY <1>2, <1>10 DEF ResumeStands
  <2>6. Line(d)' = r \o q
    <3>1. Line(d)' = (<<>> \o r) \o q
      BY <1>2, <1>7, <1>12, <2>2 DEF Line
    <3> HIDE DEF q
    <3>2. (<<>> \o r) = r
      BY <1>4
    <3> QED
      BY <3>1, <3>2
  <2>7. ASSUME NEW n \in Due(d)'
        PROVE  n \in ToSet(got[d]) \union ToSet(r) \/ (r = <<>> /\ n \in ToSet(q))
    <3>1. n \in Due(d) /\ n \in Nat /\ n <= published
      BY <1>1, <1>2, <1>10 DEF Due
    <3>2. CASE last = 0
      BY <1>6, <2>2, <3>1, <3>2
    <3>3. CASE last > 0 /\ idFrom[d] # base
      <4>1. since'[d] = published
        BY <1>2, <2>2, <3>3 DEF DeliveryInv, TypeOK
      <4>2. n \in published + 1 .. published
        BY <1>2, <4>1 DEF Due
      <4> QED
        BY <1>1, <4>2
    <3>4. CASE last > 0 /\ idFrom[d] = base
      <4>1. CASE n <= base + last
        BY <1>10, <2>2, <3>1, <3>4, <4>1 DEF ResumeStands
      <4>2. CASE n > base + last
        <5>1. n \notin excused'[d]
          BY DEF Due
        <5>2. n \in 1 .. published
          BY <1>1, <3>1, <3>4, <4>2
        <5>3. n \in ToSet(eventLog)
          BY <1>2, <2>2, <3>4, <5>1, <5>2 DEF DeliveryInv, TypeOK
        <5> QED
          BY <1>4, <3>4, <4>2, <5>3
      <4> QED
        BY <1>1, <3>1, <4>1, <4>2
    <3> QED
      BY <1>1, <3>2, <3>3, <3>4
  <2>8. ASSUME NEW n \in ToSet(got[d])
        PROVE  n <= published /\ (n > base + last /\ r # <<>> => n \in window)
    <3>1. n <= IF idFrom[d] = base THEN published ELSE base
      BY <1>10 DEF ReadSoFar
    <3>2. CASE idFrom[d] = base
      BY <1>6, <1>10, <2>2, <3>1, <3>2 DEF ResumeStands
    <3>3. CASE idFrom[d] # base
      BY <1>1, <2>3, <3>1, <3>3
    <3> QED
      BY <3>2, <3>3
  <2>9. /\ \A i, j \in DOMAIN q : i < j => q[i] < q[j]
        /\ \A i \in DOMAIN q : q[i] <= published /\ q[i] .. published \subseteq window
    BY <1>2, <1>5 DEF QueueInOrder
  <2>10. Due(d)' \subseteq Nat /\ base + last \in Nat
    BY <1>1, <1>10
  <2>11. /\ Complete(ToSet(got[d]), r \o q, Due(d)')
         /\ Ascends(ToSet(got[d]), r \o q, window)
    <3> HIDE DEF q, last
    <3> QED
      BY <1>1, <1>4, <2>3, <2>7, <2>8, <2>9, <2>10, ReplayThenQueue
  <2>12. Attachment(d)'
    BY <1>2, <1>7, <1>12, <2>1, <2>2, <2>6, <2>11 DEF Attachment
  <2> QED
    BY <2>4, <2>5, <2>12 DEF Served
<1> QED
  BY <1>8, <1>9, <1>11, <1>12

(* A step that leaves the log and what was read alone, and moves at most   *)
(* stream p, disturbs nobody but the client that reads from p.             *)
LEMMA OthersServed ==
    ASSUME StreamAssumption, DeliveryInv, TypeOK', NEW p,
           UNCHANGED <<published, base, window>>,
           \A q \in Streams \ {p} : stream'[q] = stream[q],
           NEW d \in Clients, at[d] # p, at'[d] = at[d], wire'[d] = wire[d],
           resumeId'[d] = resumeId[d], got'[d] = got[d], idFrom'[d] = idFrom[d],
           since'[d] = since[d], excused'[d] = excused[d]
    PROVE  Served(d)'
<1>1. at[d] # None => at[d] \in Streams \ {p}
  BY DEF DeliveryInv, TypeOK
<1>2. at[d] # None => stream'[at[d]] = stream[at[d]]
  BY <1>1
<1>3. /\ base' = base /\ published' >= published /\ window \subseteq window'
      /\ since'[d] <= published' /\ Due(d)' = Due(d)
  <2>1. published \in Nat
    BY Numbers DEF DeliveryInv
  <2>2. since[d] <= published
    BY DEF DeliveryInv, Served, ReadSoFar
  <2> QED
    BY <2>1, <2>2 DEF Due
<1>4. TypeOK /\ Served(d)
  BY DEF DeliveryInv
<1> QED
  BY <1>2, <1>3, <1>4, SameClient

LEMMA OpenDelivers ==
    ASSUME StreamAssumption, DeliveryInv, TypeOK', NEW c \in Clients, Open(c)
    PROVE  /\ \A q \in Streams : QueueInOrder(q)'
           /\ \A d \in Clients : Served(d)'
<1> DEFINE s == [NoStream EXCEPT !.stage = "open", !.owner = c, !.last = resumeId[c]]
<1>1. PICK p \in Streams : /\ stream[p].stage = "unused"
                           /\ p = CHOOSE u \in Unused : TRUE
  BY DEF Open, Unused
<1>2. /\ at[c] = None
      /\ stream' = [stream EXCEPT ![p] = s] /\ at' = [at EXCEPT ![c] = p]
      /\ since' = IF resumeId[c] = 0 THEN [since EXCEPT ![c] = published] ELSE since
      /\ UNCHANGED <<published, base, wire, resumeId, got, excused, window, idFrom>>
  BY <1>1 DEF Open
<1>3. /\ s.stage = "open" /\ s.owner = c /\ s.last = resumeId[c]
      /\ s.replay = <<>> /\ s.queue = <<>>
  BY DEF NoStream
<1> HIDE DEF s
<1>4. stream'[p] = s /\ \A q \in Streams \ {p} : stream'[q] = stream[q]
  BY <1>1, <1>2 DEF DeliveryInv, TypeOK
<1>5. QueueInOrder(p)'
  BY <1>3, <1>4 DEF QueueInOrder
<1>6. \A q \in Streams \ {p} : QueueInOrder(q)'
  BY <1>2, <1>4, SameStream DEF DeliveryInv
<1>7. ASSUME NEW d \in Clients, d # c
      PROVE  Served(d)'
  <2>1. at[d] # p
    <3>1. at[d] # None => stream[at[d]].stage \in {"open", "running"}
      BY OwnStream DEF DeliveryInv
    <3>2. p # None
      BY <1>1 DEF StreamAssumption
    <3> QED
      BY <1>1, <3>1, <3>2
  <2>2. /\ at'[d] = at[d] /\ wire'[d] = wire[d] /\ resumeId'[d] = resumeId[d]
        /\ got'[d] = got[d] /\ idFrom'[d] = idFrom[d] /\ since'[d] = since[d]
        /\ excused'[d] = excused[d] /\ UNCHANGED <<published, base, window>>
    BY <1>2, <1>7 DEF DeliveryInv, TypeOK
  <2> QED
    BY <1>4, <2>1, <2>2, OthersServed
<1>8. Served(c)'
  <2>1. Served(c) /\ wire[c] = <<>>
    BY <1>2 DEF DeliveryInv, Served, Attachment
  <2>2. at'[c] = p /\ p # None
    BY <1>1, <1>2 DEF DeliveryInv, TypeOK, StreamAssumption
  <2>3. published \in Nat
    BY Numbers DEF DeliveryInv
  <2>4. since'[c] = IF resumeId[c] = 0 THEN published ELSE since[c]
    BY <1>2 DEF DeliveryInv, TypeOK
  <2>5. resumeId[c] = 0 => Due(c)' = {}
    <3>1. published + 1 .. published = {}
      BY <2>3
    <3> QED
      BY <1>2, <2>4, <3>1 DEF Due
  <2>6. resumeId[c] # 0 => Due(c)' = Due(c)
    BY <1>2, <2>4 DEF Due
  <2>7. ReadSoFar(c)'
    BY <1>2, <2>1, <2>3, <2>4 DEF Served, ReadSoFar
  <2>8. ResumeStands(c)'
    <3>1. CASE resumeId[c] = 0
      BY <1>2, <3>1 DEF ResumeStands
    <3>2. CASE resumeId[c] # 0
      BY <1>2, <2>1, <2>6, <3>2 DEF Served, ResumeStands
    <3> QED
      BY <3>1, <3>2
  <2>9. Attachment(c)'
    BY <1>2, <1>3, <1>4, <2>1, <2>2, <2>5 DEF Attachment
  <2> QED
    BY <2>7, <2>8, <2>9 DEF Served
<1> QED
  BY <1>5, <1>6, <1>7, <1>8

LEMMA YieldDelivers ==
    ASSUME StreamAssumption, DeliveryInv, TypeOK', NEW p \in Streams, Yield(p)
    PROVE  /\ \A q \in Streams : QueueInOrder(q)'
           /\ \A d \in Clients : Served(d)'
<1> DEFINE old == stream[p]
           new == IF old.replay # <<>> THEN [old EXCEPT !.replay = Tail(@)]
                  ELSE [old EXCEPT !.queue = Tail(@)]
           r == old.replay
           q == old.queue
           n == Head(r \o q)
           c == old.owner
<1>1. /\ old.stage = "running" /\ r \o q # <<>>
      /\ stream' = [stream EXCEPT ![p] = new]
      /\ wire' = IF at[c] = p THEN [wire EXCEPT ![c] = Append(@, n)] ELSE wire
      /\ UNCHANGED <<published, base, at, resumeId, got, since, excused, window, idFrom>>
  BY DEF Yield, client, ghosts
<1>2. old \in StreamState /\ r \in Seq(Nat) /\ q \in Seq(Nat)
  BY Numbers DEF DeliveryInv, TypeOK, StreamState
<1>3. /\ new.stage = "running" /\ new.owner = c
      /\ \/ r # <<>> /\ n = Head(r) /\ new.replay = Tail(r) /\ new.queue = q
         \/ r = <<>> /\ q # <<>> /\ n = Head(q) /\ new.replay = r /\ new.queue = Tail(q)
  <2>1. r # <<>> => n = Head(r)
    <3>1. ASSUME NEW u \in Seq(Nat), NEW v \in Seq(Nat), u # <<>>
          PROVE  Head(u \o v) = Head(u)
      <4>1. u \o v \in Seq(Nat) /\ u \o v # <<>> /\ (u \o v)[1] = u[1]
        BY <3>1
      <4> QED
        BY <3>1, <4>1
    <3> HIDE DEF r, q
    <3> QED
      BY <1>2, <3>1
  <2>2. r = <<>> => q # <<>> /\ n = Head(q)
    BY <1>1, <1>2
  <2> HIDE DEF n
  <2> QED
    BY <1>1, <1>2, <2>1, <2>2 DEF StreamState
<1>4. QueueInOrder(p)
  BY DEF DeliveryInv
<1> HIDE DEF new
<1>5. stream'[p] = new /\ \A o \in Streams \ {p} : stream'[o] = stream[o]
  BY <1>1 DEF DeliveryInv, TypeOK
<1>6. ASSUME NEW u \in Seq(Nat), u # <<>>
      PROVE  \A i \in DOMAIN Tail(u) : i + 1 \in DOMAIN u /\ Tail(u)[i] = u[i + 1]
  BY <1>6
<1>7. n \in Nat /\ base < n /\ n <= published
  <2>1. r # <<>> => 1 \in DOMAIN r /\ Head(r) = r[1] /\ r[1] \in Nat
    BY <1>2
  <2>2. q # <<>> => 1 \in DOMAIN q /\ Head(q) = q[1] /\ q[1] \in Nat
    BY <1>2
  <2> HIDE DEF n
  <2> QED
    BY <1>3, <1>4, <2>1, <2>2 DEF QueueInOrder
<1>8. QueueInOrder(p)'
  <2>1. /\ \A i \in DOMAIN new.queue : base < new.queue[i] /\ new.queue[i] <= published
        /\ \A i \in DOMAIN new.replay : base < new.replay[i] /\ new.replay[i] <= published
    <3>1. /\ \A i \in DOMAIN q : base < q[i] /\ q[i] <= published
          /\ \A i \in DOMAIN r : base < r[i] /\ r[i] <= published
      BY <1>4 DEF QueueInOrder
    <3>2. /\ r # <<>> => \A i \in DOMAIN Tail(r) :
                 i + 1 \in DOMAIN r /\ Tail(r)[i] = r[i + 1]
          /\ q # <<>> => \A i \in DOMAIN Tail(q) :
                 i + 1 \in DOMAIN q /\ Tail(q)[i] = q[i + 1]
      BY <1>2, <1>6
    <3> HIDE DEF n, r, q
    <3> QED
      BY <1>3, <3>1, <3>2
  <2>2. \A i, j \in DOMAIN new.queue : i < j => new.queue[i] < new.queue[j]
    <3>1. CASE new.queue = q
      BY <1>4, <3>1 DEF QueueInOrder
    <3>2. CASE q # <<>> /\ new.queue = Tail(q)
      <4>1. \A i \in DOMAIN Tail(q) : i \in Nat
        BY <1>2, <3>2
      <4>2. \A i, j \in DOMAIN Tail(q) : i < j => i + 1 < j + 1
        BY <4>1
      <4>3. \A i \in DOMAIN Tail(q) : i + 1 \in DOMAIN q /\ Tail(q)[i] = q[i + 1]
        BY <1>2, <1>6, <3>2
      <4> QED
        BY <1>4, <3>2, <4>2, <4>3 DEF QueueInOrder
    <3> QED
      BY <1>3, <3>1, <3>2
  <2> QED
    BY <1>1, <1>3, <1>5, <2>1, <2>2 DEF QueueInOrder
<1>9. \A o \in Streams \ {p} : QueueInOrder(o)'
  BY <1>1, <1>5, SameStream DEF DeliveryInv
<1>10. ASSUME NEW d \in Clients, at[d] # p
       PROVE  Served(d)'
  <2>1. at[c] = p => d # c
    BY <1>10
  <2>2. wire'[d] = wire[d]
    <3> HIDE DEF n, c
    <3> QED
      BY <1>1, <2>1 DEF DeliveryInv, TypeOK
  <2> QED
    BY <1>1, <1>5, <1>10, <2>2, OthersServed
<1>11. ASSUME NEW d \in Clients, at[d] = p
       PROVE  Served(d)'
  <2>1. p # None /\ Served(d)
    BY DEF StreamAssumption, DeliveryInv
  <2>2. c = d
    BY <1>11, <2>1, OwnStream
  <2>3. wire'[d] = Append(wire[d], n) /\ wire[d] \in Seq(Nat)
    <3>1. wire \in [Clients -> Seq(Events)] /\ wire[d] \in Seq(Nat)
      BY Numbers DEF DeliveryInv, TypeOK
    <3> HIDE DEF n, c
    <3> QED
      BY <1>1, <1>11, <2>2, <3>1
  <2>4. Line(d)' = Line(d)
    <3>1. /\ Line(d)' = (Append(wire[d], n) \o new.replay) \o new.queue
          /\ Line(d) = (wire[d] \o r) \o q
      BY <1>1, <1>5, <1>11, <2>3 DEF Line
    <3> HIDE DEF n, q, r
    <3> DEFINE w == wire[d]
    <3>2. w \in Seq(Nat) /\ r \in Seq(Nat) /\ q \in Seq(Nat)
      BY <1>2, <2>3
    <3> HIDE DEF w
    <3>3. CASE r # <<>> /\ n = Head(r) /\ new.replay = Tail(r) /\ new.queue = q
      <4>1. (Append(w, Head(r)) \o Tail(r)) \o q = (w \o r) \o q
        BY <3>2, <3>3, LineShifts, Zenon
      <4> QED
        BY <3>1, <3>3, <4>1 DEF w
    <3>4. CASE /\ r = <<>> /\ q # <<>> /\ n = Head(q)
               /\ new.replay = r /\ new.queue = Tail(q)
      <4>1. (Append(w, Head(q)) \o r) \o Tail(q) = (w \o r) \o q
        BY <3>2, <3>4, LineShifts, Zenon
      <4> QED
        BY <3>1, <3>4, <4>1 DEF w
    <3> QED
      BY <1>3, <3>3, <3>4
  <2>5. Due(d)' = Due(d)
    BY <1>1 DEF Due
  <2>6. ReadSoFar(d)'
    <3>1. \A i \in DOMAIN wire'[d] : base < wire'[d][i] /\ wire'[d][i] <= published
      <4>1. ReadSoFar(d)
        BY <2>1 DEF Served
      <4> HIDE DEF n
      <4>2. \A i \in DOMAIN Append(wire[d], n) :
               \/ i \in DOMAIN wire[d] /\ Append(wire[d], n)[i] = wire[d][i]
               \/ Append(wire[d], n)[i] = n
        BY <1>7, <2>3
      <4> QED
        BY <1>7, <2>3, <4>1, <4>2 DEF ReadSoFar
    <3> QED
      BY <1>1, <2>1, <3>1 DEF Served, ReadSoFar
  <2>7. ResumeStands(d)'
    BY <1>1, <2>1, <2>5 DEF Served, ResumeStands
  <2>8. Attachment(d)'
    BY <1>1, <1>3, <1>5, <1>11, <2>1, <2>2, <2>4, <2>5 DEF Served, Attachment
  <2> QED
    BY <2>6, <2>7, <2>8 DEF Served
<1> QED
  BY <1>8, <1>9, <1>10, <1>11

(* A client reads, and its line gets shorter.                              *)
LEMMA ReceiveDelivers ==
    ASSUME StreamAssumption, DeliveryInv, NEW c \in Clients, Receive(c),
           TypeOK'
    PROVE  /\ \A q \in Streams : QueueInOrder(q)'
           /\ \A d \in Clients : Served(d)'
           /\ RepeatsOnlyFromWindow'
<1> DEFINE n == Head(wire[c])
           p == at[c]
           read == ToSet(got[c])
<1>1. /\ wire[c] # <<>> /\ wire' = [wire EXCEPT ![c] = Tail(@)]
      /\ resumeId' = IF c \in Browsers THEN [resumeId EXCEPT ![c] = Id(n)] ELSE resumeId
      /\ got' = [got EXCEPT ![c] = Append(@, n)]
      /\ idFrom' = [idFrom EXCEPT ![c] = base]
      /\ UNCHANGED <<published, base, stream, at, since, excused, window>>
  BY DEF Receive
<1>2. /\ published \in Nat /\ base \in Nat /\ base <= published
      /\ got[c] \in Seq(Nat) /\ wire[c] \in Seq(Nat) /\ read \subseteq Nat
  BY Numbers DEF DeliveryInv
<1>3. Served(c)
  BY DEF DeliveryInv
<1>4. p # None /\ p \in Streams
  BY <1>1, <1>3 DEF Served, Attachment, DeliveryInv, TypeOK
<1>5. stream[p].owner = c /\ stream[p].stage = "running"
  BY <1>1, <1>3, <1>4 DEF Served, Attachment
<1>6. Complete(read, Line(c), Due(c)) /\ Ascends(read, Line(c), window)
  BY <1>3, <1>4, <1>5 DEF Served, Attachment
<1>7. /\ Line(c) \in Seq(Nat) /\ Line(c) # <<>> /\ Head(Line(c)) = n
      /\ Line(c)' = Tail(Line(c))
  <2> DEFINE w == wire[c]
             r == stream[p].replay
             q == stream[p].queue
  <2>1. w \in Seq(Nat) /\ r \in Seq(Nat) /\ q \in Seq(Nat) /\ w # <<>>
    BY <1>1, <1>2, <1>4, Numbers DEF DeliveryInv
  <2>2. Line(c) = (w \o r) \o q
    BY DEF Line
  <2>3. Line(c)' = (Tail(w) \o r) \o q
    BY <1>1 DEF Line, DeliveryInv, TypeOK
  <2> HIDE DEF w, r, q
  <2>4. (Tail(w) \o r) \o q = Tail((w \o r) \o q)
    BY <2>1, LineShrinks
  <2>6. Head(w) = Head((w \o r) \o q) /\ (w \o r) \o q # <<>>
    BY <2>1
  <2>5. (w \o r) \o q \in Seq(Nat)
    BY <2>1, LineHolds
  <2> QED
    BY <2>2, <2>3, <2>4, <2>5, <2>6 DEF w
<1>8. Due(c) \subseteq Nat /\ Due(c)' = Due(c)
  <2>1. since[c] \in Nat
    BY DEF DeliveryInv, TypeOK
  <2> QED
    BY <1>1, <2>1 DEF Due
<1>9. /\ Complete(read \union {n}, Line(c)', Due(c))
      /\ \A m \in Due(c) : m <= n => m \in read \union {n}
      /\ Ascends(read \union {n}, Line(c)', window)
      /\ \A m \in read : m >= n => m \in window
  <2> DEFINE line == Line(c)
             due  == Due(c)
  <2>1. /\ line \in Seq(Nat) /\ line # <<>> /\ Head(line) = n /\ Line(c)' = Tail(line)
        /\ Complete(read, line, due) /\ Ascends(read, line, window) /\ due \subseteq Nat
    BY <1>6, <1>7, <1>8
  <2> HIDE DEF read, n, line, due
  <2>2. /\ Complete(read \union {Head(line)}, Tail(line), due)
        /\ \A m \in due : m <= Head(line) => m \in read \union {Head(line)}
    BY <2>1, CompleteTail
  <2>3. /\ Ascends(read \union {Head(line)}, Tail(line), window)
        /\ \A m \in read : m >= Head(line) => m \in window
    BY <2>1, AscendsTail
  <2> QED
    BY <2>1, <2>2, <2>3 DEF due
<1>10. n \in Nat /\ base < n /\ n <= published
  <2>1. 1 \in DOMAIN wire[c] /\ n = wire[c][1] /\ wire[c][1] \in Nat
    BY <1>1, <1>2
  <2> QED
    BY <1>3, <2>1 DEF Served, ReadSoFar
<1>11. /\ DOMAIN got'[c] = 1 .. Len(got[c]) + 1 /\ Len(got[c]) \in Nat
       /\ got'[c][Len(got[c]) + 1] = n
       /\ \A i \in 1 .. Len(got[c]) : got'[c][i] = got[c][i]
  <2>1. got'[c] = Append(got[c], n)
    BY <1>1 DEF DeliveryInv, TypeOK
  <2> HIDE DEF n
  <2> QED
    BY <1>2, <2>1
<1>12. ToSet(got'[c]) = read \union {n}
  <2> HIDE DEF n
  <2>1. DOMAIN got[c] = 1 .. Len(got[c])
    BY <1>2
  <2>2. Len(got[c]) + 1 \in DOMAIN got'[c] /\ DOMAIN got[c] \subseteq DOMAIN got'[c]
    BY <1>11, <2>1
  <2>3. \A i \in DOMAIN got'[c] : i \in DOMAIN got[c] \/ i = Len(got[c]) + 1
    BY <1>11, <2>1
  <2> QED
    BY <1>11, <2>1, <2>2, <2>3 DEF ToSet
<1> HIDE DEF n, read
<1>13. \A q \in Streams : QueueInOrder(q)'
  BY <1>1, SameStream DEF DeliveryInv
<1>14. ASSUME NEW d \in Clients, d # c
       PROVE  Served(d)'
  <2>1. Served(d) /\ TypeOK
    BY DEF DeliveryInv
  <2>2. /\ base' = base /\ published' >= published /\ window \subseteq window'
        /\ at'[d] = at[d] /\ wire'[d] = wire[d] /\ resumeId'[d] = resumeId[d]
        /\ got'[d] = got[d] /\ idFrom'[d] = idFrom[d]
        /\ stream' = stream
    BY <1>1, <1>2, <1>14 DEF DeliveryInv, TypeOK
  <2>3. since'[d] <= published' /\ Due(d)' = Due(d)
    BY <1>1, <2>1 DEF Served, ReadSoFar, Due
  <2> QED
    BY <2>1, <2>2, <2>3, SameClient
<1>15. Served(c)'
  <2>1. idFrom'[c] = base /\ wire'[c] = Tail(wire[c]) /\ at'[c] = p
    BY <1>1 DEF DeliveryInv, TypeOK
  <2>2. resumeId'[c] = IF c \in Browsers THEN n - base ELSE resumeId[c]
    BY <1>1 DEF DeliveryInv, TypeOK, Id
  <2>3. c \notin Browsers => resumeId[c] = 0
    BY <1>3 DEF Served, ReadSoFar
  <2>4. ReadSoFar(c)'
    <3>1. \A m \in ToSet(got'[c]) : m <= published
      <4>1. \A m \in read : m <= IF idFrom[c] = base THEN published ELSE base
        BY <1>3 DEF Served, ReadSoFar, read
      <4>2. \A m \in read : m <= published
        BY <1>2, <4>1
      <4> QED
        BY <1>10, <1>12, <4>2
    <3>2. \A i \in DOMAIN Tail(wire[c]) :
             i + 1 \in DOMAIN wire[c] /\ Tail(wire[c])[i] = wire[c][i + 1]
      BY <1>1, <1>2
    <3>3. since[c] <= published
      BY <1>3 DEF Served, ReadSoFar
    <3> QED
      BY <1>1, <1>2, <1>3, <2>1, <2>2, <2>3, <3>1, <3>2, <3>3 DEF Served, ReadSoFar
  <2>5. ResumeStands(c)'
    <3>1. SUFFICES ASSUME resumeId'[c] > 0
                   PROVE  /\ base + resumeId'[c] <= published
                          /\ \A m \in Due(c) : m <= base + resumeId'[c] => m \in ToSet(got'[c])
                          /\ \A m \in ToSet(got'[c]) : m > base + resumeId'[c] => m \in window
      BY <1>1, <1>8 DEF ResumeStands
    <3>2. base + resumeId'[c] = n
      BY <1>2, <1>10, <2>2, <2>3, <3>1
    <3>3. \A m \in ToSet(got'[c]) : m > n => m \in window
      <4>1. read \subseteq Nat
        BY <1>2
      <4>2. ASSUME NEW m \in read \union {n}, m > n
            PROVE  m \in read /\ m >= n
        BY <1>10, <4>1, <4>2
      <4> QED
        BY <1>9, <1>12, <4>2
    <3> QED
      BY <1>9, <1>10, <1>12, <3>2, <3>3
  <2>6. Attachment(c)'
    BY <1>1, <1>4, <1>5, <1>8, <1>9, <1>12, <2>1 DEF Attachment
  <2> QED
    BY <2>4, <2>5, <2>6 DEF Served
<1>16. RepeatsOnlyFromWindow'
  <2> SUFFICES ASSUME NEW d \in Clients, NEW i \in DOMAIN got'[d], NEW j \in DOMAIN got'[d],
                      i < j, got'[d][i] = got'[d][j]
               PROVE  got'[d][i] \in window
    BY <1>1 DEF RepeatsOnlyFromWindow
  <2>1. CASE d # c
    <3>1. got'[d] = got[d]
      BY <1>1, <2>1 DEF DeliveryInv, TypeOK
    <3> QED
      BY <3>1 DEF DeliveryInv, RepeatsOnlyFromWindow
  <2>2. CASE d = c
    <3>1. i \in 1 .. Len(got[c]) /\ i \in DOMAIN got[c]
      BY <1>2, <1>11, <2>2
    <3>2. CASE j = Len(got[c]) + 1
      <4>1. got'[c][i] = n /\ n \in read
        BY <1>11, <2>2, <3>1, <3>2 DEF ToSet, read
      <4> QED
        BY <1>9, <1>10, <2>2, <4>1
    <3>3. CASE j # Len(got[c]) + 1
      <4>1. j \in 1 .. Len(got[c]) /\ j \in DOMAIN got[c]
        BY <1>2, <1>11, <2>2, <3>3
      <4> QED
        BY <1>11, <2>2, <3>1, <4>1 DEF DeliveryInv, RepeatsOnlyFromWindow
    <3> QED
      BY <3>2, <3>3
  <2> QED
    BY <2>1, <2>2
<1> QED
  BY <1>13, <1>14, <1>15, <1>16

(* A connection breaks, and what was on its way is lost.                   *)
LEMMA DropDelivers ==
    ASSUME StreamAssumption, DeliveryInv, TypeOK', NEW c \in Clients, Drop(c)
    PROVE  /\ \A q \in Streams : QueueInOrder(q)'
           /\ \A d \in Clients : Served(d)'
<1>1. /\ at' = [at EXCEPT ![c] = None] /\ wire' = [wire EXCEPT ![c] = <<>>]
      /\ UNCHANGED <<published, base, stream, resumeId, got, since, excused,
                     window, idFrom>>
  BY DEF Drop, ghosts
<1>2. published \in Nat
  BY Numbers DEF DeliveryInv
<1>3. \A d \in Clients : Due(d)' = Due(d)
  BY <1>1 DEF Due
<1>4. \A q \in Streams : QueueInOrder(q)'
  BY <1>1, SameStream DEF DeliveryInv
<1>5. ASSUME NEW d \in Clients, d # c
      PROVE  Served(d)'
  <2>1. Served(d) /\ TypeOK
    BY DEF DeliveryInv
  <2>2. /\ base' = base /\ published' >= published /\ window \subseteq window'
        /\ at'[d] = at[d] /\ wire'[d] = wire[d] /\ resumeId'[d] = resumeId[d]
        /\ got'[d] = got[d] /\ idFrom'[d] = idFrom[d]
        /\ stream' = stream
    BY <1>1, <1>2, <1>5 DEF DeliveryInv, TypeOK
  <2>3. since'[d] <= published'
    BY <1>1, <2>1 DEF Served, ReadSoFar
  <2> QED
    BY <1>3, <2>1, <2>2, <2>3, SameClient
<1>6. Served(c)'
  <2>1. Served(c) /\ at'[c] = None /\ wire'[c] = <<>>
    BY <1>1 DEF DeliveryInv, TypeOK
  <2>2. ReadSoFar(c)'
    BY <1>1, <2>1 DEF Served, ReadSoFar
  <2>3. ResumeStands(c)'
    BY <1>1, <1>3, <2>1 DEF Served, ResumeStands
  <2>4. Attachment(c)'
    BY <2>1 DEF Attachment
  <2> QED
    BY <2>2, <2>3, <2>4 DEF Served
<1> QED
  BY <1>4, <1>5, <1>6

(* A stream that nobody reads ends, or is left behind.                     *)
LEMMA EndDelivers ==
    ASSUME StreamAssumption, DeliveryInv, TypeOK', NEW p \in Streams,
           Close(p) \/ Abandon(p)
    PROVE  /\ \A q \in Streams : QueueInOrder(q)'
           /\ \A d \in Clients : Served(d)'
<1>1. /\ ~ Attached(p)
      /\ \/ stream' = [stream EXCEPT ![p] = NoStream]
         \/ stream' = [stream EXCEPT ![p].stage = "lost"]
      /\ UNCHANGED <<published, base, wire, at, resumeId, got, since, excused,
                     window, idFrom>>
  BY DEF Close, Abandon, client, ghosts
<1>2. stream[p] \in StreamState /\ DOMAIN stream = Streams
  BY DEF DeliveryInv, TypeOK, StreamState
<1>3. /\ stream'[p].stage # "open"
      /\ \/ stream'[p].queue = <<>> /\ stream'[p].replay = <<>>
         \/ stream'[p].queue = stream[p].queue /\ stream'[p].replay = stream[p].replay
  BY <1>1, <1>2 DEF NoStream, StreamState
<1>4. \A q \in Streams \ {p} : stream'[q] = stream[q]
  BY <1>1, <1>2
<1>5. QueueInOrder(p)'
  <2>1. QueueInOrder(p)
    BY DEF DeliveryInv
  <2> QED
    BY <1>1, <1>3, <2>1 DEF QueueInOrder
<1>6. \A q \in Streams \ {p} : QueueInOrder(q)'
  BY <1>1, <1>4, SameStream DEF DeliveryInv
<1>7. ASSUME NEW d \in Clients
      PROVE  Served(d)'
  <2>1. at[d] # p
    BY <1>1 DEF Attached
  <2> QED
    BY <1>1, <1>4, <2>1, OthersServed
<1> QED
  BY <1>5, <1>6, <1>7

(* After a restart nobody is served, and no id of before it counts.        *)
LEMMA RestartDelivers ==
    ASSUME StreamAssumption, DeliveryInv, TypeOK', Restart
    PROVE  /\ LogLatest'
           /\ \A q \in Streams : QueueInOrder(q)'
           /\ \A d \in Clients : Served(d)'
<1>1. /\ base' = published /\ eventLog' = <<>>
      /\ stream' = [p \in Streams |-> NoStream]
      /\ at' = [c \in Clients |-> None] /\ wire' = [c \in Clients |-> <<>>]
      /\ UNCHANGED <<published, resumeId, got, since, excused, window, idFrom>>
  BY DEF Restart, ghosts
<1>2. published \in Nat /\ base \in Nat /\ base <= published
  BY Numbers DEF DeliveryInv
<1>3. LogLatest'
  BY <1>1, <1>2 DEF LogLatest
<1>4. \A q \in Streams : QueueInOrder(q)'
  BY <1>1 DEF QueueInOrder, NoStream
<1>5. ASSUME NEW d \in Clients
      PROVE  Served(d)'
  <2>1. ReadSoFar(d) /\ idFrom[d] \in Nat /\ resumeId[d] \in Nat /\ ToSet(got[d]) \subseteq Nat
    <3>1. idFrom[d] \in Nat /\ resumeId[d] \in Nat /\ ReadSoFar(d)
      BY DEF DeliveryInv, Served, TypeOK
    <3> QED
      BY <3>1, Numbers DEF DeliveryInv
  <2>2. \A n \in ToSet(got[d]) : n <= published
    BY <1>2, <2>1 DEF ReadSoFar
  <2>3. ReadSoFar(d)'
    BY <1>1, <1>2, <2>1, <2>2 DEF ReadSoFar
  <2>4. ResumeStands(d)'
    <3>1. CASE idFrom[d] # published
      BY <1>1, <3>1 DEF ResumeStands
    <3>2. CASE idFrom[d] = published
      <4>1. base = published
        BY <1>2, <2>1, <3>2 DEF ReadSoFar
      <4>2. base' = base /\ Due(d)' = Due(d)
        BY <1>1, <4>1 DEF Due
      <4>3. ResumeStands(d)
        BY DEF DeliveryInv, Served
      <4> QED
        BY <1>1, <4>2, <4>3 DEF ResumeStands
    <3> QED
      BY <3>1, <3>2
  <2>5. Attachment(d)'
    BY <1>1 DEF Attachment
  <2> QED
    BY <2>3, <2>4, <2>5 DEF Served
<1> QED
  BY <1>3, <1>4, <1>5

LEMMA NothingDelivers ==
    ASSUME StreamAssumption, DeliveryInv, UNCHANGED vars PROVE DeliveryInv'
<1>1. /\ UNCHANGED <<published, base, eventLog, stream, connected, wire, at, lastId,
                     resumeId, drops, restarts>>
      /\ UNCHANGED <<got, since, excused, window, idFrom>>
  BY DEF vars, client, ghosts
<1>2. TypeOK'
  BY <1>1 DEF DeliveryInv, TypeOK
<1>3. LogLatest' /\ RepeatsOnlyFromWindow'
  BY <1>1 DEF DeliveryInv, LogLatest, RepeatsOnlyFromWindow
<1>4. \A q \in Streams : QueueInOrder(q)'
  BY <1>1, SameStream DEF DeliveryInv
<1>5. ASSUME NEW d \in Clients
      PROVE  Served(d)'
  <2>1. Due(d)' = Due(d) /\ Line(d)' = Line(d)
    BY <1>1 DEF Due, Line
  <2>2. ReadSoFar(d) /\ ResumeStands(d) /\ Attachment(d)
    BY DEF DeliveryInv, Served
  <2>3. ReadSoFar(d)'
    BY <1>1, <2>2 DEF ReadSoFar
  <2>4. ResumeStands(d)'
    BY <1>1, <2>1, <2>2 DEF ResumeStands
  <2>5. Attachment(d)'
    BY <1>1, <2>1, <2>2 DEF Attachment
  <2> QED
    BY <2>3, <2>4, <2>5 DEF Served
<1> QED
  BY <1>2, <1>3, <1>4, <1>5 DEF DeliveryInv

(* Nothing but reading adds to what was read, and the window only grows.   *)
LEMMA RepeatsStand ==
    ASSUME RepeatsOnlyFromWindow, got' = got, window \subseteq window'
    PROVE  RepeatsOnlyFromWindow'
BY DEF RepeatsOnlyFromWindow

LEMMA LogStands ==
    ASSUME LogLatest, UNCHANGED <<published, base, eventLog>> PROVE LogLatest'
BY DEF LogLatest

-----------------------------------------------------------------------------
StreamInv == GaugeInv /\ DeliveryInv

LEMMA DeliveryStart == ASSUME StreamAssumption, Init PROVE DeliveryInv
<1>1. TypeOK
  BY TypeStart
<1>2. LogLatest
  BY DEF Init, LogLatest
<1>3. \A q \in Streams : QueueInOrder(q)
  BY DEF Init, QueueInOrder, NoStream
<1>4. \A c \in Clients : Served(c)
  BY DEF Init, Served, ReadSoFar, ResumeStands, Attachment, ToSet
<1>5. RepeatsOnlyFromWindow
  BY DEF Init, RepeatsOnlyFromWindow
<1> QED
  BY <1>1, <1>2, <1>3, <1>4, <1>5 DEF DeliveryInv

LEMMA StreamStep == StreamAssumption /\ StreamInv /\ [Next]_vars => StreamInv'
<1> SUFFICES ASSUME StreamAssumption, GaugeInv, DeliveryInv, [Next]_vars
             PROVE  DeliveryInv'
  BY GaugeStep DEF StreamInv
<1>1. TypeOK /\ LogLatest /\ RepeatsOnlyFromWindow
  BY DEF DeliveryInv
<1>2. CASE Broadcast
  <2>1. TypeOK'
    BY <1>1, <1>2, BroadcastType
  <2>2. LogLatest' /\ \A q \in Streams : QueueInOrder(q)'
    BY <1>2, BroadcastLog, BroadcastQueue
  <2>3. \A c \in Clients : Served(c)'
    BY <1>2, <2>1, BroadcastClient
  <2>4. RepeatsOnlyFromWindow'
    BY <1>1, <1>2, RepeatsStand DEF Broadcast
  <2> QED
    BY <2>1, <2>2, <2>3, <2>4 DEF DeliveryInv
<1>3. CASE Restart
  <2>1. TypeOK'
    BY <1>1, <1>3, RestartType
  <2>2. LogLatest' /\ \A q \in Streams : QueueInOrder(q)'
    BY <1>3, <2>1, RestartDelivers
  <2>3. \A c \in Clients : Served(c)'
    BY <1>3, <2>1, RestartDelivers
  <2>4. RepeatsOnlyFromWindow'
    BY <1>1, <1>3, RepeatsStand DEF Restart, ghosts
  <2> QED
    BY <2>1, <2>2, <2>3, <2>4 DEF DeliveryInv
<1>4. ASSUME NEW c \in Clients, Open(c) PROVE DeliveryInv'
  <2>1. TypeOK'
    BY <1>1, <1>4, OpenType
  <2>2. LogLatest' /\ RepeatsOnlyFromWindow'
    BY <1>1, <1>4, RepeatsStand, LogStands DEF Open
  <2>3. \A q \in Streams : QueueInOrder(q)'
    BY <1>4, <2>1, OpenDelivers
  <2>4. \A d \in Clients : Served(d)'
    BY <1>4, <2>1, OpenDelivers
  <2> QED
    BY <2>1, <2>2, <2>3, <2>4 DEF DeliveryInv
<1>5. ASSUME NEW c \in Clients, Receive(c) PROVE DeliveryInv'
  <2>1. base < Head(wire[c])
    <3>1. wire[c] \in Seq(Nat) /\ wire[c] # <<>> /\ Served(c)
      BY <1>5, Numbers DEF DeliveryInv, Receive
    <3>2. 1 \in DOMAIN wire[c] /\ Head(wire[c]) = wire[c][1]
      BY <3>1
    <3> QED
      BY <3>1, <3>2 DEF Served, ReadSoFar
  <2>2. TypeOK'
    BY <1>1, <1>5, <2>1, ReceiveType
  <2>3. LogLatest'
    BY <1>1, <1>5, LogStands DEF Receive
  <2>4. \A q \in Streams : QueueInOrder(q)'
    BY <1>5, <2>2, ReceiveDelivers
  <2>5. \A d \in Clients : Served(d)'
    BY <1>5, <2>2, ReceiveDelivers
  <2>6. RepeatsOnlyFromWindow'
    BY <1>5, <2>2, ReceiveDelivers
  <2> QED
    BY <2>2, <2>3, <2>4, <2>5, <2>6 DEF DeliveryInv
<1>6. ASSUME NEW c \in Clients, Drop(c) PROVE DeliveryInv'
  <2>1. TypeOK'
    BY <1>1, <1>6, DropType
  <2>2. LogLatest' /\ RepeatsOnlyFromWindow'
    BY <1>1, <1>6, RepeatsStand, LogStands DEF Drop, ghosts
  <2>3. \A q \in Streams : QueueInOrder(q)'
    BY <1>6, <2>1, DropDelivers
  <2>4. \A d \in Clients : Served(d)'
    BY <1>6, <2>1, DropDelivers
  <2> QED
    BY <2>1, <2>2, <2>3, <2>4 DEF DeliveryInv
<1>7. ASSUME NEW p \in Streams, Start(p) PROVE DeliveryInv'
  <2>1. TypeOK'
    BY <1>1, <1>7, StartType
  <2>2. LogLatest' /\ RepeatsOnlyFromWindow'
    BY <1>1, <1>7, RepeatsStand, LogStands DEF Start
  <2>3. \A q \in Streams : QueueInOrder(q)'
    BY <1>7, <2>1, StartDelivers
  <2>4. \A d \in Clients : Served(d)'
    BY <1>7, <2>1, StartDelivers
  <2> QED
    BY <2>1, <2>2, <2>3, <2>4 DEF DeliveryInv
<1>8. ASSUME NEW p \in Streams, Yield(p) PROVE DeliveryInv'
  <2>1. TypeOK'
    BY <1>1, <1>8, YieldType
  <2>2. LogLatest' /\ RepeatsOnlyFromWindow'
    BY <1>1, <1>8, RepeatsStand, LogStands DEF Yield, ghosts
  <2>3. \A q \in Streams : QueueInOrder(q)'
    BY <1>8, <2>1, YieldDelivers
  <2>4. \A d \in Clients : Served(d)'
    BY <1>8, <2>1, YieldDelivers
  <2> QED
    BY <2>1, <2>2, <2>3, <2>4 DEF DeliveryInv
<1>9. ASSUME NEW p \in Streams, Close(p) \/ Abandon(p) PROVE DeliveryInv'
  <2>1. TypeOK'
    BY <1>1, <1>9, CloseType, AbandonType
  <2>2. LogLatest' /\ RepeatsOnlyFromWindow'
    BY <1>1, <1>9, RepeatsStand, LogStands DEF Close, Abandon, ghosts
  <2>3. \A q \in Streams : QueueInOrder(q)'
    BY <1>9, <2>1, EndDelivers
  <2>4. \A d \in Clients : Served(d)'
    BY <1>9, <2>1, EndDelivers
  <2> QED
    BY <2>1, <2>2, <2>3, <2>4 DEF DeliveryInv
<1>10. CASE UNCHANGED vars
  BY <1>10, NothingDelivers
<1> QED
  BY <1>2, <1>3, <1>4, <1>5, <1>6, <1>7, <1>8, <1>9, <1>10 DEF Next

(* What is complete holds all that is due.                                 *)
LEMMA ServedMissNothing == ASSUME StreamAssumption, DeliveryInv PROVE NothingMissed
<1> SUFFICES ASSUME NEW c \in Clients, at[c] # None, stream[at[c]].stage = "running"
             PROVE  Due(c) \subseteq ToSet(got[c]) \union ToSet(wire[c])
                        \union ToSet(stream[at[c]].replay) \union ToSet(stream[at[c]].queue)
  BY DEF NothingMissed
<1>1. at[c] \in Streams
  BY DEF DeliveryInv, TypeOK
<1>2. Due(c) \subseteq ToSet(got[c]) \union ToSet(Line(c))
  BY DEF DeliveryInv, Served, Attachment, Complete
<1>3. ToSet(Line(c)) = ToSet(wire[c]) \union ToSet(stream[at[c]].replay)
                            \union ToSet(stream[at[c]].queue)
  BY <1>1, Numbers, LineHolds DEF DeliveryInv, Line
<1> QED
  BY <1>2, <1>3

LEMMA StreamSafe == Spec => []StreamInv
<1>1. Init => StreamInv
  BY StreamAssumption, GaugeStart, DeliveryStart DEF StreamInv
<1>2. StreamInv /\ [Next]_vars => StreamInv'
  BY StreamAssumption, StreamStep
<1> QED
  BY <1>1, <1>2, PTL DEF Spec

(* Queues and log stay within their limits, the gauge is never negative,   *)
(* and no id is: TypeOK of every reachable state.                          *)
THEOREM TypesHold == Spec => []TypeOK
<1>1. StreamInv => TypeOK
  BY DEF StreamInv, DeliveryInv
<1> QED
  BY <1>1, StreamSafe, PTL

(* Replay and queue join without a hole (server.py:229-269): a client that *)
(* is served has read, or has on its way to it, all it has a claim to.     *)
THEOREM ReplayJoinsQueue == Spec => []NothingMissed
<1>1. StreamInv => NothingMissed
  BY StreamAssumption, ServedMissNothing DEF StreamInv
<1> QED
  BY <1>1, StreamSafe, PTL

(* An event is read twice only if it was broadcast between the             *)
(* subscription of a queue and the replay (server.py:231, 244).            *)
THEOREM RepeatsAreBounded == Spec => []RepeatsOnlyFromWindow
<1>1. StreamInv => RepeatsOnlyFromWindow
  BY DEF StreamInv, DeliveryInv
<1> QED
  BY <1>1, StreamSafe, PTL
===============================================================================
