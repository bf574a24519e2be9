--------------------------- MODULE LongPollProofs ----------------------------
(***************************************************************************)
(* Proofs about long polling, for any number of clients, orders, statuses  *)
(* and client-side timeouts.                                               *)
(***************************************************************************)
EXTENDS LongPoll, FiniteSetTheorems, TLAPS

(* What a suspended poll_order call holds in its locals.                   *)
LEMMA HeldType ==
    ASSUME LongPollAssumption, TypeOK, NEW p \in Held
    PROVE  /\ p \in Slots
           /\ poll[p] \in HeldPoll
           /\ poll[p].client \in Clients
           /\ poll[p].asked \in Status
           /\ poll[p].event \in Nat
           /\ Order(p) \in Orders
<1>1. p \in Slots /\ poll[p].held
  BY DEF Held
<1>2. poll[p] \in HeldPoll
  BY <1>1 DEF TypeOK
<1>3. poll[p].client \in Clients /\ poll[p].asked \in Status
      /\ poll[p].event \in Nat
  BY <1>2 DEF HeldPoll
<1> QED
  BY <1>1, <1>2, <1>3 DEF Order, LongPollAssumption

(* Marking a held poll as expired or abandoned leaves it a held poll.      *)
LEMMA MarkedPoll ==
    ASSUME NEW r \in HeldPoll
    PROVE  /\ [r EXCEPT !.expired = TRUE] \in HeldPoll
           /\ [r EXCEPT !.live = FALSE] \in HeldPoll
BY DEF HeldPoll

LEMMA TypeInit == LongPollAssumption /\ Init => TypeOK
BY DEF LongPollAssumption, Init, TypeOK, Status, Reply, NoReply, NoPoll

(* The reply a resuming call sends is a reply, and its slot is free again. *)
LEMMA RespondType ==
    ASSUME LongPollAssumption, TypeOK, NEW p \in Held, NEW b \in BOOLEAN,
           Respond(p, b)
    PROVE  /\ reply' \in [Clients -> Reply]
           /\ poll' \in [Slots -> [held : {FALSE}] \cup HeldPoll]
<1>1. p \in Slots /\ poll[p].client \in Clients /\ Order(p) \in Orders
  BY HeldType
<1>2. status[Order(p)] \in Status
  BY <1>1 DEF TypeOK
<1>3. [changed |-> b, status |-> status[Order(p)]] \in Reply
  BY <1>2 DEF Reply
<1>4. reply' \in [Clients -> Reply]
  BY <1>1, <1>3 DEF Respond, TypeOK
<1>5. poll' \in [Slots -> [held : {FALSE}] \cup HeldPoll]
  BY DEF Respond, TypeOK, NoPoll
<1> QED
  BY <1>4, <1>5

LEMMA TypeStep ==
    ASSUME LongPollAssumption, TypeOK, [Next]_vars,
           WaitingIsHeld
    PROVE  TypeOK'
<1> USE DEF server
<1>1. ASSUME NEW c \in Clients, PlaceOrder(c)
      PROVE  TypeOK'
  <2>1. 1 \in Status
    BY DEF Status, LongPollAssumption
  <2>2. /\ status' \in [Orders -> Status]
        /\ known' \in [Clients -> Status]
    BY <1>1, <2>1 DEF PlaceOrder, TypeOK
  <2> QED
    BY <1>1, <2>2 DEF PlaceOrder, TypeOK
<1>2. ASSUME NEW c \in Clients, PollImmediate(c)
      PROVE  TypeOK'
  <2>1. status[Watched[c]] \in Status
    BY DEF TypeOK, LongPollAssumption
  <2>2. [changed |-> TRUE, status |-> status[Watched[c]]] \in Reply
    BY <2>1 DEF Reply
  <2>3. reply' \in [Clients -> Reply]
    BY <1>2, <2>2 DEF PollImmediate, TypeOK
  <2> QED
    BY <1>2, <2>3 DEF PollImmediate, TypeOK
<1>3. ASSUME NEW c \in Clients, PollHold(c)
      PROVE  TypeOK'
  <2> DEFINE r == [held |-> TRUE, client |-> c, asked |-> known[c],
                   event |-> event[Watched[c]], expired |-> FALSE,
                   live |-> TRUE]
             q == CHOOSE p \in Slots \ Held : TRUE
  <2>1. event[Watched[c]] \in Nat /\ known[c] \in Status
    BY DEF TypeOK, LongPollAssumption
  <2>2. r \in HeldPoll
    BY <2>1 DEF HeldPoll
  <2>3. poll' = [poll EXCEPT ![q] = r]
    BY <1>3 DEF PollHold
  <2> HIDE DEF r, q
  <2>4. poll' \in [Slots -> [held : {FALSE}] \cup HeldPoll]
    BY <2>2, <2>3 DEF TypeOK
  <2>5. waiting' \in Nat /\ phase' \in [Clients -> {"ready", "waiting", "done"}]
    BY <1>3 DEF PollHold, TypeOK
  <2>6. UNCHANGED <<status, event, fired, reply, known, giveUps>>
    BY <1>3 DEF PollHold
  <2> QED
    BY <2>4, <2>5, <2>6 DEF TypeOK
<1>4. ASSUME NEW c \in Clients, Receive(c)
      PROVE  TypeOK'
  <2>1. reply[c] \in Reply
    BY DEF TypeOK
  <2>2. reply[c].status \in Status /\ NoReply \in Reply
    BY <2>1 DEF Reply, NoReply, Status, LongPollAssumption
  <2>3. known' \in [Clients -> Status] /\ reply' \in [Clients -> Reply]
    BY <1>4, <2>2 DEF Receive, TypeOK
  <2>4. phase' \in [Clients -> {"ready", "waiting", "done"}]
    BY <1>4 DEF Receive, TypeOK
  <2> QED
    BY <1>4, <2>3, <2>4 DEF Receive, TypeOK
<1>5. ASSUME NEW c \in Clients, GiveUp(c)
      PROVE  TypeOK'
  <2>1. \A p \in Held : [poll[p] EXCEPT !.live = FALSE] \in HeldPoll
    BY HeldType, MarkedPoll
  <2>2. poll' \in [Slots -> [held : {FALSE}] \cup HeldPoll]
    BY <1>5, <2>1 DEF GiveUp, TypeOK
  <2>3. NoReply \in Reply
    BY DEF NoReply, Reply, Status, LongPollAssumption
  <2>4. reply' \in [Clients -> Reply]
    BY <1>5, <2>3 DEF GiveUp, TypeOK
  <2>5. giveUps' \in 0 .. MaxGiveUps
    BY <1>5 DEF GiveUp, TypeOK, LongPollAssumption
  <2> QED
    BY <1>5, <2>2, <2>4, <2>5 DEF GiveUp, TypeOK
<1>6. ASSUME NEW o \in Orders, Advance(o)
      PROVE  TypeOK'
  <2>1. status' \in [Orders -> Status]
    BY <1>6 DEF Advance, TypeOK, Status, LongPollAssumption
  <2>2. event' \in [Orders -> Nat] /\ fired' \in [Orders -> SUBSET Nat]
    BY <1>6 DEF Advance, Signal, TypeOK
  <2> QED
    BY <1>6, <2>1, <2>2 DEF Advance, TypeOK
<1>7. ASSUME NEW p \in Slots, TimerFires(p)
      PROVE  TypeOK'
  <2>1. [poll[p] EXCEPT !.expired = TRUE] \in HeldPoll
    BY <1>7, HeldType, MarkedPoll DEF TimerFires
  <2>2. poll' \in [Slots -> [held : {FALSE}] \cup HeldPoll]
    BY <1>7, <2>1 DEF TimerFires, TypeOK
  <2> QED
    BY <1>7, <2>2 DEF TimerFires, TypeOK
<1>8. ASSUME NEW p \in Held
      PROVE  waiting - 1 \in Nat
  <2>1. IsFiniteSet(Held)
    BY FS_Subset DEF Held, LongPollAssumption
  <2>2. Cardinality(Held) # 0 /\ Cardinality(Held) \in Nat
    BY <2>1, FS_EmptySet, FS_CardinalityType
  <2> QED
    BY <2>2 DEF WaitingIsHeld
<1>9. ASSUME NEW p \in Slots, PollNotified(p)
      PROVE  TypeOK'
  <2>1. p \in Held /\ Respond(p, TRUE)
    BY <1>9 DEF PollNotified
  <2>2. /\ reply' \in [Clients -> Reply]
        /\ poll' \in [Slots -> [held : {FALSE}] \cup HeldPoll]
    BY <2>1, RespondType
  <2>3. waiting' \in Nat
    BY <1>9, <1>8, <2>1 DEF PollNotified
  <2> QED
    BY <1>9, <2>2, <2>3 DEF PollNotified, TypeOK
<1>10. ASSUME NEW p \in Slots, PollTimesOut(p)
       PROVE  TypeOK'
  <2>1. p \in Held /\ Respond(p, FALSE)
    BY <1>10 DEF PollTimesOut
  <2>2. /\ reply' \in [Clients -> Reply]
        /\ poll' \in [Slots -> [held : {FALSE}] \cup HeldPoll]
    BY <2>1, RespondType
  <2>3. waiting' \in Nat
    BY <1>10, <1>8, <2>1 DEF PollTimesOut
  <2> QED
    BY <1>10, <2>2, <2>3 DEF PollTimesOut, TypeOK
<1>11. CASE UNCHANGED vars
  BY <1>11 DEF vars, TypeOK
<1> QED
  BY <1>1, <1>2, <1>3, <1>4, <1>5, <1>6, <1>7, <1>9, <1>10, <1>11 DEF Next

(***************************************************************************)
(* The gauge.                                                              *)
(***************************************************************************)
LEMMA WaitingInit == LongPollAssumption /\ Init => WaitingIsHeld
<1> SUFFICES ASSUME Init
             PROVE  WaitingIsHeld
  OBVIOUS
<1>1. Held = {}
  BY DEF Init, Held, NoPoll
<1> QED
  BY <1>1, FS_EmptySet DEF Init, WaitingIsHeld

LEMMA HeldFinite ==
    ASSUME LongPollAssumption
    PROVE  IsFiniteSet(Held) /\ Cardinality(Held) \in Nat
BY FS_Subset, FS_CardinalityType DEF Held, LongPollAssumption

(* A call that resumes leaves the held ones, and takes one off the gauge.  *)
LEMMA RespondFrees ==
    ASSUME LongPollAssumption, TypeOK, WaitingIsHeld, NEW p \in Held,
           NEW b \in BOOLEAN, Respond(p, b), waiting' = waiting - 1
    PROVE  Held' = Held \ {p} /\ WaitingIsHeld'
<1>1. Held' = Held \ {p}
  BY DEF Respond, Held, TypeOK, NoPoll
<1>2. Cardinality(Held \ {p}) = Cardinality(Held) - 1
  BY HeldFinite, FS_RemoveElement
<1> QED
  BY <1>1, <1>2 DEF WaitingIsHeld

LEMMA WaitingStep ==
    ASSUME LongPollAssumption, TypeOK, WaitingIsHeld, [Next]_vars
    PROVE  WaitingIsHeld'
<1>1. ASSUME NEW c \in Clients, PollHold(c)
      PROVE  WaitingIsHeld'
  <2> DEFINE q == CHOOSE p \in Slots \ Held : TRUE
  <2>1. q \in Slots \ Held
    BY <1>1 DEF PollHold
  <2>2. poll'[q].held /\ \A p \in Slots \ {q} : poll'[p] = poll[p]
    BY <1>1, <2>1 DEF PollHold, TypeOK
  <2> HIDE DEF q
  <2>3. Held' = Held \cup {q}
    BY <2>1, <2>2 DEF Held
  <2>4. Cardinality(Held \cup {q}) = Cardinality(Held) + 1
    BY <2>1, HeldFinite, FS_AddElement
  <2> QED
    BY <1>1, <2>3, <2>4 DEF PollHold, WaitingIsHeld
<1>2. ASSUME NEW p \in Slots, PollNotified(p) \/ PollTimesOut(p)
      PROVE  WaitingIsHeld'
  BY <1>2, RespondFrees DEF PollNotified, PollTimesOut
<1>3. ASSUME NEW p \in Slots, TimerFires(p)
      PROVE  WaitingIsHeld'
  <2>1. [poll[p] EXCEPT !.expired = TRUE].held
    BY <1>3, HeldType DEF TimerFires, HeldPoll, Held
  <2>2. Held' = Held
    BY <1>3, <2>1 DEF TimerFires, Held, TypeOK
  <2> QED
    BY <1>3, <2>2 DEF TimerFires, WaitingIsHeld
<1>4. ASSUME NEW c \in Clients, GiveUp(c)
      PROVE  WaitingIsHeld'
  <2>1. \A p \in Held : [poll[p] EXCEPT !.live = FALSE].held
    BY HeldType DEF HeldPoll, Held
  <2>2. Held' = Held
    BY <1>4, <2>1 DEF GiveUp, Held
  <2> QED
    BY <1>4, <2>2 DEF GiveUp, WaitingIsHeld
<1>5. CASE UNCHANGED <<poll, waiting>>
  BY <1>5 DEF WaitingIsHeld, Held
<1> QED
  BY <1>1, <1>2, <1>3, <1>4, <1>5
     DEF Next, vars, server, PlaceOrder, PollImmediate, Receive, Advance

(***************************************************************************)
(* Nothing is slept through, and news is new.                              *)
(***************************************************************************)
LEMMA FollowInit == LongPollAssumption /\ Init => FollowInv
<1> SUFFICES ASSUME LongPollAssumption, Init
             PROVE  FollowInv
  OBVIOUS
<1>1. Held = {}
  BY DEF Init, Held, NoPoll
<1>2. EventFresh /\ NewsIsNew /\ KnownReached
  BY DEF Init, EventFresh, NewsIsNew, KnownReached, NoReply, LongPollAssumption
<1> QED
  BY <1>1, <1>2 DEF FollowInv, WokenMissed, OneAnswer, NoLostWakeup

(* p is the same suspended call as before, or one abandoned since.         *)
SameCall(p) ==
    /\ p \in Held
    /\ poll'[p].client = poll[p].client
    /\ poll'[p].asked = poll[p].asked
    /\ poll'[p].event = poll[p].event
    /\ poll'[p].live => poll[p].live

LEMMA TimerKeepsCalls ==
    ASSUME LongPollAssumption, TypeOK, NEW t \in Slots, TimerFires(t),
           NEW p \in Held'
    PROVE  SameCall(p)
<1>1. t \in Held /\ poll[t] \in HeldPoll
  BY HeldType DEF TimerFires
<1>2. CASE p = t
  BY <1>1, <1>2 DEF TimerFires, SameCall, HeldPoll, TypeOK
<1>3. CASE p # t
  BY <1>3 DEF TimerFires, SameCall, Held, TypeOK
<1> QED
  BY <1>2, <1>3

LEMMA GiveUpKeepsCalls ==
    ASSUME LongPollAssumption, TypeOK, NEW c \in Clients, GiveUp(c),
           NEW p \in Held'
    PROVE  SameCall(p) /\ (poll[p].client = c => ~poll'[p].live)
<1>1. p \in Slots
  BY DEF Held
<1>2. p \in Held
  BY <1>1 DEF GiveUp, Held
<1>3. poll[p] \in HeldPoll
  BY <1>2, HeldType
<1>4. CASE poll[p].client = c
  <2>1. poll'[p] = [poll[p] EXCEPT !.live = FALSE]
    BY <1>1, <1>2, <1>4 DEF GiveUp
  <2> QED
    BY <1>2, <1>3, <2>1 DEF SameCall, HeldPoll
<1>5. CASE poll[p].client # c
  <2>1. poll'[p] = poll[p]
    BY <1>1, <1>5 DEF GiveUp
  <2> QED
    BY <1>2, <1>5, <2>1 DEF SameCall
<1> QED
  BY <1>4, <1>5

LEMMA RespondKeepsCalls ==
    ASSUME TypeOK, NEW t \in Held, NEW b \in BOOLEAN, Respond(t, b),
           NEW p \in Held'
    PROVE  SameCall(p) /\ p # t
BY DEF Respond, SameCall, Held, TypeOK, NoPoll

(* Where the orders and the clients stay as they are, so do the facts      *)
(* about the suspended calls.                                              *)
LEMMA CallsFollow ==
    ASSUME LongPollAssumption, TypeOK, WokenMissed, NoLostWakeup,
           UNCHANGED <<status, event, fired>>,
           \A p \in Held' : SameCall(p)
    PROVE  WokenMissed' /\ NoLostWakeup'
<1>1. \A p \in Held' : Order(p)' = Order(p)
  BY DEF Order, SameCall
<1> QED
  BY <1>1 DEF WokenMissed, NoLostWakeup, SameCall

LEMMA FollowHold ==
    ASSUME LongPollAssumption, TypeOK, FollowInv, NEW c \in Clients,
           PollHold(c)
    PROVE  FollowInv'
<1> DEFINE o == Watched[c]
<1>0. PICK q \in Slots \ Held : q = CHOOSE p \in Slots \ Held : TRUE
  BY DEF PollHold
<1>1. q \in Slots \ Held
  BY <1>0
<1>2. /\ poll'[q].held /\ poll'[q].client = c
      /\ poll'[q].asked = known[c] /\ poll'[q].event = event[o]
  BY <1>0 DEF PollHold, TypeOK
<1>3. \A p \in Slots \ {q} : poll'[p] = poll[p]
  BY <1>0 DEF PollHold, TypeOK
<1>4. Held' = Held \cup {q}
  BY <1>1, <1>2, <1>3 DEF Held
<1>5. /\ o \in Orders /\ status[o] # 0 /\ known[c] = status[o]
      /\ phase[c] = "ready"
      /\ UNCHANGED <<status, event, fired, reply, known>>
      /\ phase' = [phase EXCEPT ![c] = "waiting"]
  BY DEF PollHold, LongPollAssumption
<1>6. Order(q)' = o /\ \A p \in Held : Order(p)' = Order(p)
  <2>1. \A p \in Held : poll'[p] = poll[p]
    BY <1>1, <1>3 DEF Held
  <2> QED
    BY <1>2, <2>1 DEF Order
<1>7. event[o] \notin fired[o]
  BY <1>5 DEF FollowInv, EventFresh, TypeOK
<1>8. status[o] >= 1
  BY <1>5 DEF TypeOK, Status
<1>9. WokenMissed' /\ NoLostWakeup'
  <2>1. \A p \in Held : poll'[p] = poll[p]
    BY <1>1, <1>3 DEF Held
  <2>2. status[o] \in Nat
    BY <1>5 DEF TypeOK, Status
  <2>3. \A p \in Held' : Order(p)' = IF p = q THEN o ELSE Order(p)
    BY <1>1, <1>4, <1>6
  <2>4. WokenMissed'
    BY <1>2, <1>4, <1>5, <1>7, <1>8, <2>1, <2>2, <2>3
       DEF FollowInv, WokenMissed
  <2>5. NoLostWakeup'
    BY <1>2, <1>4, <1>5, <2>1, <2>3 DEF FollowInv, NoLostWakeup
  <2> QED
    BY <2>4, <2>5
<1>10. OneAnswer'
  <2>1. \A p \in Held : poll'[p] = poll[p]
    BY <1>1, <1>3 DEF Held
  <2>2. \A p \in Held : poll[p].live => poll[p].client # c
    BY <1>5 DEF FollowInv, OneAnswer
  <2>3. phase'[c] = "waiting" /\ \A d \in Clients \ {c} : phase'[d] = phase[d]
    BY <1>5 DEF TypeOK
  <2>4. reply[c] = NoReply
    BY <1>5 DEF FollowInv, KnownReached
  <2>5. \A p \in Held : poll[p].client \in Clients
    BY HeldType
  <2> QED
    BY <1>2, <1>4, <1>5, <2>1, <2>2, <2>3, <2>4, <2>5
       DEF FollowInv, OneAnswer
<1>11. EventFresh' /\ NewsIsNew'
  BY <1>5 DEF FollowInv, EventFresh, NewsIsNew
<1>12. KnownReached'
  BY <1>5 DEF FollowInv, KnownReached, TypeOK
<1> QED
  BY <1>9, <1>10, <1>11, <1>12 DEF FollowInv

LEMMA FollowRespond ==
    ASSUME LongPollAssumption, TypeOK, FollowInv, NEW t \in Held,
           NEW b \in BOOLEAN, Respond(t, b),
           b => poll[t].event \in fired[Order(t)],
           UNCHANGED <<status, event, fired, phase, known>>
    PROVE  FollowInv'
<1>1. \A p \in Held' : SameCall(p) /\ p # t
  BY RespondKeepsCalls
<1>2. WokenMissed' /\ NoLostWakeup'
  BY <1>1, CallsFollow DEF FollowInv
<1>3. EventFresh'
  BY DEF FollowInv, EventFresh
<1> DEFINE c == poll[t].client
<1>4. c \in Clients /\ Order(t) = Watched[c] /\ Order(t) \in Orders
  BY HeldType DEF Order
<1>5. CASE ~poll[t].live
  <2>1. reply' = reply
    BY <1>5 DEF Respond
  <2> QED
    BY <1>1, <1>2, <1>3, <2>1
       DEF FollowInv, OneAnswer, NewsIsNew, KnownReached, SameCall
<1>6. CASE poll[t].live
  <2>1. /\ reply'[c] = [changed |-> b, status |-> status[Watched[c]]]
        /\ \A d \in Clients \ {c} : reply'[d] = reply[d]
    BY <1>4, <1>6 DEF Respond, TypeOK
  <2>2. /\ phase[c] = "waiting" /\ known[c] = poll[t].asked
        /\ \A p \in Held : poll[p].live /\ poll[p].client = c => p = t
    BY <1>6 DEF FollowInv, OneAnswer
  <2>3. OneAnswer'
    <3>1. \A p \in Held' : poll'[p].live => poll'[p].client # c
      BY <1>1, <2>2 DEF SameCall
    <3>2. \A p \in Held' : poll'[p].client \in Clients
      BY <1>1, HeldType DEF SameCall
    <3> QED
      BY <1>1, <2>1, <3>1, <3>2 DEF FollowInv, OneAnswer, SameCall
  <2>4. NewsIsNew'
    <3>1. b => known[c] < status[Watched[c]]
      BY <1>4, <2>2 DEF FollowInv, WokenMissed
    <3>2. status[Watched[c]] > known[c] <=> known[c] < status[Watched[c]]
      BY <1>4 DEF TypeOK, Status
    <3> QED
      BY <2>1, <3>1, <3>2 DEF FollowInv, NewsIsNew
  <2>5. KnownReached'
    <3>1. status[Watched[c]] <= status[Watched[c]]
      BY <1>4 DEF TypeOK, Status
    <3> QED
      BY <2>1, <2>2, <3>1 DEF FollowInv, KnownReached
  <2> QED
    BY <1>2, <1>3, <2>3, <2>4, <2>5 DEF FollowInv
<1> QED
  BY <1>5, <1>6

LEMMA FollowPlace ==
    ASSUME LongPollAssumption, TypeOK, FollowInv, NEW c \in Clients,
           PlaceOrder(c)
    PROVE  FollowInv'
<1> DEFINE o == Watched[c]
<1>1. /\ o \in Orders /\ status[o] = 0 /\ known[c] = 0
      /\ \A d \in Clients : Watched[d] = o =>
            reply[d].status = 0 /\ ~reply[d].changed
  <2>1. o \in Orders /\ status[o] = 0
    BY DEF PlaceOrder, LongPollAssumption
  <2>2. \A d \in Clients : /\ known[d] \in Nat /\ reply[d].status \in Nat
                           /\ reply[d] \in Reply
    BY DEF TypeOK, Status, Reply
  <2>3. \A d \in Clients : Watched[d] = o => known[d] = 0 /\ reply[d].status = 0
    BY <2>1, <2>2 DEF FollowInv, KnownReached
  <2> QED
    BY <2>1, <2>2, <2>3 DEF FollowInv, NewsIsNew
<1>2. /\ status' = [status EXCEPT ![o] = 1]
      /\ known' = [known EXCEPT ![c] = 1]
      /\ UNCHANGED <<event, fired, poll, waiting, reply, phase, giveUps>>
  BY DEF PlaceOrder
<1>3. \A p \in Held : Order(p) # o /\ poll[p].client # c
  <2>1. \A p \in Held : Order(p) # o
    BY <1>1, HeldType DEF FollowInv, WokenMissed, Status
  <2> QED
    BY <2>1 DEF Order
<1>4. /\ Held' = Held
      /\ \A p \in Held : /\ Order(p)' = Order(p)
                         /\ status'[Order(p)] = status[Order(p)]
                         /\ known'[poll[p].client] = known[poll[p].client]
  <2>1. Held' = Held /\ \A p \in Held : Order(p)' = Order(p)
    BY <1>2 DEF Held, Order
  <2> QED
    BY <1>2, <1>3, <2>1, HeldType DEF TypeOK
<1>5. WokenMissed' /\ NoLostWakeup'
  BY <1>2, <1>4 DEF FollowInv, WokenMissed, NoLostWakeup
<1>6. OneAnswer'
  BY <1>2, <1>4 DEF FollowInv, OneAnswer
<1>7. NewsIsNew'
  BY <1>1, <1>2 DEF FollowInv, NewsIsNew, TypeOK
<1>8. KnownReached'
  <2>1. \A d \in Clients : Watched[d] \in Orders
    BY DEF LongPollAssumption
  <2>2. \A d \in Clients : known[d] \in Nat
    BY DEF TypeOK, Status
  <2>3. \A d \in Clients : Watched[d] = o => known[d] <= 0
    BY <1>1 DEF FollowInv, KnownReached
  <2> QED
    BY <1>1, <1>2, <2>1, <2>2, <2>3 DEF FollowInv, KnownReached, TypeOK
<1>9. EventFresh'
  BY <1>2 DEF FollowInv, EventFresh
<1> QED
  BY <1>5, <1>6, <1>7, <1>8, <1>9 DEF FollowInv

LEMMA FollowAdvance ==
    ASSUME LongPollAssumption, TypeOK, FollowInv, NEW o \in Orders,
           Advance(o)
    PROVE  FollowInv'
<1>1. /\ status' = [status EXCEPT ![o] = @ + 1]
      /\ event' = [event EXCEPT ![o] = @ + 1]
      /\ fired' = [fired EXCEPT ![o] = @ \cup {event[o]}]
      /\ UNCHANGED <<poll, waiting, reply, phase, known, giveUps>>
  BY DEF Advance, Signal
<1>2. /\ Held' = Held
      /\ \A p \in Held : Order(p)' = Order(p) /\ Order(p) \in Orders
                         /\ poll[p].asked \in Nat /\ poll[p].event \in Nat
  BY <1>1, HeldType DEF Held, Order, Status
<1>3. \A k \in Orders : status[k] \in Nat /\ event[k] \in Nat
  BY DEF TypeOK, Status
<1>4. /\ status'[o] = status[o] + 1 /\ event'[o] = event[o] + 1
      /\ fired'[o] = fired[o] \cup {event[o]}
      /\ \A k \in Orders \ {o} : /\ status'[k] = status[k]
                                 /\ event'[k] = event[k]
                                 /\ fired'[k] = fired[k]
  BY <1>1 DEF TypeOK
<1>5. WokenMissed' /\ NoLostWakeup'
  <2> SUFFICES ASSUME NEW p \in Held
               PROVE  /\ 1 <= poll[p].asked
                      /\ poll[p].asked <= status'[Order(p)]
                      /\ poll[p].event \in fired'[Order(p)] =>
                            poll[p].asked < status'[Order(p)]
                      /\ poll[p].event \notin fired'[Order(p)] =>
                            /\ poll[p].asked = status'[Order(p)]
                            /\ poll[p].event = event'[Order(p)]
    BY <1>1, <1>2 DEF WokenMissed, NoLostWakeup
  <2>1. /\ 1 <= poll[p].asked /\ poll[p].asked <= status[Order(p)]
        /\ poll[p].event \in fired[Order(p)] =>
              poll[p].asked < status[Order(p)]
        /\ poll[p].event \notin fired[Order(p)] =>
              /\ poll[p].asked = status[Order(p)]
              /\ poll[p].event = event[Order(p)]
    BY DEF FollowInv, WokenMissed, NoLostWakeup
  <2>2. CASE Order(p) = o
    BY <1>2, <1>3, <1>4, <2>1, <2>2
  <2>3. CASE Order(p) # o
    BY <1>2, <1>4, <2>1, <2>3
  <2> QED
    BY <2>2, <2>3
<1>6. EventFresh'
  <2> SUFFICES ASSUME NEW k \in Orders, NEW e \in fired'[k]
               PROVE  e < event'[k]
    BY DEF EventFresh
  <2>1. e \in fired[k] => e < event[k]
    BY DEF FollowInv, EventFresh
  <2>2. e \in fired[k] => e \in Nat
    BY DEF TypeOK
  <2> QED
    BY <1>3, <1>4, <2>1, <2>2
<1>7. OneAnswer' /\ NewsIsNew'
  BY <1>1, <1>2 DEF FollowInv, OneAnswer, NewsIsNew
<1>8. KnownReached'
  <2> SUFFICES ASSUME NEW c \in Clients
               PROVE  /\ known[c] <= status'[Watched[c]]
                      /\ reply[c].status <= status'[Watched[c]]
                      /\ reply[c] # NoReply => phase[c] = "waiting"
    BY <1>1 DEF KnownReached
  <2>1. /\ Watched[c] \in Orders /\ known[c] \in Nat
        /\ reply[c].status \in Nat
    BY DEF LongPollAssumption, TypeOK, Status, Reply
  <2>2. /\ known[c] <= status[Watched[c]]
        /\ reply[c].status <= status[Watched[c]]
        /\ reply[c] # NoReply => phase[c] = "waiting"
    BY DEF FollowInv, KnownReached
  <2> QED
    BY <1>3, <1>4, <2>1, <2>2
<1> QED
  BY <1>5, <1>6, <1>7, <1>8 DEF FollowInv

LEMMA FollowReceive ==
    ASSUME LongPollAssumption, TypeOK, FollowInv, NEW c \in Clients,
           Receive(c)
    PROVE  FollowInv'
<1>1. /\ reply[c] # NoReply /\ UNCHANGED server
      /\ reply' = [reply EXCEPT ![c] = NoReply]
      /\ \A d \in Clients \ {c} : phase'[d] = phase[d] /\ known'[d] = known[d]
      /\ known'[c] = known[c] \/ known'[c] = reply[c].status
  BY DEF Receive, TypeOK
<1>2. Held' = Held /\ \A p \in Held : SameCall(p) /\ Order(p)' = Order(p)
  BY <1>1 DEF Held, SameCall, Order, server
<1>3. WokenMissed' /\ NoLostWakeup'
  BY <1>1, <1>2, CallsFollow DEF FollowInv, server
<1>4. EventFresh'
  BY <1>1 DEF FollowInv, EventFresh, server
<1>5. OneAnswer'
  <2>1. \A p \in Held : poll[p].live => poll[p].client # c
    BY <1>1 DEF FollowInv, OneAnswer
  <2>2. \A p \in Held : poll[p].client \in Clients /\ poll'[p] = poll[p]
    BY <1>1, HeldType DEF server
  <2> QED
    BY <1>1, <1>2, <2>1, <2>2 DEF FollowInv, OneAnswer, TypeOK
<1>6. reply'[c] = NoReply /\ \A d \in Clients \ {c} : reply'[d] = reply[d]
  BY <1>1 DEF TypeOK
<1>7. NewsIsNew'
  BY <1>1, <1>6 DEF FollowInv, NewsIsNew, NoReply
<1>8. KnownReached'
  <2>1. Watched[c] \in Orders /\ status[Watched[c]] >= 0
    BY DEF LongPollAssumption, TypeOK, Status
  <2>2. /\ known[c] <= status[Watched[c]]
        /\ reply[c].status <= status[Watched[c]]
    BY DEF FollowInv, KnownReached
  <2>3. status' = status
    BY <1>1 DEF server
  <2>4. NoReply.status = 0
    BY DEF NoReply
  <2> QED
    BY <1>1, <1>6, <2>1, <2>2, <2>3, <2>4 DEF FollowInv, KnownReached
<1> QED
  BY <1>3, <1>4, <1>5, <1>7, <1>8 DEF FollowInv

LEMMA FollowGiveUp ==
    ASSUME LongPollAssumption, TypeOK, FollowInv, NEW c \in Clients,
           GiveUp(c)
    PROVE  FollowInv'
<1>1. \A p \in Held' : SameCall(p) /\ (poll[p].client = c => ~poll'[p].live)
  BY GiveUpKeepsCalls
<1>2. /\ UNCHANGED <<status, event, fired, known>>
      /\ reply' = [reply EXCEPT ![c] = NoReply]
      /\ \A d \in Clients \ {c} : phase'[d] = phase[d]
  BY DEF GiveUp, TypeOK
<1>3. WokenMissed' /\ NoLostWakeup'
  BY <1>1, <1>2, CallsFollow DEF FollowInv
<1>4. reply'[c] = NoReply /\ \A d \in Clients \ {c} : reply'[d] = reply[d]
  BY <1>2 DEF TypeOK
<1>5. OneAnswer'
  <2>1. \A p \in Held : poll[p].client \in Clients
    BY HeldType
  <2> QED
    BY <1>1, <1>2, <1>4, <2>1 DEF FollowInv, OneAnswer, SameCall
<1>6. EventFresh' /\ NewsIsNew'
  BY <1>2, <1>4 DEF FollowInv, EventFresh, NewsIsNew, NoReply
<1>7. KnownReached'
  <2>1. status[Watched[c]] >= 0 /\ NoReply.status = 0
    BY DEF LongPollAssumption, TypeOK, Status, NoReply
  <2> QED
    BY <1>2, <1>4, <2>1 DEF FollowInv, KnownReached
<1> QED
  BY <1>3, <1>5, <1>6, <1>7 DEF FollowInv

LEMMA FollowImmediate ==
    ASSUME LongPollAssumption, TypeOK, FollowInv, NEW c \in Clients,
           PollImmediate(c)
    PROVE  FollowInv'
<1> DEFINE now == status[Watched[c]]
<1>1. /\ now # 0 /\ known[c] # now /\ phase[c] = "ready"
      /\ reply'[c] = [changed |-> TRUE, status |-> now]
      /\ phase'[c] = "waiting"
      /\ \A d \in Clients \ {c} : phase'[d] = phase[d] /\ reply'[d] = reply[d]
      /\ UNCHANGED <<status, event, fired, poll, known>>
  BY DEF PollImmediate, TypeOK, server
<1>2. Held' = Held /\ \A p \in Held : SameCall(p) /\ Order(p)' = Order(p)
  BY <1>1 DEF Held, SameCall, Order
<1>3. WokenMissed' /\ NoLostWakeup' /\ EventFresh'
  BY <1>1, <1>2, CallsFollow DEF FollowInv, EventFresh
<1>4. OneAnswer'
  <2>1. \A p \in Held : poll[p].live => poll[p].client # c
    BY <1>1 DEF FollowInv, OneAnswer
  <2>2. \A p \in Held : poll[p].client \in Clients
    BY HeldType
  <2> QED
    BY <1>1, <1>2, <2>1, <2>2 DEF FollowInv, OneAnswer
<1>5. now \in Nat /\ known[c] \in Nat /\ known[c] <= now
  BY DEF TypeOK, Status, LongPollAssumption, FollowInv, KnownReached
<1>6. NewsIsNew' /\ KnownReached'
  BY <1>1, <1>5 DEF FollowInv, NewsIsNew, KnownReached
<1> QED
  BY <1>3, <1>4, <1>6 DEF FollowInv

LEMMA FollowStep ==
    ASSUME LongPollAssumption, TypeOK, FollowInv, [Next]_vars
    PROVE  FollowInv'
<1>1. ASSUME NEW p \in Slots, PollNotified(p) \/ PollTimesOut(p)
      PROVE  FollowInv'
  BY <1>1, FollowRespond DEF PollNotified, PollTimesOut
<1>2. ASSUME NEW p \in Slots, TimerFires(p)
      PROVE  FollowInv'
  <2>1. \A k \in Held' : SameCall(k)
    BY <1>2, TimerKeepsCalls
  <2>2. UNCHANGED <<status, event, fired, reply, phase, known>>
    BY <1>2 DEF TimerFires
  <2>3. WokenMissed' /\ NoLostWakeup'
    BY <2>1, <2>2, CallsFollow DEF FollowInv
  <2> QED
    BY <2>1, <2>2, <2>3
       DEF FollowInv, EventFresh, OneAnswer, NewsIsNew, KnownReached, SameCall
<1>3. CASE UNCHANGED vars
  BY <1>3 DEF vars, FollowInv, EventFresh, WokenMissed, OneAnswer,
              KnownReached, NoLostWakeup, NewsIsNew, Held, Order
<1> QED
  BY <1>1, <1>2, <1>3, FollowPlace, FollowImmediate, FollowHold,
     FollowReceive, FollowGiveUp, FollowAdvance DEF Next

(***************************************************************************)
(* The theorems.                                                           *)
(***************************************************************************)
Inv == TypeOK /\ WaitingIsHeld /\ FollowInv

LEMMA Invariance == Spec => []Inv
<1>1. Init => Inv
  BY LongPollAssumption, TypeInit, WaitingInit, FollowInit DEF Inv
<1>2. Inv /\ [Next]_vars => Inv'
  BY LongPollAssumption, TypeStep, WaitingStep, FollowStep DEF Inv
<1> QED
  BY <1>1, <1>2, PTL DEF Spec

(* Every reachable state is well typed.                                    *)
THEOREM TypeCorrect == Spec => []TypeOK
<1>1. Inv => TypeOK
  BY DEF Inv
<1> QED
  BY <1>1, Invariance, PTL

(* No poll is held through a change of its order: the race that            *)
(* _reset_event is there for (server.py:78-85) cannot happen.              *)
THEOREM NothingSleptThrough == Spec => []NoLostWakeup
<1>1. Inv => NoLostWakeup
  BY DEF Inv, FollowInv
<1> QED
  BY <1>1, Invariance, PTL

(* A reply with changed=True brings a later status than the client knows.  *)
THEOREM NewsIsAlwaysNew == Spec => []NewsIsNew
<1>1. Inv => NewsIsNew
  BY DEF Inv, FollowInv
<1> QED
  BY <1>1, Invariance, PTL

(* waiting_connections is the number of held polls.                        *)
THEOREM GaugeIsExact == Spec => []WaitingIsHeld
<1>1. Inv => WaitingIsHeld
  BY DEF Inv
<1> QED
  BY <1>1, Invariance, PTL

(* Long polling implements StatusWatch: what a client knows only ever      *)
(* moves forward, to a status its order has reached.                       *)
THEOREM LongPollWatches == Spec => WatchSpec
<1>1. Init => Watch!Init
  BY DEF Init, Watch!Init
<1>2. ASSUME LongPollAssumption, Inv, [Next]_vars
      PROVE  [Watch!Next]_<<status, known>>
  <2> USE <1>2
  <2>1. ASSUME NEW c \in Clients, PlaceOrder(c)
        PROVE  Watch!Next
    <3>1. Watched[c] \in Orders /\ status[Watched[c]] = 0
      BY <2>1 DEF PlaceOrder, LongPollAssumption
    <3>2. known[c] = 0
      BY <3>1 DEF Inv, FollowInv, KnownReached, TypeOK, Status
    <3>3. Watch!Move(Watched[c])
      <4>1. status[Watched[c]] < Final
        BY <3>1 DEF LongPollAssumption
      <4>2. status' = [status EXCEPT ![Watched[c]] = @ + 1]
        BY <2>1, <3>1 DEF PlaceOrder
      <4> QED
        BY <4>1, <4>2 DEF Watch!Move
    <3>4. Watch!Learn(c, 1)
      <4>1. status'[Watched[c]] = 1
        BY <2>1, <3>1 DEF PlaceOrder, Inv, TypeOK
      <4>2. known' = [known EXCEPT ![c] = 1]
        BY <2>1 DEF PlaceOrder
      <4> QED
        BY <3>2, <4>1, <4>2 DEF Watch!Learn
    <3> QED
      BY <3>3, <3>4 DEF Watch!Next
  <2>2. ASSUME NEW c \in Clients, Receive(c)
        PROVE  [Watch!Next]_<<status, known>>
    <3>1. status' = status
      BY <2>2 DEF Receive, server
    <3>2. CASE ~reply[c].changed
      BY <2>2, <3>1, <3>2 DEF Receive
    <3>3. CASE reply[c].changed
      <4> DEFINE s == reply[c].status
      <4>1. known' = [known EXCEPT ![c] = s]
        BY <2>2, <3>3 DEF Receive
      <4>2. s > known[c] /\ s <= status'[Watched[c]]
        BY <3>1, <3>3 DEF Inv, FollowInv, NewsIsNew, KnownReached
      <4>3. s \in Status /\ known[c] \in Status
        BY DEF Inv, TypeOK, Reply
      <4>4. s \in 1 .. Final
        BY <4>2, <4>3 DEF Status, LongPollAssumption
      <4> HIDE DEF s
      <4>5. Watch!Learn(c, s)
        BY <4>1, <4>2 DEF Watch!Learn
      <4> QED
        BY <3>1, <4>4, <4>5 DEF Watch!Next
    <3> QED
      BY <3>2, <3>3
  <2>3. ASSUME NEW o \in Orders, Advance(o)
        PROVE  Watch!Next
    <3>1. status[o] < Final
      BY <2>3 DEF Advance, LongPollAssumption
    <3>2. Watch!Move(o) /\ UNCHANGED known
      BY <2>3, <3>1 DEF Advance, Watch!Move
    <3> QED
      BY <3>2 DEF Watch!Next
  <2>4. ASSUME UNCHANGED <<status, known>>
        PROVE  [Watch!Next]_<<status, known>>
    BY <2>4
  <2> QED
    BY <2>1, <2>2, <2>3, <2>4
       DEF Next, vars, server, PollImmediate, PollHold, GiveUp, TimerFires,
           PollNotified, PollTimesOut
<1> QED
  BY <1>1, <1>2, LongPollAssumption, Invariance, PTL
     DEF Spec, WatchSpec, Watch!Spec
==============================================================================
