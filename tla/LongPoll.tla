------------------------------ MODULE LongPoll -------------------------------
(***************************************************************************)
(* Long polling of chapter 3: the order server                             *)
(* (src/chapters/ch03_long_polling/server.py), the client loop (client.py) *)
(* and the order store they share (src/shared/db.py, models.py).           *)
(*                                                                         *)
(* A handler runs on one event loop and suspends only in                   *)
(* wait_for(event.wait(), timeout): a step of the server is a whole        *)
(* handler, or the part of poll_order before or after that wait.  A reply  *)
(* travels to its client in a step of its own.  The counters of _stats     *)
(* that only ever grow are left out; waiting_connections is kept.          *)
(***************************************************************************)
EXTENDS Naturals, FiniteSets

CONSTANTS
    Orders,
    Clients,
    Watched,      \* Watched[c]: the order client c follows
    Final,        \* length of ORDER_FLOW
    Slots,        \* identities for the polls the server holds; enough of
                  \* them for one poll per client and one per give-up
    MaxGiveUps    \* bound of the model: client-side timeouts in a behaviour

ASSUME LongPollAssumption ==
    /\ Watched \in [Clients -> Orders]
    /\ Final \in Nat \ {0}
    /\ MaxGiveUps \in Nat
    /\ IsFiniteSet(Slots)

VARIABLES
    status,    \* order.status in the db: its place in ORDER_FLOW, 0: no order
    event,     \* event[o]: which asyncio.Event _order_events[o] holds now
    fired,     \* fired[o]: the events of o that were set
    poll,      \* poll[p]: a poll_order call suspended in wait_for
    waiting,   \* _stats["waiting_connections"]
    reply,     \* reply[c]: the response on its way to c
    phase,     \* where the loop of c stands
    known,     \* last_status of c, 0: None
    giveUps

vars == <<status, event, fired, poll, waiting, reply, phase, known, giveUps>>
server == <<status, event, fired, poll, waiting>>

-----------------------------------------------------------------------------
NoPoll == [held |-> FALSE]
NoReply == [changed |-> FALSE, status |-> 0]
Held == {p \in Slots : poll[p].held}
Order(p) == Watched[poll[p].client]

Init ==
    /\ status = [o \in Orders |-> 0]
    /\ event = [o \in Orders |-> 0]
    /\ fired = [o \in Orders |-> {}]
    /\ poll = [p \in Slots |-> NoPoll]
    /\ waiting = 0
    /\ reply = [c \in Clients |-> NoReply]
    /\ phase = [c \in Clients |-> "ready"]
    /\ known = [c \in Clients |-> 0]
    /\ giveUps = 0

-----------------------------------------------------------------------------
(* POST /orders; the client that places it knows its status from then on.  *)
PlaceOrder(c) ==
    /\ status[Watched[c]] = 0
    /\ status' = [status EXCEPT ![Watched[c]] = 1]
    /\ known' = [known EXCEPT ![c] = 1]
    /\ UNCHANGED <<event, fired, poll, waiting, reply, phase, giveUps>>

(* A poll whose last_status is not the current one is answered at once.    *)
PollImmediate(c) ==
    LET now == status[Watched[c]]
    IN  /\ phase[c] = "ready"
        /\ now # 0 /\ known[c] # now
        /\ reply' = [reply EXCEPT ![c] = [changed |-> TRUE, status |-> now]]
        /\ phase' = [phase EXCEPT ![c] = "waiting"]
        /\ UNCHANGED <<server, known, giveUps>>

(* Any other poll is held on the order's event of the moment.              *)
PollHold(c) ==
    LET o == Watched[c]
    IN  /\ phase[c] = "ready"
        /\ status[o] # 0 /\ known[c] = status[o]
        /\ Slots \ Held # {}
        /\ poll' = [poll EXCEPT ![CHOOSE p \in Slots \ Held : TRUE] =
              [held |-> TRUE, client |-> c, asked |-> known[c],
               event |-> event[o], expired |-> FALSE, live |-> TRUE]]
        /\ waiting' = waiting + 1
        /\ phase' = [phase EXCEPT ![c] = "waiting"]
        /\ UNCHANGED <<status, event, fired, reply, known, giveUps>>

(* Mutants: the event is never replaced; it is replaced before it is set.  *)
SignalOnly(o) ==
    /\ fired' = [fired EXCEPT ![o] = @ \cup {event[o]}]
    /\ UNCHANGED event
SignalFresh(o) ==
    /\ event' = [event EXCEPT ![o] = @ + 1]
    /\ fired' = [fired EXCEPT ![o] = @ \cup {event[o] + 1}]

(* event.set() and _reset_event.                                           *)
Signal(o) ==
    /\ fired' = [fired EXCEPT ![o] = @ \cup {event[o]}]
    /\ event' = [event EXCEPT ![o] = @ + 1]

(* Mutant: the flow starts over.                                           *)
AdvanceWraps(o) ==
    /\ status[o] # 0
    /\ event[o] <= Final
    /\ status' = [status EXCEPT ![o] = (@ % Final) + 1]
    /\ Signal(o)
    /\ UNCHANGED <<poll, waiting, reply, phase, known, giveUps>>

(* POST /orders/{id}/advance; at the final status the ValueError of        *)
(* advance_status ends the handler before it changes anything.             *)
Advance(o) ==
    /\ status[o] \in 1 .. Final - 1
    /\ status' = [status EXCEPT ![o] = @ + 1]
    /\ Signal(o)
    /\ UNCHANGED <<poll, waiting, reply, phase, known, giveUps>>

-----------------------------------------------------------------------------
(* wait_for's timer fires: the suspended call is cancelled, and goes on    *)
(* with the timeout when it next runs, even if the event was set in the    *)
(* meantime.                                                               *)
TimerFires(p) ==
    /\ p \in Held /\ ~poll[p].expired
    /\ poll' = [poll EXCEPT ![p].expired = TRUE]
    /\ UNCHANGED <<status, event, fired, waiting, reply, phase, known, giveUps>>

(* The response reaches its client, unless that client has given up.       *)
Respond(p, changed) ==
    /\ reply' = IF poll[p].live
                THEN [reply EXCEPT ![poll[p].client] =
                        [changed |-> changed, status |-> status[Order(p)]]]
                ELSE reply
    /\ poll' = [poll EXCEPT ![p] = NoPoll]

(* The event was set: the order is read again.                             *)
PollNotified(p) ==
    /\ p \in Held /\ ~poll[p].expired
    /\ poll[p].event \in fired[Order(p)]
    /\ Respond(p, TRUE)
    /\ waiting' = waiting - 1
    /\ UNCHANGED <<status, event, fired, phase, known, giveUps>>

(* Mutant: the timeout branch forgets the gauge.                           *)
PollTimesOutUncounted(p) ==
    /\ p \in Held /\ poll[p].expired
    /\ Respond(p, FALSE)
    /\ UNCHANGED <<status, event, fired, waiting, phase, known, giveUps>>

(* The timeout branch reports the status of the same, shared order object. *)
PollTimesOut(p) ==
    /\ p \in Held /\ poll[p].expired
    /\ Respond(p, FALSE)
    /\ waiting' = waiting - 1
    /\ UNCHANGED <<status, event, fired, phase, known, giveUps>>

-----------------------------------------------------------------------------
(* Mutant: a reply without news ends the loop.                             *)
ReceiveStops(c) ==
    /\ phase[c] = "waiting" /\ reply[c] # NoReply
    /\ known' = IF reply[c].changed THEN [known EXCEPT ![c] = reply[c].status]
                ELSE known
    /\ phase' = [phase EXCEPT ![c] =
          IF reply[c].changed /\ reply[c].status < Final THEN "ready"
          ELSE "done"]
    /\ reply' = [reply EXCEPT ![c] = NoReply]
    /\ UNCHANGED <<server, giveUps>>

(* The client's loop: changed replies move last_status, and the final one  *)
(* ends the loop; after any other it polls again.                          *)
Receive(c) ==
    LET news == reply[c].changed
    IN  /\ phase[c] = "waiting" /\ reply[c] # NoReply
        /\ known' = IF news THEN [known EXCEPT ![c] = reply[c].status]
                    ELSE known
        /\ phase' = [phase EXCEPT ![c] =
              IF news /\ reply[c].status = Final THEN "done" ELSE "ready"]
        /\ reply' = [reply EXCEPT ![c] = NoReply]
        /\ UNCHANGED <<server, giveUps>>

(* httpx.ReadTimeout: the client polls again with the status it has.  The  *)
(* server is not told; its held call runs on, and its reply is lost.       *)
GiveUp(c) ==
    /\ phase[c] = "waiting"
    /\ giveUps < MaxGiveUps
    /\ giveUps' = giveUps + 1
    /\ phase' = [phase EXCEPT ![c] = "ready"]
    /\ reply' = [reply EXCEPT ![c] = NoReply]
    /\ poll' = [p \in Slots |->
                  IF p \in Held /\ poll[p].client = c
                  THEN [poll[p] EXCEPT !.live = FALSE] ELSE poll[p]]
    /\ UNCHANGED <<status, event, fired, waiting, known>>

-----------------------------------------------------------------------------
Next ==
    \/ \E c \in Clients :
          \/ PlaceOrder(c)
          \/ PollImmediate(c)
          \/ PollHold(c)
          \/ Receive(c)
          \/ GiveUp(c)
    \/ \E o \in Orders : Advance(o)
    \/ \E p \in Slots :
          \/ TimerFires(p)
          \/ PollNotified(p)
          \/ PollTimesOut(p)

Spec == Init /\ [][Next]_vars

(* The event loop runs a call that was woken or timed out, the client's    *)
(* loop goes on by itself, and the network delivers.  Kitchens need not    *)
(* advance orders, and the timer need not be early or late.                *)
Fairness ==
    /\ \A p \in Slots : WF_vars(PollNotified(p) \/ PollTimesOut(p))
    /\ \A c \in Clients :
          WF_vars(PollImmediate(c) \/ PollHold(c)) /\ WF_vars(Receive(c))

-----------------------------------------------------------------------------
Status == 0 .. Final
HeldPoll == [held : {TRUE}, client : Clients, asked : Status, event : Nat,
             expired : BOOLEAN, live : BOOLEAN]
Reply == [changed : BOOLEAN, status : Status]

(* Types.                                                                  *)
TypeOK ==
    /\ status \in [Orders -> Status]
    /\ event \in [Orders -> Nat]
    /\ fired \in [Orders -> SUBSET Nat]
    /\ poll \in [Slots -> [held : {FALSE}] \cup HeldPoll]
    /\ waiting \in Nat
    /\ reply \in [Clients -> Reply]
    /\ phase \in [Clients -> {"ready", "waiting", "done"}]
    /\ known \in [Clients -> Status]
    /\ giveUps \in 0 .. MaxGiveUps

(* No lost wake-up: a held poll that has not been woken is waiting for the *)
(* change after the status its client knows; it never sleeps through one   *)
(* (the race _reset_event is there to avoid, server.py:79-84).             *)
NoLostWakeup ==
    \A p \in Held : poll[p].event \notin fired[Order(p)] =>
        /\ poll[p].asked = status[Order(p)]
        /\ poll[p].event = event[Order(p)]

(* The gauge counts the held polls, those of clients that are gone         *)
(* included (server.py:299, 317, 337).                                     *)
WaitingIsHeld == waiting = Cardinality(Held)

(* "changed=True means the status differs from what the client last saw"   *)
(* (server.py:133): news is later than what the client knows.              *)
NewsIsNew ==
    \A c \in Clients : reply[c].changed => reply[c].status > known[c]

(* A client that keeps polling ends up knowing the status its order ends   *)
(* up in, whatever timeouts and lost replies come between ("No update is   *)
(* lost", README.md:343).                                                  *)
CatchesUp == <>[](\A c \in Clients : known[c] = status[Watched[c]])

(* What the proofs need besides: the event that new polls are held on was  *)
(* not set, and a client has at most one answer to come.                   *)
EventFresh == \A o \in Orders : \A e \in fired[o] : e < event[o]

WokenMissed ==
    \A p \in Held :
        /\ 1 <= poll[p].asked /\ poll[p].asked <= status[Order(p)]
        /\ poll[p].event \in fired[Order(p)] =>
              poll[p].asked < status[Order(p)]

OneAnswer ==
    \A p \in Held : poll[p].live =>
        /\ phase[poll[p].client] = "waiting"
        /\ reply[poll[p].client] = NoReply
        /\ known[poll[p].client] = poll[p].asked
        /\ \A q \in Held :
              poll[q].live /\ poll[q].client = poll[p].client => q = p

KnownReached ==
    \A c \in Clients :
        /\ known[c] <= status[Watched[c]]
        /\ reply[c].status <= status[Watched[c]]
        /\ reply[c] # NoReply => phase[c] = "waiting"

FollowInv ==
    /\ EventFresh /\ WokenMissed /\ OneAnswer /\ KnownReached
    /\ NoLostWakeup /\ NewsIsNew

-----------------------------------------------------------------------------
(* Long polling delivers what following an order promises.                 *)
Watch == INSTANCE StatusWatch
WatchSpec == Watch!Spec
==============================================================================
