---------------------------- MODULE ShortPolling ----------------------------
(***************************************************************************)
(* Chapter 2 (src/chapters/ch02_short_polling): server.py answers GET      *)
(* /orders/{id} at once and counts in its PollTracker which answers told   *)
(* something new, per client address and order; client_poller.py places    *)
(* an order, polls it every two seconds and counts for itself.  Clients    *)
(* behind one address share the tracker's memory.  Handlers do not suspend *)
(* (the tracker's lock is never contended); requests of different clients  *)
(* and the order's progress interleave.                                    *)
(***************************************************************************)
EXTENDS Naturals, Sequences, SequencesExt

CONSTANTS
    Pollers,      \* processes that run client_poller.py
    Addresses,
    AddressOf,    \* AddressOf[p]: the address the server sees p at
    MaxPolls,     \* of a poller (200)
    LastStatus,   \* "delivered", the last position in ORDER_FLOW
    Unseen,
    MaxPeeks, MaxStops \* bounds of the model: other reads, server restarts

ASSUME PollingAssumption ==
    /\ AddressOf \in [Pollers -> Addresses]
    /\ MaxPolls \in Nat \ {0} /\ LastStatus \in Nat /\ Unseen \notin Nat
    /\ {MaxPeeks, MaxStops} \subseteq Nat

VARIABLES
    orderStatus, \* orderStatus[p]: of the order p placed, Unseen if none, or
                 \* when the server has lost it
    lastSeen,    \* _last_seen: per address and order
    tracked,     \* the tracker's [total, useful, wasted]
    poller       \* poller[p]: [at, last, polls, total, useful, wasted, answer]

(* History, read by the properties only.                                   *)
VARIABLES
    told,        \* told[a][p]: the statuses of p's order told to address a
    heard,       \* heard[p]: those p has read, in order
    peeks, stops

pollVars == <<orderStatus, lastSeen, tracked, poller, told, heard, peeks, stops>>

-----------------------------------------------------------------------------
NoCounts == [total |-> 0, useful |-> 0, wasted |-> 0]
NothingSeen == [a \in Addresses |-> [p \in Pollers |-> Unseen]]

PollInit ==
    /\ orderStatus = [p \in Pollers |-> Unseen]
    /\ lastSeen = NothingSeen
    /\ tracked = NoCounts
    /\ poller = [p \in Pollers |-> [at |-> "start", last |-> 0, polls |-> 0, answer |-> Unseen,
                                    total |-> 0, useful |-> 0, wasted |-> 0]]
    /\ told = [a \in Addresses |-> [p \in Pollers |-> {}]]
    /\ heard = [p \in Pollers |-> <<>>]
    /\ peeks = 0 /\ stops = 0

\* place_order, and step 1 of the client; each order is its poller's.
Place(p) ==
    /\ poller[p].at = "start"
    /\ orderStatus' = [orderStatus EXCEPT ![p] = 0]
    /\ poller' = [poller EXCEPT ![p].at = "sleeping"]
    /\ UNCHANGED <<lastSeen, tracked, told, heard, peeks, stops>>

\* advance_order: 404 without the order, 409 at its last status.
AdvanceStatus(p) ==
    /\ orderStatus[p] # Unseen
    /\ orderStatus[p] < LastStatus
    /\ orderStatus' = [orderStatus EXCEPT ![p] = @ + 1]
    /\ UNCHANGED <<lastSeen, tracked, poller, told, heard, peeks, stops>>

\* Mutant: the order alone is the key, whoever asks.
SeenByAny(a, p) ==
    [b \in Addresses |-> [q \in Pollers |-> IF q = p THEN orderStatus[p] ELSE lastSeen[b][q]]]

\* record_poll notes what this address has been told of the order.
Seen(a, p) == [lastSeen EXCEPT ![a][p] = orderStatus[p]]

Counted(counts, new) ==
    [counts EXCEPT !.total = @ + 1,
                   !.useful = IF new THEN @ + 1 ELSE @,
                   !.wasted = IF new THEN @ ELSE @ + 1]

\* get_order for a client at address a: 404 is not tracked.
GetOrderStatus(a, p) ==
    IF orderStatus[p] = Unseen THEN UNCHANGED <<lastSeen, tracked, told>>
    ELSE /\ tracked' = Counted(tracked, lastSeen[a][p] # orderStatus[p])
         /\ lastSeen' = Seen(a, p)
         /\ told' = [told EXCEPT ![a][p] = @ \union {orderStatus[p]}]

\* The poller has slept and asks; the server answers.
Ask(p) ==
    /\ poller[p].at = "sleeping"
    /\ GetOrderStatus(AddressOf[p], p)
    /\ poller' = [poller EXCEPT ![p].at = "answered", ![p].polls = @ + 1, ![p].answer = orderStatus[p]]
    /\ UNCHANGED <<orderStatus, heard, peeks, stops>>

\* The answer arrives: another than 200 uses up a poll and is not counted.
ReadAnswer(p) ==
    LET q == poller[p]
        goOn == IF q.answer = LastStatus \/ q.polls = MaxPolls THEN "ended" ELSE "sleeping"
    IN
    /\ q.at = "answered"
    /\ IF q.answer = Unseen
       THEN /\ poller' = [poller EXCEPT ![p].at = goOn]
            /\ UNCHANGED heard
       ELSE /\ poller' = [poller EXCEPT ![p] =
                  [Counted(q, q.answer # q.last) EXCEPT !.at = goOn, !.last = q.answer]]
            /\ heard' = [heard EXCEPT ![p] = Append(@, q.answer)]
    /\ UNCHANGED <<orderStatus, lastSeen, tracked, told, peeks, stops>>

\* No answer in ten seconds, or no connection: httpx raises, and main() with it.
Raise(p) ==
    /\ poller[p].at \in {"sleeping", "answered"}
    /\ poller' = [poller EXCEPT ![p].at = "raised"]
    /\ UNCHANGED <<orderStatus, lastSeen, tracked, told, heard, peeks, stops>>

\* Somebody else reads the order, from any address.
Peek(a, p) ==
    /\ peeks < MaxPeeks
    /\ orderStatus[p] # Unseen
    /\ GetOrderStatus(a, p)
    /\ peeks' = peeks + 1
    /\ UNCHANGED <<orderStatus, poller, heard, stops>>

\* The server is started again: orders and counts are in its memory.
StopServer ==
    /\ stops < MaxStops
    /\ stops' = stops + 1
    /\ orderStatus' = [p \in Pollers |-> Unseen]
    /\ lastSeen' = NothingSeen
    /\ tracked' = NoCounts
    /\ told' = [a \in Addresses |-> [p \in Pollers |-> {}]]
    /\ UNCHANGED <<poller, heard, peeks>>

PollNext ==
    \/ \E p \in Pollers :
        \/ Place(p) \/ AdvanceStatus(p) \/ Ask(p) \/ ReadAnswer(p) \/ Raise(p)
        \/ \E a \in Addresses : Peek(a, p)
    \/ StopServer

PollSpec == PollInit /\ [][PollNext]_pollVars
-----------------------------------------------------------------------------
PollTypeOK ==
    /\ orderStatus \in [Pollers -> (0 .. LastStatus) \union {Unseen}]
    /\ lastSeen \in [Addresses -> [Pollers -> (0 .. LastStatus) \union {Unseen}]]
    /\ tracked \in [total : Nat, useful : Nat, wasted : Nat]
    /\ \A p \in Pollers :
          /\ poller[p].at \in {"start", "sleeping", "answered", "ended", "raised"}
          /\ poller[p].polls \in 0 .. MaxPolls
    /\ heard \in [Pollers -> Seq(0 .. LastStatus)]

\* simulate_order (metrics.py): a poll is useful if more changes have happened
\* by then than at the last useful one, and none (-1) were known before.
SimulatedUseful(statuses) ==
    Cardinality({k \in DOMAIN statuses : \A i \in 1 .. k - 1 : statuses[i] < statuses[k]})

\* The tracker calls useful the first answer with each status that an address
\* is told of an order, whoever is behind that address.
UsefulIsNews ==
    /\ tracked.useful = Cardinality(
          {t \in Addresses \X Pollers \X (0 .. LastStatus) : t[3] \in told[t[1]][t[2]]})
    /\ tracked.total = tracked.useful + tracked.wasted

\* What a poller counts for itself differs by the first answer: the server
\* takes it for news, and the poller knows already that its order is placed.
OwnCount(p) ==
    LET first == IF heard[p] # <<>> /\ heard[p][1] = 0 THEN 1 ELSE 0 IN
    /\ poller[p].total = Len(heard[p])
    /\ poller[p].useful = SimulatedUseful(heard[p]) - first
    /\ peeks = 0 /\ stops = 0 /\ poller[p].at \in {"sleeping", "ended"}
          => Cardinality(told[AddressOf[p]][p]) = SimulatedUseful(heard[p])

\* A poller ends with its order delivered, or with all its polls used; it
\* never hears a status again that it has left.
EndsKnowing(p) ==
    /\ poller[p].at = "ended" => poller[p].last = LastStatus \/ poller[p].polls = MaxPolls
    /\ \A i, j \in DOMAIN heard[p] : i < j => heard[p][i] <= heard[p][j]

PollsAccounted == UsefulIsNews /\ \A p \in Pollers : OwnCount(p) /\ EndsKnowing(p)
=============================================================================
