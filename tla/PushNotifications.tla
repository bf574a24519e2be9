-------------------------- MODULE PushNotifications --------------------------
(***************************************************************************)
(* Chapter 6 (src/chapters/ch06_push_notifications): server.py stores the  *)
(* push subscriptions of customers and, when an order moves on, sends one  *)
(* push to every endpoint of the order's customer; subscriber.py is a      *)
(* script that subscribes, orders, and advances its order to the end.      *)
(* No handler suspends.  An order's customer is made with the order, so    *)
(* that customer's id is known to nobody before: the model names it by the *)
(* order.  Clients learn it from /notify.  The push service may refuse a   *)
(* push, or not be reached.                                                *)
(***************************************************************************)
EXTENDS Integers, Sequences, SequencesExt, Lists

CONSTANTS
    Endpoints,     \* that browsers other than the script's have
    DemoEndpoint,  \* the script's mock subscription
    DemoCustomer,  \* the customer id the script makes up
    None,
    Custom,        \* the kind of a push that is not about a status
    FinalStatus,   \* last position in ORDER_FLOW
    Limit,         \* most bytes of a payload (4096)
    Margin,        \* cut in addition (20)
    Notes,         \* custom notifications: [rest, body, width]
    MaxOrders, MaxNotes, MaxPushes \* bounds of the model

ASSUME PushAssumption ==
    /\ DemoEndpoint \notin Endpoints
    /\ DemoCustomer \notin Nat /\ Custom \notin Nat /\ None \notin Nat
    /\ FinalStatus \in Nat \ {0} /\ MaxOrders \in Nat \ {0} /\ {MaxNotes, MaxPushes} \subseteq Nat
    /\ Limit \in Nat \ {0, 1} /\ Margin \in Nat \ {0, 1, 2}
    /\ Notes \subseteq [rest : Nat, body : Nat, width : Nat]

VARIABLES
    mode,     \* "real", or "simulated" when pywebpush or the key is missing
    status,   \* status[o]: the orders' positions in ORDER_FLOW
    subs,     \* subscriptions: per customer, the endpoints in order
    pushLog,  \* push_log
    script    \* subscriber.py: [at, order]

(* History, read by the properties only.                                   *)
VARIABLES
    joined,    \* joined[o][e]: o's status when e was subscribed for o
    noted     \* the custom notifications: [order, to, plain]

pushVars == <<mode, status, subs, pushLog, script, joined, noted>>

-----------------------------------------------------------------------------
OrderIds == 1 .. MaxOrders
Customers == OrderIds \union {DemoCustomer}
AllEndpoints == Endpoints \union {DemoEndpoint}

PushInit ==
    /\ mode \in {"real", "simulated"}
    /\ status = <<>>
    /\ subs = [c \in Customers |-> <<>>]
    /\ pushLog = <<>>
    /\ script = [at |-> "subscribe", order |-> None]
    /\ joined = [o \in OrderIds |-> [e \in AllEndpoints |-> None]]
    /\ noted = <<>>

\* Python's body[:k]: k counts from the end when it is negative.
PrefixLen(n, k) == IF k >= 0 THEN (IF k < n THEN k ELSE n) ELSE (IF n + k > 0 THEN n + k ELSE 0)

\* _build_push_payload: bytes of the payload for a body of n characters that
\* take w bytes each in JSON (an accented letter takes 6, as \u00e9), and a
\* rest (title, ids, braces) of r bytes.  The excess is counted in bytes, and
\* cut off in characters.
PayloadSize(r, n, w) ==
    IF r + n * w <= Limit THEN r + n * w
    ELSE LET excess == r + n * w - Limit + Margin
         IN  r + PrefixLen(n, n - excess) * w + 3

\* STATUS_NOTIFICATIONS has a short text for every status of ORDER_FLOW.
StatusSize == PayloadSize(1, 1, 1)

\* _send_push: what comes of one.  The errors 401, 403, 410, 429 and all
\* others get an explanation each in the log, and are treated alike: the
\* endpoint stays, even when it is gone for good (410).
Outcomes == IF mode = "simulated" THEN {"simulated"} ELSE {"sent", "error"}

\* _send_push_to_customer: the endpoints of the order's customer in turn,
\* whatever came of the ones before.
SendPushTo(endpoints, o, kind, size) ==
    /\ Len(pushLog) + Len(endpoints) <= MaxPushes
    /\ \E outcome \in [DOMAIN endpoints -> Outcomes] :
          pushLog' = pushLog \o [i \in DOMAIN endpoints |->
              [order |-> o, endpoint |-> endpoints[i], kind |-> kind,
               size |-> size, status |-> outcome[i]]]

\* Mutant: an endpoint is stored again when it comes again.
SubscribedAgain(c, e) == Append(subs[c], e)

\* "Avoid duplicate endpoints": the stored keys stay those of the first time.
Subscribed(c, e) == IF e \in ToSet(subs[c]) THEN subs[c] ELSE Append(subs[c], e)

SubscribeAs(c, e) ==
    /\ subs' = [subs EXCEPT ![c] = Subscribed(c, e)]
    /\ joined' = IF c \in DOMAIN status /\ joined[c][e] = None
                THEN [joined EXCEPT ![c][e] = status[c]] ELSE joined

\* subscribe, for a customer whose id the client has seen.  (Without the keys
\* p256dh and auth: 422, and nothing changes.)
Subscribe(o, e) ==
    /\ o \in DOMAIN status
    /\ SubscribeAs(o, e)
    /\ UNCHANGED <<mode, status, pushLog, script, noted>>

\* place_order pushes to the new customer's endpoints: there are none.
PlacesOrder ==
    LET o == Len(status) + 1 IN
    /\ o \in OrderIds
    /\ status' = Append(status, 0)
    /\ SendPushTo(subs[o], o, 0, StatusSize)

PlaceNewOrder ==
    /\ PlacesOrder
    /\ UNCHANGED <<mode, subs, script, joined, noted>>

\* advance_order.  At the last status advance_status() raises: 500.
Advances(o) ==
    /\ status[o] < FinalStatus
    /\ status' = [status EXCEPT ![o] = @ + 1]
    /\ SendPushTo(subs[o], o, status[o] + 1, StatusSize)

AdvanceOrder(o) ==
    /\ o \in DOMAIN status
    /\ Advances(o)
    /\ UNCHANGED <<mode, subs, script, joined, noted>>

\* send_custom_notification.
Notify(o, note) ==
    /\ o \in DOMAIN status
    /\ Len(noted) < MaxNotes
    /\ SendPushTo(subs[o], o, Custom, PayloadSize(note.rest, note.body, note.width))
    /\ noted' = Append(noted, [order |-> o, to |-> ToSet(subs[o]),
                               plain |-> note.width = 1 /\ note.rest + Margin <= Limit])
    /\ UNCHANGED <<mode, status, subs, script, joined>>

\* subscriber.py: it subscribes under an id of its own ...
ScriptSubscribes ==
    /\ script.at = "subscribe"
    /\ SubscribeAs(DemoCustomer, DemoEndpoint)
    /\ script' = [script EXCEPT !.at = "order"]
    /\ UNCHANGED <<mode, status, pushLog, noted>>

\* ... places an order ...
ScriptOrders ==
    /\ script.at = "order"
    /\ PlacesOrder
    /\ script' = [at |-> "advance", order |-> Len(status) + 1]
    /\ UNCHANGED <<mode, subs, joined, noted>>

\* ... and advances it, until it gets 500: somebody else may advance it, too.
ScriptAdvances ==
    /\ script.at = "advance"
    /\ IF status[script.order] < FinalStatus
       THEN Advances(script.order) /\ UNCHANGED script
       ELSE script' = [script EXCEPT !.at = "log"] /\ UNCHANGED <<status, pushLog>>
    /\ UNCHANGED <<mode, subs, joined, noted>>

PushNext ==
    \/ PlaceNewOrder
    \/ \E o \in OrderIds :
        \/ AdvanceOrder(o)
        \/ \E e \in Endpoints : Subscribe(o, e)
        \/ \E note \in Notes : Notify(o, note)
    \/ ScriptSubscribes \/ ScriptOrders \/ ScriptAdvances

PushSpec == PushInit /\ [][PushNext]_pushVars
-----------------------------------------------------------------------------
PushTypeOK ==
    /\ mode \in {"real", "simulated"}
    /\ status \in Seq(0 .. FinalStatus) /\ Len(status) <= MaxOrders
    /\ subs \in [Customers -> Seq(AllEndpoints)]
    /\ script \in [at : {"subscribe", "order", "advance", "log"}, order : OrderIds \union {None}]
    /\ joined \in [OrderIds -> [AllEndpoints -> (0 .. FinalStatus) \union {None}]]

\* The pushes that e got for order o, of a kind: a status, or Custom.
Pushes(o, e) == Keep(pushLog, {p \in ToSet(pushLog) : p.order = o /\ p.endpoint = e})
StatusPushes(o, e) == Keep(Pushes(o, e), {p \in ToSet(pushLog) : p.kind # Custom})

\* From its subscription on, an endpoint is sent every status of the order
\* once and in order, whatever became of earlier pushes and other endpoints;
\* nobody else is sent anything.
EachStatusOnce ==
    \A o \in DOMAIN status, e \in AllEndpoints :
        IF joined[o][e] = None THEN Pushes(o, e) = <<>>
        ELSE LET sent == StatusPushes(o, e) IN
             /\ Len(sent) = status[o] - joined[o][e]
             /\ \A i \in DOMAIN sent : sent[i].kind = joined[o][e] + i

\* So the script's order arrives, and the script hears nothing of it.
ScriptHearsNothing ==
    /\ script.at = "log" => status[script.order] = FinalStatus
    /\ \A i \in DOMAIN pushLog : pushLog[i].endpoint # DemoEndpoint

\* A payload fits when its body is plain ASCII and what is not its body leaves
\* room for the margin.
PayloadsFit ==
    (\A n \in DOMAIN noted : noted[n].plain) => \A i \in DOMAIN pushLog : pushLog[i].size <= Limit

\* A custom notification goes to all that are subscribed to its order.
NotesReachAll ==
    \A o \in DOMAIN status, e \in AllEndpoints :
        Len(Keep(Pushes(o, e), {p \in ToSet(pushLog) : p.kind = Custom}))
            = Len(Keep(noted, {n \in ToSet(noted) : n.order = o /\ e \in n.to}))

\* "Payload must be under 4096 bytes (the Web Push limit)." (server.py:201):
\* the code cuts every longer one so that it fits.
UnderLimit == \A i \in DOMAIN pushLog : pushLog[i].size <= Limit

PushFollowsOrder == EachStatusOnce /\ NotesReachAll /\ ScriptHearsNothing /\ PayloadsFit
=============================================================================
