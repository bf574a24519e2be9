------------------------------ MODULE Sessions ------------------------------
(***************************************************************************)
(* The two APIs of chapter 8 (src/chapters/ch08_stateful_vs_stateless),    *)
(* each run by several processes behind a load balancer that may send a    *)
(* request to any of them, as scaling_demo.py does: stateful_session.py    *)
(* keeps sessions in the memory of the process that created them, and      *)
(* stateless_api.py signs the identity into a token (JWT).  Customers and  *)
(* orders are in the memory of a process in both, and a process may be     *)
(* terminated and started again at any time.  Handlers do not suspend.     *)
(***************************************************************************)
EXTENDS Naturals, Sequences

CONSTANTS
    Servers,
    Lifetime,     \* of a session or token (3600 s)
    MaxLogins, MaxPlaced, MaxRestarts, MaxNow \* bounds of the model

ASSUME SessionsAssumption ==
    {Lifetime, MaxLogins, MaxPlaced, MaxRestarts, MaxNow} \subseteq Nat

VARIABLES
    style,      \* which of the two APIs is run
    now,
    issued,     \* the credentials given out by login, in order
    sessions,   \* sessions[s]: credentials in the session store of s
    customers,  \* customers[s]: customers s knows, named by their credential
    placed,     \* all orders, in order
    db,         \* db[s]: the orders in the memory of s
    reply       \* the answer to the last request

(* History, read by the properties only.                                   *)
VARIABLE starts \* starts[s]: how often s has been started again

sessionVars == <<style, now, issued, sessions, customers, placed, db, reply, starts>>

-----------------------------------------------------------------------------
NoReply == [op |-> "none"]

SessionsInit ==
    /\ style \in {"session", "jwt"}
    /\ now = 0
    /\ issued = <<>>
    /\ sessions = [s \in Servers |-> {}]
    /\ customers = [s \in Servers |-> {}]
    /\ placed = <<>>
    /\ db = [s \in Servers |-> {}]
    /\ reply = NoReply
    /\ starts = [s \in Servers |-> 0]

\* What a session or token says; the token says it under a signature.
Credential(s) == [server |-> s, start |-> starts[s], exp |-> now + Lifetime]

\* login: a new customer each time, and a session or a token for it.
Login(s) ==
    LET i == Len(issued) + 1 IN
    /\ Len(issued) < MaxLogins
    /\ issued' = Append(issued, Credential(s))
    /\ customers' = [customers EXCEPT ![s] = @ \union {i}]
    /\ sessions' = IF style = "session" THEN [sessions EXCEPT ![s] = @ \union {i}] ELSE sessions
    /\ reply' = NoReply
    /\ UNCHANGED <<style, now, placed, db, starts>>

\* verify_jwt: the signature needs only the secret that all servers share.
Verified(i) == ~ issued[i].exp < now

\* Mutant: the expired session is found again before it is deleted.
HasSessionStill(s, i) == i \in sessions[s]

\* get_session: the session is in this process and has not expired.
HasSession(s, i) == i \in sessions[s] /\ ~ issued[i].exp < now

Recognised(s, i) == IF style = "jwt" THEN Verified(i) ELSE HasSession(s, i)

\* get_session deletes a session it finds expired.
AfterLookup(s, i) ==
    IF style = "session" /\ issued[i].exp < now
    THEN [sessions EXCEPT ![s] = @ \ {i}] ELSE sessions

Refuse(s, i, op) ==
    /\ ~ Recognised(s, i)
    /\ sessions' = AfterLookup(s, i)
    /\ reply' = [op |-> op, server |-> s, cred |-> i, status |-> 401]
    /\ UNCHANGED <<style, now, issued, customers, placed, db, starts>>

GetMe(s, i) ==
    /\ Recognised(s, i)
    /\ reply' = [op |-> "me", server |-> s, cred |-> i, status |-> 200]
    /\ UNCHANGED <<style, now, issued, sessions, customers, placed, db, starts>>

\* place_order: a customer the process does not know is made up from the
\* credential, which carries no address; it is not stored.
PlaceOrder(s, i) ==
    /\ Recognised(s, i)
    /\ Len(placed) < MaxPlaced
    /\ placed' = Append(placed, [customer |-> i, hasAddress |-> i \in customers[s]])
    /\ db' = [db EXCEPT ![s] = @ \union {Len(placed) + 1}]
    /\ reply' = [op |-> "place", server |-> s, cred |-> i, status |-> 200]
    /\ UNCHANGED <<style, now, issued, sessions, customers, starts>>

\* place_order with a restaurant or an item that does not exist: 404 or 422.
PlaceUnknown(s, i) ==
    /\ Recognised(s, i)
    /\ \E status \in {404, 422} :
          reply' = [op |-> "place", server |-> s, cred |-> i, status |-> status]
    /\ UNCHANGED <<style, now, issued, sessions, customers, placed, db, starts>>

GetOrder(s, i, o) ==
    /\ Recognised(s, i)
    /\ reply' = [op |-> "order", server |-> s, cred |-> i, order |-> o,
                 status |-> IF o \in db[s] THEN 200 ELSE 404]
    /\ UNCHANGED <<style, now, issued, sessions, customers, placed, db, starts>>

\* A process is terminated and started again: its memory is lost.
Restart(s) ==
    /\ starts[s] < MaxRestarts
    /\ starts' = [starts EXCEPT ![s] = @ + 1]
    /\ sessions' = [sessions EXCEPT ![s] = {}]
    /\ customers' = [customers EXCEPT ![s] = {}]
    /\ db' = [db EXCEPT ![s] = {}]
    /\ reply' = NoReply
    /\ UNCHANGED <<style, now, issued, placed>>

SecondPasses ==
    /\ now < MaxNow
    /\ now' = now + 1
    /\ reply' = NoReply
    /\ UNCHANGED <<style, issued, sessions, customers, placed, db, starts>>

SessionsNext ==
    \/ \E s \in Servers :
        \/ Login(s) \/ Restart(s)
        \/ \E i \in DOMAIN issued :
              \/ \E op \in {"me", "place", "order"} : Refuse(s, i, op)
              \/ GetMe(s, i) \/ PlaceOrder(s, i) \/ PlaceUnknown(s, i)
              \/ \E o \in DOMAIN placed : GetOrder(s, i, o)
    \/ SecondPasses

SessionsSpec == SessionsInit /\ [][SessionsNext]_sessionVars

-----------------------------------------------------------------------------
SessionsTypeOK ==
    /\ style \in {"session", "jwt"}
    /\ now \in Nat
    /\ issued \in Seq([server : Servers, start : Nat, exp : Nat])
    /\ sessions \in [Servers -> SUBSET (1 .. Len(issued))]
    /\ customers \in [Servers -> SUBSET (1 .. Len(issued))]
    /\ placed \in Seq([customer : 1 .. Len(issued), hasAddress : BOOLEAN])
    /\ db \in [Servers -> SUBSET (1 .. Len(placed))]
    /\ starts \in [Servers -> Nat]

\* Issued by s, which has not been started again since.
StillHome(s, i) == issued[i].server = s /\ issued[i].start = starts[s]

\* A token is good everywhere until it expires, over any restarts; a session
\* only on the server that made it, until that is started again.
Honoured ==
    reply.op # "none" =>
        (reply.status # 401
            <=> /\ now <= issued[reply.cred].exp
                /\ style = "session" => StillHome(reply.server, reply.cred))

\* With sessions an order never lacks its customer's address: the customer is
\* lost together with the session.  (With tokens it may: a server that did
\* not see the login makes the customer up.)
AddressKept == style = "session" => \A o \in DOMAIN placed : placed[o].hasAddress

SessionsKeep == Honoured /\ AddressKept
=============================================================================
