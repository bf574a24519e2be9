------------------------------ MODULE ChatRoom -------------------------------
(***************************************************************************)
(* The WebSocket chat of chapter 5 (src/chapters/ch05_websockets):         *)
(* ChatRoom and ChatRoomManager (chat_room.py) with the endpoint           *)
(* websocket_chat that drives them (server.py), for the rooms of one       *)
(* order.                                                                  *)
(*                                                                         *)
(* Every connection has one handler.  All handlers run on one event loop   *)
(* and may be suspended at every send, so a step runs a handler from one   *)
(* send to the next: a broadcast takes one step for each client it         *)
(* reaches, and walks the live list.  Chat messages are numbered; what     *)
(* else is sent (system messages, confirmations, pings, typing) appears    *)
(* only by its sends failing, or as the entry 0 of the history.            *)
(***************************************************************************)
EXTENDS Naturals, Sequences, FiniteSets, SequencesExt, Lists

CONSTANTS
    Conns,        \* WebSocket connections, each with its ConnectedClient
    MaxHistory,   \* max_history
    MaxChats      \* bound of the model: chat messages in a behaviour

ASSUME ChatAssumption ==
    /\ IsFiniteSet(Conns)
    /\ MaxHistory \in Nat \ {0}
    /\ MaxChats \in Nat

VARIABLES
    registered,   \* the ChatRoom that _rooms holds for the order, 0: none
    created,      \* rooms created so far; rooms are numbered in that order
    clients,      \* clients[r]: room.clients
    history,      \* history[r]: room.history, 0 standing for a system message
    sock,         \* sock[c]: "new", "open", or "closed" as the server sees it
    room,         \* room[c]: the room the handler of c joined
    task          \* task[c]: where the handler of c is suspended

(* History, read by the properties only.                                   *)
VARIABLES
    sender,       \* sender[m]: who sent chat message m
    got,          \* got[c]: the chat messages broadcast to c, in order, while
                  \* its handler runs
    caught,       \* caught[c]: the chat messages c found in the history
    shrunk        \* messages in whose broadcast a client left the list

ghosts == <<sender, got, caught, shrunk>>
vars == <<registered, created, clients, history, sock, room, task, ghosts>>

-----------------------------------------------------------------------------
Rooms == 1 .. Cardinality(Conns)
Chats == 1 .. Len(sender)
Members(r) == ToSet(clients[r])
At(place) == [at |-> place, msg |-> 0, next |-> 1, dead |-> <<>>]
Casting == {"joining", "chatting", "leaving"}

Init ==
    /\ registered = 0
    /\ created = 0
    /\ clients = [r \in Rooms |-> <<>>]
    /\ history = [r \in Rooms |-> <<>>]
    /\ sock = [c \in Conns |-> "new"]
    /\ room = [c \in Conns |-> 0]
    /\ task = [c \in Conns |-> At("start")]
    /\ sender = <<>>
    /\ got = [c \in Conns |-> <<>>]
    /\ caught = [c \in Conns |-> {}]
    /\ shrunk = {}

-----------------------------------------------------------------------------
(* _append_history: the oldest entries make room.                          *)
Record(r, m) ==
    LET h == Append(history[r], m)
        over == IF Len(h) > MaxHistory THEN Len(h) - MaxHistory ELSE 0
    IN  history' = [history EXCEPT ![r] = SubSeq(h, over + 1, Len(h))]

(* self.clients.remove for the dead ones in turn, up to the first that is  *)
(* not in the list any more, where it raises ValueError.                   *)
Clean(list, dead) ==
    LET missing == {i \in DOMAIN dead : dead[i] \notin ToSet(list)}
        last == IF missing = {} THEN Len(dead)
                ELSE (CHOOSE i \in missing : \A j \in missing : i <= j) - 1
        removed == {dead[i] : i \in 1 .. last}
    IN  Keep(list, Conns \ removed)

CleanFails(list, dead) == ~(ToSet(dead) \subseteq ToSet(list))

(* Broadcasts are told when somebody leaves the list they walk.            *)
SetClients(r, list) ==
    /\ clients' = [clients EXCEPT ![r] = list]
    /\ shrunk' = IF Len(list) >= Len(clients[r]) THEN shrunk
                 ELSE shrunk \cup {task[c].msg : c \in
                        {c \in Conns : task[c].at = "chatting" /\ room[c] = r}}

(* Mutant: passing the sender over takes the next client along.            *)
TargetTwoOn(c, kind, list, i) ==
    IF i <= Len(list) /\ list[i] = c /\ kind # "leaving" THEN i + 2 ELSE i

(* Whom _broadcast sends to next: the sender of a join or chat message is  *)
(* passed over.                                                            *)
Target(c, kind, list, i) ==
    IF i <= Len(list) /\ list[i] = c /\ kind # "leaving" THEN i + 1 ELSE i

(* The loop of _broadcast from entry i to its next send: to an open        *)
(* connection it succeeds, otherwise the client is marked dead.            *)
Send(c, kind, m, list, i, dead) ==
    LET j == Target(c, kind, list, i)
        d == list[j]
        up == sock[d] = "open"
    IN  /\ j <= Len(list)
        /\ task' = [task EXCEPT ![c] =
              [at |-> kind, msg |-> m, next |-> j + 1,
               dead |-> IF up THEN dead ELSE Append(dead, d)]]
        /\ got' = IF m # 0 /\ up THEN [got EXCEPT ![d] = Append(@, m)] ELSE got

NoneLeft(c, kind, list, i) == Target(c, kind, list, i) > Len(list)

(* The handler returns ("done") or fails to join ("failed"); the server    *)
(* closes the connection.                                                  *)
Finish(c, how) ==
    /\ task' = [task EXCEPT ![c] = At(how)]
    /\ sock' = [sock EXCEPT ![c] = "closed"]
    /\ got' = [got EXCEPT ![c] = <<>>]

(* `if room.is_empty: remove_room(order_id)`, whatever room the registry   *)
(* holds for the order by now.                                             *)
DropRoom(list) == registered' = IF list = <<>> THEN 0 ELSE registered

(* Mutant: a broadcast error skips remove_client.                          *)
LeaveStaying(c, before) ==
    /\ UNCHANGED <<history, registered, clients, shrunk>>
    /\ Finish(c, "done")

(* The finally block of websocket_chat: remove_client, with its broadcast  *)
(* of the leave message, then the check for an empty room.                 *)
Leave(c, before) ==
    LET r == room[c]
        list == Keep(before, Conns \ {c})
    IN  /\ SetClients(r, list)
        /\ Record(r, 0)
        /\ \/ Send(c, "leaving", 0, list, 1, <<>>) /\ UNCHANGED <<registered, sock>>
           \/ list = <<>> /\ DropRoom(list) /\ Finish(c, "done")

-----------------------------------------------------------------------------
(* Mutant: a client that joins is put at the head of the list.             *)
SeatFirst(list, c) == <<c>> \o list

(* self.clients.append(client)                                             *)
Seat(list, c) == Append(list, c)

(* accept(), get_or_create_room and add_client up to its first send.  Only *)
(* a new room has an empty history; there the join goes through at once.   *)
Connect(c) ==
    LET r == IF registered = 0 THEN created + 1 ELSE registered
        isNew == history[r] = <<>>
    IN  /\ sock[c] = "new"
        /\ sock' = [sock EXCEPT ![c] = "open"]
        /\ room' = [room EXCEPT ![c] = r]
        /\ registered' = r
        /\ created' = IF r > created THEN r ELSE created
        /\ clients' = [clients EXCEPT ![r] = Seat(@, c)]
        /\ history' = IF isNew THEN [history EXCEPT ![r] = <<0>>] ELSE history
        /\ task' = [task EXCEPT ![c] = At(IF isNew THEN "listening" ELSE "history")]
        /\ caught' = [caught EXCEPT ![c] = ToSet(history[r]) \ {0}]
        /\ UNCHANGED <<sender, got, shrunk>>

(* The broadcast of a join is over; "joined" goes to the client itself.    *)
(* add_client is called outside the try block: when it raises, the client  *)
(* stays in the list and nobody removes it.                                *)
JoinEnds(c, dead) ==
    /\ SetClients(room[c], Clean(clients[room[c]], dead))
    /\ IF CleanFails(clients[room[c]], dead) \/ sock[c] = "closed"
       THEN Finish(c, "failed")
       ELSE /\ task' = [task EXCEPT ![c] = At("listening")]
            /\ UNCHANGED <<sock, got>>

(* The history was sent: the join message is recorded and broadcast.       *)
Join(c) ==
    /\ task[c].at = "history"
    /\ Record(room[c], 0)
    /\ \/ Send(c, "joining", 0, clients[room[c]], 1, <<>>)
          /\ UNCHANGED <<clients, shrunk, sock>>
       \/ NoneLeft(c, "joining", clients[room[c]], 1) /\ JoinEnds(c, <<>>)
    /\ UNCHANGED <<registered, created, room, sender, caught>>

(* Sending the history fails, outside the try block as well.               *)
JoinFails(c) ==
    /\ task[c].at = "history" /\ sock[c] = "closed"
    /\ Finish(c, "failed")
    /\ UNCHANGED <<registered, created, clients, history, room, sender, caught,
                   shrunk>>

-----------------------------------------------------------------------------
(* The broadcast of a chat message is over; "delivered" goes to its        *)
(* sender.  When that, or the clean-up, raises, the handler leaves.        *)
ChatEnds(c, dead) ==
    LET r == room[c]
        list == Clean(clients[r], dead)
    IN  IF CleanFails(clients[r], dead) \/ sock[c] = "closed"
        THEN Leave(c, list)
        ELSE /\ SetClients(r, list)
             /\ task' = [task EXCEPT ![c] = At("listening")]
             /\ UNCHANGED <<history, registered, sock, got>>

(* A chat message arrives from c: broadcast_message up to its first send.  *)
Chat(c) ==
    LET r == room[c]
        m == Len(sender) + 1
    IN  /\ task[c].at = "listening" /\ sock[c] = "open"
        /\ m <= MaxChats
        /\ sender' = Append(sender, c)
        /\ Record(r, m)
        /\ \/ Send(c, "chatting", m, clients[r], 1, <<>>)
           \/ /\ NoneLeft(c, "chatting", clients[r], 1)
              /\ UNCHANGED <<task, got>>
        /\ UNCHANGED <<registered, created, clients, sock, room, caught, shrunk>>

(* The broadcast of a leave message is over.  When the clean-up raises,    *)
(* the room is not looked at any more.                                     *)
LeaveEnds(c, dead) ==
    LET r == room[c]
        list == Clean(clients[r], dead)
    IN  /\ SetClients(r, list)
        /\ IF CleanFails(clients[r], dead) THEN UNCHANGED registered
           ELSE DropRoom(list)
        /\ Finish(c, "done")

(* A suspended broadcast goes on to its next send, or to its end.          *)
Resume(c) ==
    LET t == task[c]
        list == clients[room[c]]
    IN  /\ t.at \in Casting
        /\ \/ /\ Send(c, t.at, t.msg, list, t.next, t.dead)
              /\ UNCHANGED <<registered, clients, history, sock, shrunk>>
           \/ /\ NoneLeft(c, t.at, list, t.next)
              /\ \/ /\ t.at = "joining" /\ JoinEnds(c, t.dead)
                    /\ UNCHANGED <<registered, history>>
                 \/ t.at = "chatting" /\ ChatEnds(c, t.dead)
                 \/ /\ t.at = "leaving" /\ LeaveEnds(c, t.dead)
                    /\ UNCHANGED history
        /\ UNCHANGED <<created, room, sender, caught>>

-----------------------------------------------------------------------------
(* The client goes away, and the server gets to know.                      *)
Disconnect(c) ==
    /\ sock[c] = "open"
    /\ sock' = [sock EXCEPT ![c] = "closed"]
    /\ UNCHANGED <<registered, created, clients, history, room, task, ghosts>>

(* receive_json raises WebSocketDisconnect.                                *)
HangUp(c) ==
    /\ task[c].at = "listening" /\ sock[c] = "closed"
    /\ Leave(c, clients[room[c]])
    /\ UNCHANGED <<created, room, sender, caught>>

Next ==
    \E c \in Conns :
        \/ Connect(c)
        \/ Join(c)
        \/ JoinFails(c)
        \/ Chat(c)
        \/ Resume(c)
        \/ Disconnect(c)
        \/ HangUp(c)

Spec == Init /\ [][Next]_vars

-----------------------------------------------------------------------------
(* Types.                                                                  *)
TypeOK ==
    /\ registered \in {0} \cup Rooms
    /\ created \in {0} \cup Rooms
    /\ clients \in [Rooms -> Seq(Conns)]
    /\ history \in [Rooms -> Seq({0} \cup Chats)]
    /\ \A r \in Rooms : Len(history[r]) <= MaxHistory
    /\ sock \in [Conns -> {"new", "open", "closed"}]
    /\ room \in [Conns -> {0} \cup Rooms]
    /\ task \in [Conns -> [at : Casting \cup
                              {"start", "history", "listening", "done", "failed"},
                           msg : {0} \cup Chats, next : Nat \ {0},
                           dead : Seq(Conns)]]
    /\ sender \in Seq(Conns)
    /\ got \in [Conns -> Seq(Chats)]
    /\ caught \in [Conns -> SUBSET Chats]
    /\ shrunk \in SUBSET ({0} \cup Chats)

Present(c) == task[c].at \in {"listening", "chatting"} /\ sock[c] = "open"

(* A participant whose connection is open is in its room's list once: what *)
(* others clean up (chat_room.py:236-238) never takes a live client off    *)
(* the list.                                                               *)
PresentAreListed ==
    \A c \in Conns : Present(c) =>
        Cardinality({i \in DOMAIN clients[room[c]] :
                        clients[room[c]][i] = c}) = 1

(* The messages in the history of c's room that c does not have, and that  *)
(* no broadcast is going to bring it.                                      *)
Missing(c) ==
    LET list == clients[room[c]]
        coming == {task[s].msg : s \in {s \in Conns :
            /\ task[s].at = "chatting"
            /\ \E i \in DOMAIN list : i >= task[s].next /\ list[i] = c}}
    IN  {m \in ToSet(history[room[c]]) \ {0} :
            sender[m] # c /\ m \notin caught[c] \cup ToSet(got[c]) \cup coming}

(* Nothing falls between the history a client is sent and the broadcasts   *)
(* it gets after it joined (chat_room.py:127-145): it misses at most       *)
(* messages in whose broadcast a client left the list.                     *)
NoGap == \A c \in Conns : Present(c) => Missing(c) \subseteq shrunk

(* The messages of one sender reach everyone in the order it sent them,    *)
(* and at most once (chat_room.py:226-234 walks a list that others change  *)
(* at every await).                                                        *)
SenderOrder ==
    \A c \in Conns : \A i, j \in DOMAIN got[c] :
        i < j /\ sender[got[c][i]] = sender[got[c][j]] => got[c][i] < got[c][j]

(* A room with a live participant keeps its place in the registry until    *)
(* a second room is made (server.py:275).                                  *)
InRegistry ==
    \A c \in Conns : Present(c) /\ created = 1 => registered = room[c]

(* A handler that joined and is over has left its room's list, whatever    *)
(* others did to the list while it said good-bye (server.py:269-272).      *)
NobodyLingers ==
    \A c \in Conns : task[c].at = "done" => c \notin Members(room[c])

(* The rosters tell who is there.                                          *)
RosterTrue == PresentAreListed /\ InRegistry /\ NobodyLingers

(* "Failed sends (disconnected clients) are silently caught"               *)
(* (chat_room.py:216): nobody else's handler leaves because of them.       *)
FailedSendsAreSilent ==
    \A c \in Conns : task[c].at = "leaving" => sock[c] = "closed"
==============================================================================
