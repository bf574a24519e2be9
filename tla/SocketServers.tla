---------------------------- MODULE SocketServers ----------------------------
(***************************************************************************)
(* The two servers of chapter 0 (src/chapters/ch00_foundations), written   *)
(* on bare sockets: tcp_echo_server.py and http_from_scratch.py.  Both     *)
(* accept one connection at a time and stay with it until it is closed;    *)
(* the others wait in the kernel's accept queue.  TCP carries a stream:    *)
(* what a client writes arrives in pieces, and each recv() returns what    *)
(* has arrived, be it half a request or two.  The HTTP server takes every  *)
(* recv() for one request; the echo server decodes each by itself.         *)
(* sendall() returns once the answer fits in the buffers on its way, which *)
(* empty only as the client reads.  An error of a connection that the      *)
(* echo server does not expect ends that server.                           *)
(*                                                                         *)
(* A request is a sequence of units that arrive whole: the head up to      *)
(* some byte, the rest of the head with its blank line, and the body of a  *)
(* POST.  A text for the echo server is one character of two bytes.        *)
(***************************************************************************)
EXTENDS Naturals, Sequences, SequencesExt

CONSTANTS
    Clients,
    NoClient,
    AcceptQueue,  \* connections the kernel holds for accept() (BACKLOG + 1)
    BufferSize,   \* units one recv() returns at most
    SendBuffer,   \* answers the buffers hold that the client has not read
    MaxRequests   \* bound of the model: requests of all clients

ASSUME SocketsAssumption ==
    /\ NoClient \notin Clients
    /\ AcceptQueue \in Nat \ {0}
    /\ BufferSize \in Nat \ {0}
    /\ SendBuffer \in Nat
    /\ MaxRequests \in Nat

VARIABLES
    server,    \* which of the two servers this is
    listening, \* the server runs, and its socket is open
    queue,     \* connections not accepted yet
    serving,   \* the connection handle_client() is busy with
    closing,   \* it closes that connection when sendall() returns
    sock,      \* sock[c]: how c's connection stands
    written,   \* written[c]: the requests c has written
    arrived,   \* arrived[c]: number of units that have reached the server
    taken,     \* taken[c]: number of units recv() has returned
    answers,   \* answers[c]: what the server has given sendall() for c
    unread     \* unread[c]: number of these that c has not read

(* History, read by the properties only.                                   *)
VARIABLE torn \* clients with a recv() that was not one whole request

streamVars == <<server, written, arrived, taken, answers, torn>>
socketVars == <<listening, queue, serving, closing, sock, unread, streamVars>>

-----------------------------------------------------------------------------
\* A GET, a POST, a POST whose JSON is no object, a GET with Connection: close.
HttpKinds == {"get", "post", "odd", "close"}
Kinds == IF server = "http" THEN HttpKinds ELSE {"text"}

PartsOf(kind) ==
    CASE kind = "text" -> <<"lead", "tail">>
      [] kind \in {"post", "odd"} -> <<"line", "blank", "body">>
      [] OTHER -> <<"line", "blank">>

\* The units of requests ks, each with the number of its request.
UnitsOf(n, kind) == [i \in DOMAIN PartsOf(kind) |-> <<n, PartsOf(kind)[i]>>]
Units(ks) == FlattenSeq([n \in DOMAIN ks |-> UnitsOf(n, ks[n])])

\* What the next recv() on c's connection returns.
Smaller(a, b) == IF a < b THEN a ELSE b
Received(c) ==
    SubSeq(Units(written[c]), taken[c] + 1, Smaller(arrived[c], taken[c] + BufferSize))

-----------------------------------------------------------------------------
SocketsInit ==
    /\ server \in {"echo", "http"}
    /\ listening = TRUE
    /\ queue = <<>>
    /\ serving = NoClient
    /\ closing = FALSE
    /\ sock = [c \in Clients |-> "new"]
    /\ written = [c \in Clients |-> <<>>]
    /\ arrived = [c \in Clients |-> 0]
    /\ taken = [c \in Clients |-> 0]
    /\ answers = [c \in Clients |-> <<>>]
    /\ unread = [c \in Clients |-> 0]
    /\ torn = {}

Connected(c) == sock[c] \in {"open", "eof"}
Waiting(c) == \E i \in DOMAIN queue : queue[i] = c

\* The handshake is the kernel's; with a full accept queue it is not ended.
Connect(c) ==
    /\ sock[c] = "new"
    /\ listening
    /\ Len(queue) < AcceptQueue
    /\ sock' = [sock EXCEPT ![c] = "open"]
    /\ queue' = Append(queue, c)
    /\ UNCHANGED <<listening, serving, closing, unread, streamVars>>

\* A client may write its next request before it has the answer to the last.
Write(c, kind) ==
    /\ sock[c] = "open"
    /\ FoldFunction(LAMBDA ks, n : Len(ks) + n, 0, written) < MaxRequests
    /\ written' = [written EXCEPT ![c] = Append(@, kind)]
    /\ UNCHANGED <<listening, queue, serving, closing, sock, unread>>
    /\ UNCHANGED <<server, arrived, taken, answers, torn>>

\* The next segment arrives: some of the units under way.
Segment(c) ==
    /\ sock[c] = "open"
    /\ \E n \in arrived[c] + 1 .. Len(Units(written[c])) :
          arrived' = [arrived EXCEPT ![c] = n]
    /\ UNCHANGED <<listening, queue, serving, closing, sock, unread>>
    /\ UNCHANGED <<server, written, taken, answers, torn>>

\* A client need not read its answers; when it does, the buffers empty.
Read(c) ==
    /\ Connected(c)
    /\ unread[c] > 0
    /\ unread' = [unread EXCEPT ![c] = 0]
    /\ UNCHANGED <<listening, queue, serving, closing, sock, streamVars>>

\* The client closes its side, or its machine resets the connection, or it
\* is gone and TCP gives up on an answer that is never acknowledged.
HangUp(c) ==
    /\ \/ /\ sock[c] = "open"
          /\ arrived[c] = Len(Units(written[c]))
          /\ sock' = [sock EXCEPT ![c] = "eof"]
       \/ Connected(c) /\ sock' = [sock EXCEPT ![c] = "reset"]
       \/ Connected(c) /\ unread[c] > 0 /\ sock' = [sock EXCEPT ![c] = "lost"]
    /\ UNCHANGED <<listening, queue, serving, closing, unread, streamVars>>

-----------------------------------------------------------------------------
\* An error leaves handle_client() and main(): the process ends, and the
\* kernel closes the connections it had and those in the queue.
ServerEnds ==
    /\ listening' = FALSE
    /\ serving' = NoClient
    /\ queue' = <<>>
    /\ sock' = [c \in Clients |-> IF c = serving \/ Waiting(c) THEN "closed" ELSE sock[c]]

\* Before its try statement, the echo server asks for the peer's address,
\* which a connection reset in the queue no longer has.
PeerUnknown(c) == server = "echo" /\ sock[c] = "reset"

Accept ==
    /\ listening
    /\ serving = NoClient
    /\ queue # <<>>
    /\ \/ /\ ~ PeerUnknown(Head(queue))
          /\ serving' = Head(queue)
          /\ queue' = Tail(queue)
          /\ UNCHANGED <<listening, sock>>
       \/ PeerUnknown(Head(queue)) /\ ServerEnds
    /\ UNCHANGED <<closing, unread, streamVars>>

-----------------------------------------------------------------------------
\* handle_client of the echo server: each half of a character that recv()
\* has cut in two decodes to a replacement character.
Decoded(data) ==
    LET bytes == {data[i] : i \in DOMAIN data}
    IN  [i \in DOMAIN data |->
            IF <<data[i][1], "lead">> \in bytes /\ <<data[i][1], "tail">> \in bytes
            THEN data[i] ELSE <<data[i][1], "replaced">>]
Echo(data) == [reply |-> Decoded(data), closes |-> FALSE]

\* parse_request: a request line first and a blank line somewhere.
Parses(data) ==
    data[1][2] = "line" /\ \E i \in DOMAIN data : data[i][2] = "blank"

\* What follows the blank line is the body, and Content-Length is not read.
BodyOf(data) == SubSeq(data, 3, Len(data))

\* route_request: status and whether the handler raised.
Status(data, kind) ==
    CASE kind \notin {"post", "odd"} -> 200
      [] BodyOf(data) = <<>> -> 400
      [] BodyOf(data) # <<>> /\ BodyOf(data) # <<<<data[1][1], "body">>>> -> 400
      [] kind = "odd" -> 500
      [] OTHER -> 201

\* A response carries its status; its request, 0 for none, is history.
BuildResponse(n, status) == [to |-> n, status |-> status]

\* handle_client of the HTTP server, for one recv().
Respond(c, data) ==
    IF ~ Parses(data)
    THEN [reply |-> BuildResponse(0, 400), closes |-> TRUE]
    ELSE LET n == data[1][1]
             status == Status(data, written[c][n])
         IN  [reply |-> BuildResponse(n, status),
              closes |-> written[c][n] = "close" \/ status = 500]

Handled(c, data) == IF server = "http" THEN Respond(c, data) ELSE Echo(data)

Whole(c, data) ==
    \E n \in DOMAIN written[c] :
        data = SubSeq(Units(written[c]), Len(Units(SubSeq(written[c], 1, n - 1))) + 1,
                      Len(Units(SubSeq(written[c], 1, n))))

\* Mutant: recv() with MSG_PEEK leaves the bytes where they are.
TakePeek(c) == taken' = taken

Take(c) == taken' = [taken EXCEPT ![c] = Smaller(arrived[c], @ + BufferSize)]

\* sendall() has not returned: the answer does not fit in the buffers.
Blocked(c) == serving = c /\ Connected(c) /\ unread[c] > SendBuffer

\* recv() returns data, which is handled and its answer given to sendall().
Receive(c) ==
    /\ serving = c
    /\ Connected(c)
    /\ ~ Blocked(c)
    /\ ~ closing
    /\ taken[c] < arrived[c]
    /\ LET result == Handled(c, Received(c)) IN
          /\ answers' = [answers EXCEPT ![c] = Append(@, result.reply)]
          /\ closing' = result.closes
    /\ unread' = [unread EXCEPT ![c] = @ + 1]
    /\ torn' = IF Whole(c, Received(c)) THEN torn ELSE torn \union {c}
    /\ Take(c)
    /\ UNCHANGED <<listening, queue, serving, sock, server, written, arrived>>

\* Mutant: an empty recv() is not taken for the end.
GoneLate(c) == sock[c] \in {"reset", "lost"}

\* recv() returns nothing, or it or sendall() raises.
Gone(c) ==
    \/ sock[c] \in {"reset", "lost"}
    \/ sock[c] = "eof" /\ taken[c] = arrived[c] /\ ~ Blocked(c)

\* The echo server expects a reset and a broken pipe, and no other error.
Uncaught(c) == server = "echo" /\ sock[c] = "lost"

Leave(c) ==
    /\ serving = c
    /\ Gone(c) \/ (closing /\ ~ Blocked(c))
    /\ closing' = FALSE
    /\ \/ /\ ~ Uncaught(c)
          /\ serving' = NoClient
          /\ sock' = [sock EXCEPT ![c] = "closed"]
          /\ UNCHANGED <<listening, queue>>
       \/ Uncaught(c) /\ ServerEnds
    /\ UNCHANGED <<unread, streamVars>>

ServerStep == Accept \/ \E c \in Clients : Receive(c) \/ Leave(c)
ClientStep ==
    \E c \in Clients :
        \/ Connect(c) \/ Segment(c) \/ Read(c) \/ HangUp(c)
        \/ \E kind \in Kinds : Write(c, kind)

SocketsNext == ServerStep \/ ClientStep

\* The server runs and what was written arrives; clients owe nothing.
SocketsFairness ==
    WF_socketVars(ServerStep) /\ \A c \in Clients : WF_socketVars(Segment(c))

SocketsSpec == SocketsInit /\ [][SocketsNext]_socketVars /\ SocketsFairness

-----------------------------------------------------------------------------
SocketsTypeOK ==
    /\ server \in {"echo", "http"}
    /\ listening \in BOOLEAN
    /\ queue \in Seq(Clients)
    /\ serving \in Clients \union {NoClient}
    /\ closing \in BOOLEAN
    /\ sock \in [Clients -> {"new", "open", "eof", "reset", "lost", "closed"}]
    /\ written \in [Clients -> Seq(Kinds)]
    /\ arrived \in [Clients -> Nat]
    /\ taken \in [Clients -> Nat]
    /\ unread \in [Clients -> Nat]
    /\ torn \subseteq Clients

\* However the stream is cut, the requests answered are answered once and in
\* their order, and an order is confirmed only for a POST ...
AnsweredOnce(c) ==
    /\ \A i, j \in DOMAIN answers[c] :
          i < j /\ answers[c][i].to # 0 /\ answers[c][j].to # 0
             => answers[c][i].to < answers[c][j].to
    /\ \A i \in DOMAIN answers[c] :
          answers[c][i].status = 201 => written[c][answers[c][i].to] = "post"

\* ... and a client that sends one whole request at a time has the i-th
\* answer for its i-th request, its POSTs confirmed.
AnsweredRight(c) ==
    \A i \in DOMAIN answers[c] :
        /\ answers[c][i].to = i
        /\ written[c][i] = "post" => answers[c][i].status = 201

\* The echo returns every byte in its place, but for characters cut in two.
EchoedBack(c) ==
    LET echo == FlattenSeq(answers[c]) IN
    /\ Len(echo) = taken[c]
    /\ \A i \in DOMAIN echo :
          \/ echo[i] = Units(written[c])[i]
          \/ c \in torn /\ echo[i] = <<Units(written[c])[i][1], "replaced">>

AnswersMatch ==
    \A c \in Clients :
        IF server = "http"
        THEN AnsweredOnce(c) /\ (c \notin torn => AnsweredRight(c))
        ELSE EchoedBack(c)

\* A waiting client is served, unless the server ends up with a client that
\* is silent and stays connected, or that does not read its answers (nothing
\* in either server ends that), or, the echo server, unless an error of some
\* other connection has ended it.
Silent(c) == serving = c /\ sock[c] = "open" /\ taken[c] = arrived[c]
EveryoneServed ==
    \A c \in Clients :
        Waiting(c) ~>
            \/ serving = c
            \/ \E d \in Clients : [](Silent(d) \/ Blocked(d))
            \/ server = "echo" /\ ~ listening

\* "The original server_sock stays in LISTEN state and continues accepting
\* new connections" (tcp_echo_server.py:278): the server outlives what
\* becomes of any one connection.
KeepsListening == listening
==============================================================================
