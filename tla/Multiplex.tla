------------------------------ MODULE Multiplex ------------------------------
(***************************************************************************)
(* Chapter 9 (src/chapters/ch09_multiplexing): chat, order status and      *)
(* driver location share one WebSocket.  A frame carries its stream, its   *)
(* type and the length of its payload in 16 bits.  The server's            *)
(* Demultiplexer handles the frames of a connection one after another and  *)
(* answers each; whatever raises ends the connection, for all streams.     *)
(* The connections share the demo order and the driver.  A handler never   *)
(* suspends, so one frame is one step.                                     *)
(***************************************************************************)
EXTENDS Naturals, Sequences, Functions

CONSTANTS
    Connections,
    Patient,     \* connections of client.py, which waits for every answer
    MaxLength,   \* the longest payload 16 bits can announce
    Sizes,       \* payload lengths of chat messages
    Framing,     \* bytes the chat handler puts around the message
    Places, Depot, \* positions of the driver, and its first one
    Preparing, FinalStatus, \* positions in ORDER_FLOW
    MaxFrames    \* bound of the model: frames sent on all connections

ASSUME MuxAssumption ==
    /\ Patient \subseteq Connections
    /\ MaxLength \in Nat \ {0} /\ Framing \in Nat /\ Sizes \subseteq Nat
    /\ Places \intersect {"msg", "check", "advance", "missing", "unknown"} = {}
    /\ FinalStatus \in Nat /\ Preparing \in 0 .. FinalStatus
    /\ MaxFrames \in Nat

VARIABLES
    handlers,   \* types registered with the Demultiplexer
    status,     \* of order_mux_01
    position,   \* of drv_01
    open,       \* connections the server still reads
    gone,       \* connections the client has closed
    sent,       \* sent[c]: the frames a client sent, in order
    received,   \* received[c]: frames_received of c's Demultiplexer
    replies,    \* replies[c]: the response frames, in order
    read        \* read[c]: number of responses the client has read

muxVars == <<handlers, status, position, open, gone, sent, received, replies, read>>

-----------------------------------------------------------------------------
StreamTypes == {"CHAT", "ORDER_STATUS", "LOCATION"}
Frames ==
    [type : {"CHAT"}, what : {"msg"}, length : Sizes]
        \union [type : {"ORDER_STATUS"}, what : {"check", "advance", "missing"}, length : {1}]
        \union [type : {"LOCATION"}, what : Places \union {"unknown"}, length : {1}]

\* Frame.encode: struct.pack refuses a length above 16 bits.
Encodes(length) == length <= MaxLength

MuxInit ==
    /\ handlers \in {StreamTypes, StreamTypes \ {"LOCATION"}}
    /\ status = Preparing
    /\ position = Depot
    /\ open = Connections
    /\ gone = {}
    /\ sent = [c \in Connections |-> <<>>]
    /\ received = [c \in Connections |-> 0]
    /\ replies = [c \in Connections |-> <<>>]
    /\ read = [c \in Connections |-> 0]

\* Multiplexer.send, and the loop of client.py.
SendFrame(c, f) ==
    /\ c \in open \ gone
    /\ Encodes(f.length)
    /\ c \in Patient => read[c] = Len(sent[c])
    /\ FoldFunction(LAMBDA fs, n : Len(fs) + n, 0, sent) < MaxFrames
    /\ sent' = [sent EXCEPT ![c] = Append(@, f)]
    /\ UNCHANGED <<handlers, status, position, open, gone, received, replies, read>>

ReadReply(c) ==
    /\ c \notin gone
    /\ read[c] < Len(replies[c])
    /\ read' = [read EXCEPT ![c] = @ + 1]
    /\ UNCHANGED <<handlers, status, position, open, gone, sent, received, replies>>

\* The client closes: what it has sent is still read and handled.
Close(c) ==
    /\ c \in open \ gone
    /\ gone' = gone \union {c}
    /\ UNCHANGED <<handlers, status, position, open, sent, received, replies, read>>

-----------------------------------------------------------------------------
\* handle_chat, handle_order_status and handle_location: what they answer.
\* An order past its last status cannot advance: the handler raises.
Raises(f) == f.what = "advance" /\ status = FinalStatus

\* Mutant: the handler answers from an advance that is never stored.
StatusAfterStale(f) == status

StatusAfter(f) == IF f.what = "advance" THEN status + 1 ELSE status

ReplyTo(f) ==
    CASE f.type = "CHAT" -> [length |-> f.length + Framing, tells |-> "got it"]
      [] f.what \in {"missing", "unknown"} -> [length |-> 1, tells |-> "error"]
      [] f.what \in Places -> [length |-> 1, tells |-> f.what]
      [] OTHER -> [length |-> 1, tells |-> StatusAfter(f)]

\* Whatever raises in run() ends the connection.
Ends(c) == open' = open \ {c} /\ UNCHANGED replies

\* Sending the answer: a frame it does not fit in raises, and so may a
\* connection the client has closed.
Answer(c, n, reply) ==
    \/ ~ Encodes(reply.length) /\ Ends(c)
    \/ /\ Encodes(reply.length) /\ c \notin gone
       /\ replies' = [replies EXCEPT ![c] = Append(@, [to |-> n, tells |-> reply.tells])]
       /\ UNCHANGED open
    \/ Encodes(reply.length) /\ c \in gone /\ (Ends(c) \/ UNCHANGED <<open, replies>>)

\* Demultiplexer.run for one frame.
Handle(c) ==
    /\ c \in open
    /\ received[c] < Len(sent[c])
    /\ received' = [received EXCEPT ![c] = @ + 1]
    /\ LET n == received'[c]
           f == sent[c][n]
       IN  \/ f.type \notin handlers /\ UNCHANGED <<open, status, position, replies>>
           \/ f.type \in handlers /\ Raises(f) /\ Ends(c) /\ UNCHANGED <<status, position>>
           \/ /\ f.type \in handlers /\ ~ Raises(f)
              /\ status' = StatusAfter(f)
              /\ position' = IF f.what \in Places THEN f.what ELSE position
              /\ Answer(c, n, ReplyTo(f))
    /\ UNCHANGED <<handlers, gone, sent, read>>

\* receive_bytes raises when the client has closed and nothing is left.
Disconnected(c) ==
    /\ c \in open \intersect gone
    /\ received[c] = Len(sent[c])
    /\ Ends(c)
    /\ UNCHANGED <<handlers, status, position, gone, sent, received, read>>

MuxNext ==
    \E c \in Connections :
        \/ \E f \in Frames : SendFrame(c, f)
        \/ ReadReply(c)
        \/ Close(c)
        \/ Handle(c)
        \/ Disconnected(c)

MuxSpec == MuxInit /\ [][MuxNext]_muxVars

-----------------------------------------------------------------------------
MuxTypeOK ==
    /\ handlers \subseteq StreamTypes
    /\ status \in Preparing .. FinalStatus
    /\ position \in Places \union {Depot}
    /\ open \subseteq Connections /\ gone \subseteq Connections
    /\ sent \in [Connections -> Seq(Frames)]
    /\ received \in [Connections -> Nat]
    /\ read \in [Connections -> Nat]

\* The frames of a connection that were handled, in order, but for those of a
\* type nobody handles and the one that ended the connection.
Answerable(c) ==
    {n \in 1 .. received[c] : sent[c][n].type \in handlers}

\* The streams of a connection share its order: the answers come in the order
\* of the frames, none is skipped, and only the last can be missing, when
\* handling it or encoding its answer ended the connection or it was closed.
AnswersInTurn(c) ==
    /\ \A i, j \in DOMAIN replies[c] : i < j => replies[c][i].to < replies[c][j].to
    /\ c \notin gone => \A n \in Answerable(c) :
          \/ \E i \in DOMAIN replies[c] : replies[c][i].to = n
          \/ c \notin open /\ n = received[c]

\* Advancing answers, over all connections, tell every status once.
IsAdvance(c, i) == sent[c][replies[c][i].to].what = "advance"
Advances == UNION {{c} \X {i \in DOMAIN replies[c] : IsAdvance(c, i)} : c \in Connections}
Tells(a) == replies[a[1]][a[2]].tells
AdvancedOnce ==
    /\ \A a, b \in Advances : a # b => Tells(a) # Tells(b)
    /\ {Tells(a) : a \in Advances} \subseteq Preparing + 1 .. status
    /\ gone = {} => \A n \in Preparing + 1 .. status : \E a \in Advances : Tells(a) = n

MuxAnswersMatch == AdvancedOnce /\ \A c \in Connections : AnswersInTurn(c)
===============================================================================
