----------------------------- MODULE EventStream -----------------------------
(***************************************************************************)
(* Server-sent events of chapter 4: the broadcasting server                *)
(* (src/chapters/ch04_server_sent_events/server.py), a dashboard that uses *)
(* the browser's EventSource (dashboard.html), and the Python client       *)
(* (client.py), through broken connections and a restart of the server.    *)
(*                                                                         *)
(* Event n is the n-th one ever broadcast.  Its id on the wire is n minus  *)
(* the events before the last restart, because ids start over then.        *)
(* _broadcast never suspends; a stream is opened by the request handler    *)
(* and its generator runs later, from one yield to the next.  Heartbeats   *)
(* and the "connected" event carry no id and change nothing.               *)
(***************************************************************************)
EXTENDS Naturals, Sequences, FiniteSets, SequencesExt, Lists

CONSTANTS
    Clients,
    Browsers,     \* the clients that are an EventSource
    Streams,      \* identities of the streams a server opens
    QueueSize,    \* maxsize of a client's queue
    LogSize,      \* _MAX_EVENT_LOG
    MaxEvents,    \* bounds of the model: events, broken connections and
    MaxDrops,     \* restarts in a behaviour
    MaxRestarts

None == "none"

ASSUME StreamAssumption ==
    /\ Browsers \subseteq Clients
    /\ IsFiniteSet(Streams) /\ None \notin Streams
    /\ QueueSize \in Nat \ {0}
    /\ LogSize \in Nat \ {0}
    /\ MaxEvents \in Nat /\ MaxDrops \in Nat /\ MaxRestarts \in Nat

VARIABLES
    published,    \* events broadcast so far
    base,         \* those before the last restart; _next_event_id and ids
                  \* count from here
    eventLog,     \* _event_log
    stream,       \* stream[p]: the queue and the generator of a stream
    connected,    \* _stats["connected_clients"]
    wire,         \* wire[c]: events on their way to c
    at,           \* at[c]: the stream c reads from, None when it has none
    lastId,       \* lastId[c]: the last id c read (current_last_id)
    resumeId,     \* resumeId[c]: what c will send as Last-Event-ID, 0: no header
    drops, restarts

(* History, read by the properties only.                                   *)
VARIABLES
    got,          \* got[c]: the events c read, in order
    since,        \* since[c]: events there were when c last came without an
                  \* id, or was served a replay by an id from before a restart
    excused,      \* excused[c]: events a full queue or the trimmed log cost c
    window,       \* events broadcast while a stream was open but not started
    idFrom        \* idFrom[c]: the base lastId[c] belongs to

ghosts == <<got, since, excused, window, idFrom>>
client == <<at, lastId, resumeId>>
vars == <<published, base, eventLog, stream, connected, wire, client, drops,
          restarts, ghosts>>

-----------------------------------------------------------------------------
NoStream == [stage |-> "unused", owner |-> None, last |-> 0,
             replay |-> <<>>, queue |-> <<>>]
Subscribers == {p \in Streams : stream[p].stage \in {"open", "running", "lost"}}
Unused == {p \in Streams : stream[p].stage = "unused"}
Id(n) == n - base
Attached(p) == \E c \in Clients : at[c] = p

Init ==
    /\ published = 0 /\ base = 0
    /\ eventLog = <<>>
    /\ stream = [p \in Streams |-> NoStream]
    /\ connected = 0
    /\ wire = [c \in Clients |-> <<>>]
    /\ at = [c \in Clients |-> None]
    /\ lastId = [c \in Clients |-> 0]
    /\ resumeId = [c \in Clients |-> 0]
    /\ drops = 0 /\ restarts = 0
    /\ got = [c \in Clients |-> <<>>]
    /\ since = [c \in Clients |-> 0]
    /\ excused = [c \in Clients |-> {}]
    /\ window = {}
    /\ idFrom = [c \in Clients |-> 0]

-----------------------------------------------------------------------------
(* _event_log[:] = _event_log[-_MAX_EVENT_LOG:]                            *)
Trim(log) ==
    IF Len(log) > LogSize THEN SubSeq(log, Len(log) - LogSize + 1, Len(log))
    ELSE log

(* put_nowait, or the drop after QueueFull.                                *)
Offered(q, n) == IF Len(q) < QueueSize THEN Append(q, n) ELSE q

(* place_order and advance_order end in _broadcast.                        *)
Broadcast ==
    LET n == published + 1
    IN  /\ n <= MaxEvents
        /\ published' = n
        /\ eventLog' = Trim(Append(eventLog, n))
        /\ stream' = [p \in Streams |->
              IF p \in Subscribers
              THEN [stream[p] EXCEPT !.queue = Offered(@, n)] ELSE stream[p]]
        /\ excused' = [c \in Clients |->
              IF at[c] # None /\ Len(stream[at[c]].queue) >= QueueSize
              THEN excused[c] \cup {n} ELSE excused[c]]
        /\ window' = IF \E p \in Streams : stream[p].stage = "open"
                     THEN window \cup {n} ELSE window
        /\ UNCHANGED <<base, connected, wire, client, drops, restarts, got,
                       since, idFrom>>

-----------------------------------------------------------------------------
(* GET /orders/stream up to the response: the queue takes events from here *)
(* on, the generator has not run yet.                                      *)
Open(c) ==
    /\ at[c] = None
    /\ Unused # {}
    /\ LET p == CHOOSE p \in Unused : TRUE
       IN  /\ stream' = [stream EXCEPT ![p] =
                [NoStream EXCEPT !.stage = "open", !.owner = c,
                                 !.last = resumeId[c]]]
           /\ at' = [at EXCEPT ![c] = p]
    /\ connected' = connected + 1
    /\ since' = IF resumeId[c] = 0 THEN [since EXCEPT ![c] = published] ELSE since
    /\ UNCHANGED <<published, base, eventLog, wire, lastId, resumeId, drops,
                   restarts, got, excused, window, idFrom>>

(* Mutant: the event after the last one seen is not replayed.              *)
MissedLate(last) == Keep(eventLog, {n \in Nat : Id(n) > last + 1})

(* Mutant: the replay starts with the last event seen.                     *)
MissedAgain(last) == Keep(eventLog, {n \in Nat : Id(n) >= last})

(* _get_events_after                                                       *)
Missed(last) == Keep(eventLog, {n \in Nat : Id(n) > last})

(* The generator runs for the first time, and determines what to replay.   *)
Start(p) ==
    LET last == stream[p].last
        c == stream[p].owner
    IN  /\ stream[p].stage = "open"
        /\ stream' = [stream EXCEPT ![p].stage = "running",
              ![p].replay = IF last > 0 THEN Missed(last) ELSE <<>>]
        /\ excused' = [excused EXCEPT ![c] =
              @ \cup {n \in 1 .. published : last > 0 /\ n \notin ToSet(eventLog)}]
        /\ since' = IF last > 0 /\ idFrom[c] # base
                    THEN [since EXCEPT ![c] = published] ELSE since
        /\ UNCHANGED <<published, base, eventLog, connected, wire, client,
                       drops, restarts, got, window, idFrom>>

(* Mutant: an event is held back until there is another one.               *)
YieldPairs(p) ==
    LET s == stream[p]
        all == s.replay \o s.queue
    IN  /\ s.stage = "running" /\ Len(all) > 1
        /\ stream' = [stream EXCEPT ![p] =
              [s EXCEPT !.replay = <<>>, !.queue = Tail(all)]]
        /\ wire' = IF at[s.owner] = p
                   THEN [wire EXCEPT ![s.owner] = Append(@, Head(all))] ELSE wire
        /\ UNCHANGED <<published, base, eventLog, connected, client, drops,
                       restarts, ghosts>>

(* The generator yields the next event: first of the replay, then of the   *)
(* queue.  Without a reader it goes nowhere.                               *)
Yield(p) ==
    LET s == stream[p]
        n == Head(s.replay \o s.queue)
    IN  /\ s.stage = "running" /\ s.replay \o s.queue # <<>>
        /\ stream' = [stream EXCEPT ![p] =
              IF s.replay # <<>> THEN [s EXCEPT !.replay = Tail(@)]
              ELSE [s EXCEPT !.queue = Tail(@)]]
        /\ wire' = IF at[s.owner] = p THEN [wire EXCEPT ![s.owner] = Append(@, n)]
                   ELSE wire
        /\ UNCHANGED <<published, base, eventLog, connected, client, drops,
                       restarts, ghosts>>

(* Mutant: the gauge is not lowered.                                       *)
CloseUncounted(p) ==
    /\ stream[p].stage = "running" /\ ~Attached(p)
    /\ stream' = [stream EXCEPT ![p] = NoStream]
    /\ UNCHANGED <<published, base, eventLog, connected, wire, client, drops,
                   restarts, ghosts>>

(* The disconnect reaches a running generator, whose finally cleans up.    *)
Close(p) ==
    /\ stream[p].stage = "running" /\ ~Attached(p)
    /\ stream' = [stream EXCEPT ![p] = NoStream]
    /\ connected' = connected - 1
    /\ UNCHANGED <<published, base, eventLog, wire, client, drops, restarts,
                   ghosts>>

(* The disconnect comes before the generator ran: it never does, and       *)
(* neither does its finally.                                               *)
Abandon(p) ==
    /\ stream[p].stage = "open" /\ ~Attached(p)
    /\ stream' = [stream EXCEPT ![p].stage = "lost"]
    /\ UNCHANGED <<published, base, eventLog, connected, wire, client, drops,
                   restarts, ghosts>>

-----------------------------------------------------------------------------
(* c reads an event.  A browser will resume from its id.  The Python       *)
(* client's loop is left by an exception when the connection breaks, and   *)
(* main() keeps the last_event_id it passed in.                            *)
Receive(c) ==
    LET n == Head(wire[c])
    IN  /\ wire[c] # <<>>
        /\ wire' = [wire EXCEPT ![c] = Tail(@)]
        /\ lastId' = [lastId EXCEPT ![c] = Id(n)]
        /\ resumeId' = IF c \in Browsers THEN [resumeId EXCEPT ![c] = Id(n)]
                       ELSE resumeId
        /\ got' = [got EXCEPT ![c] = Append(@, n)]
        /\ idFrom' = [idFrom EXCEPT ![c] = base]
        /\ UNCHANGED <<published, base, eventLog, stream, connected, at, drops,
                       restarts, since, excused, window>>

(* The connection of c breaks; what was on its way is lost.                *)
Drop(c) ==
    /\ at[c] # None
    /\ drops < MaxDrops
    /\ drops' = drops + 1
    /\ at' = [at EXCEPT ![c] = None]
    /\ wire' = [wire EXCEPT ![c] = <<>>]
    /\ UNCHANGED <<published, base, eventLog, stream, connected, lastId,
                   resumeId, restarts, ghosts>>

(* The server process is restarted: everything it keeps is in memory.      *)
Restart ==
    /\ restarts < MaxRestarts
    /\ restarts' = restarts + 1
    /\ base' = published
    /\ eventLog' = <<>>
    /\ stream' = [p \in Streams |-> NoStream]
    /\ connected' = 0
    /\ at' = [c \in Clients |-> None]
    /\ wire' = [c \in Clients |-> <<>>]
    /\ UNCHANGED <<published, lastId, resumeId, drops, ghosts>>

Next ==
    \/ Broadcast
    \/ Restart
    \/ \E c \in Clients : Open(c) \/ Receive(c) \/ Drop(c)
    \/ \E p \in Streams : Start(p) \/ Yield(p) \/ Close(p) \/ Abandon(p)

Spec == Init /\ [][Next]_vars

(* The server runs a generator that has something to do, the network       *)
(* delivers, and a client without a stream connects again.                 *)
Fairness ==
    /\ \A p \in Streams : WF_vars(Start(p)) /\ WF_vars(Yield(p))
    /\ \A c \in Clients : WF_vars(Open(c)) /\ WF_vars(Receive(c))

-----------------------------------------------------------------------------
Events == 1 .. MaxEvents
Stages == {"unused", "open", "running", "lost"}

(* Types.                                                                  *)
TypeOK ==
    /\ published \in 0 .. MaxEvents /\ base \in 0 .. published
    /\ eventLog \in Seq(Events) /\ Len(eventLog) <= LogSize
    /\ stream \in [Streams -> [stage : Stages, owner : Clients \cup {None},
                               last : Nat, replay : Seq(Events), queue : Seq(Events)]]
    /\ \A p \in Streams : Len(stream[p].queue) <= QueueSize
    /\ connected \in Nat
    /\ wire \in [Clients -> Seq(Events)]
    /\ at \in [Clients -> Streams \cup {None}]
    /\ lastId \in [Clients -> Nat]
    /\ resumeId \in [Clients -> Nat]
    /\ drops \in 0 .. MaxDrops /\ restarts \in 0 .. MaxRestarts
    /\ got \in [Clients -> Seq(Events)]
    /\ since \in [Clients -> 0 .. MaxEvents]
    /\ excused \in [Clients -> SUBSET Events]
    /\ window \in SUBSET Events
    /\ idFrom \in [Clients -> 0 .. MaxEvents]

(* The events c has a claim to.                                            *)
Due(c) == {n \in since[c] + 1 .. published : n > base} \ excused[c]

(* Replay and queue join without a hole (server.py:229-269): what a client *)
(* that is being served has a claim to and has not read is on its way, in  *)
(* spite of broken connections, of ids that come twice and of a restart.   *)
NothingMissed ==
    \A c \in Clients :
        at[c] # None /\ stream[at[c]].stage = "running" =>
            Due(c) \subseteq ToSet(got[c]) \cup ToSet(wire[c])
                \cup ToSet(stream[at[c]].replay) \cup ToSet(stream[at[c]].queue)

(* An event reaches a client twice only if it was broadcast between the    *)
(* subscription of a queue and the replay (server.py:231, 244).            *)
RepeatsOnlyFromWindow ==
    \A c \in Clients : \A i, j \in DOMAIN got[c] :
        i < j /\ got[c][i] = got[c][j] => got[c][i] \in window

(* connected_clients counts the queues that broadcasts still fill          *)
(* (server.py:232, 291), those of generators that never ran included.      *)
GaugeIsSubscribers == connected = Cardinality(Subscribers)

(* A client that keeps coming back ends up with everything it has a claim  *)
(* to.                                                                     *)
CatchesUp == <>[](\A c \in Clients : Due(c) \subseteq ToSet(got[c]))

(* "Reconnection with Last-Event-ID when the connection drops"             *)
(* (client.py:11): a client resumes from the last id it read.              *)
ResumesFromLastSeen ==
    \A c \in Clients : at[c] = None => resumeId[c] = lastId[c]
==============================================================================
