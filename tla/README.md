# FoodDash communication patterns: specification and verification

The repository teaches communication patterns by building the same food
delivery back end ("FoodDash") once per pattern: a chapter is a small server
with its clients, an appendix a self-contained demonstration.  This directory
holds TLA+ modules of the parts that keep state and do so concurrently, the TLC
configurations that check them, theorems about them that TLAPS proves, and this
guide.  Paths below are relative to `src/`; `PROJECT.json` has the line-by-line
correspondence (`map`), the runs, the mutants, the hazards and the theorems.

- [1. The system](#1-the-system)
- [2. How the models are built](#2-how-the-models-are-built)
- [3. The modules](#3-the-modules)
- [4. What the runs check and show](#4-what-the-runs-check-and-show)
- [5. Fairness](#5-fairness)
- [6. What is proved, and how](#6-what-is-proved-and-how)
- [7. Where code and documentation disagree](#7-where-code-and-documentation-disagree)
- [8. What is not modelled](#8-what-is-not-modelled)
- [9. What could follow](#9-what-could-follow)

## 1. The system

Every server is one Python process with one asyncio event loop and keeps its
state in memory.  A handler runs without interruption until an `await` really
suspends it, and every hard behaviour below comes from what other tasks do
during such a suspension, from bounded queues and logs, from broken connections
and lost memory, or from long sequences of legal calls.

| Component | State it keeps | Operations | Talks to | What is hard | What makes it correct |
|---|---|---|---|---|---|
| **Event broker** `chapters/ch07_pub_sub/broker.py` | list of subscriptions, a bounded queue and a worker task each, event log, metrics | start, stop, subscribe, unsubscribe, publish; a worker per subscriber | subscribers, by callback | unsubscribe and stop await a cancelled worker while others change the list; full queues; failing and hanging callbacks | each subscriber sees its events in order, at most once, isolated from the others; only what somebody asked to remove is removed; the counters add up |
| **Order subscribers** `chapters/ch07_pub_sub/subscribers/`, `publisher.py` | processed orders, assignments, counters | order placed / confirmed / cancelled | broker | check before and mark after awaits; two subscriptions of one service; callbacks that raise | charged once, served in the end; assignments and releases add up |
| **Long polling** `chapters/ch03_long_polling/` | order status (shared store), an `asyncio.Event` per order that is replaced after each change, a gauge of held polls; the client's last status | place, poll, advance; the client's loop with its own timeout | client by HTTP, handlers by the event | an advance between a poll's check and its wait, timer against event, abandoned polls | no poll sleeps through a change; news is new; a client ends up knowing the final status |
| **Short polling** `chapters/ch02_short_polling/` | orders, a tracker of what each address was told; the poller's own counts | place, poll, advance; the poller's loop | client by HTTP | clients behind one address, other readers, a restart, an exception in the loop | useful polls are exactly those with news; a poller never goes back and ends knowing |
| **Event stream (SSE)** `chapters/ch04_server_sent_events/` | a bounded queue per stream, a trimmed replay log, the next id; the client's last id | broadcast, open, start/yield/close of a generator, resume | dashboards, the Python client | queue subscribed before the replay is computed; dropped and trimmed events; generators that never start; restart | replay and live events join without a hole; resumption goes on from what was read |
| **Chat rooms** `chapters/ch05_websockets/` | registry of rooms, a list of clients and a bounded history per room, one handler per connection | connect, join, chat, leave, disconnect, drop an empty room | handlers through the room's list | a broadcast walks a list that others change at every await; clean-ups that meet | those who are there get every message, in the sender's order; nobody live is struck off; an occupied room stays registered |
| **Push notifications** `chapters/ch06_push_notifications/` | subscriptions per customer, orders, push log | subscribe, place, advance, notify; the subscriber script | push service | ids that never match, pushes that fail, payloads cut to a limit | every status is pushed once and in order to those who subscribed |
| **Kafka simulation** `appendices/appendix_b_message_queues/kafka_simulation.py` | partition logs, consumers' offsets, committed offsets, the assignment | produce, poll, seek, add/remove consumer, rebalance | consumers through the group | rebalancing without commit, offsets restored late, seeks to any offset | one owner per partition, no record left out that was not jumped over, a key in order |
| **Work queue against pub/sub** `appendices/appendix_b_message_queues/queue_vs_pubsub_demo.py` | unbounded queues | put, get, stop by poison pills | workers, subscribers | number and place of the pills | every message to exactly one worker, or to each subscriber in order; everybody ends |
| **Resilience patterns** `appendices/appendix_d_resilience/resilience_demo.py` | circuit state, sliding failure window, retry times, stored responses | allow, record success/failure, retry budget, idempotent call | a payment service, other services in a chain | answers that come late, a test request that never reports, expiry, nested retries | the circuit follows its evidence and recovers; no charge or order twice; retries within budget |
| **Sessions / stateless API** `chapters/ch08_stateful_vs_stateless/` | session dictionary and orders per process; none | login, recognise, place and read orders | load balancer | routing, restart, expiry | a credential is honoured exactly where it should be |
| **Multiplexing** `chapters/ch09_multiplexing/` | handlers, the shared order and driver | encode, send, receive loop, three handlers | WebSocket | 16-bit length, one loop for all streams, two connections on one order | answers in turn, none skipped; each advance told once |
| **Sidecar** `chapters/ch10_sidecar/` | token bucket per address; the service's orders | authenticate, limit, forward | upstream service | refill arithmetic with a clock that is set back, order of checks, answers that do not come | bounded rate, nothing forwarded unauthenticated, answers that tell the truth |
| **TCP and HTTP from scratch** `chapters/ch00_foundations/` | the connection being served | accept, receive, parse, route, close | clients through a byte stream | requests that arrive in pieces or together, a client that is silent or does not read, errors nobody catches | whole requests are answered right and in order; others are served unless such a client holds the server |
| **Order store** `shared/db.py`, `shared/models.py` | orders, restaurants, drivers, a lock nobody ever waits for | place, look up, advance along `ORDER_FLOW` | every server | final status, shared order objects read after a wait | the status moves one step forward at a time |
| Request/response (ch01), polling comparison (ch03), gRPC (A), GraphQL (C), synthesis (ch11), benchmarks | counters at most | single requests, printing | | | not modelled, see section 8 |

The hazards this code is exposed to, each at its line and with the properties
that watch over it, are in `PROJECT.json`.

## 2. How the models are built

- **A step is the code between two real suspensions.**  `publish()`,
  `_broadcast()` of chapter 4, `_rebalance()` or a whole HTTP handler of chapter 3
  never suspend, so each is one action.  `unsubscribe()`, `stop()`, the chat
  broadcast and a held poll are cut exactly at their awaits, and their local
  variables (the stale index `i`, the list of dead clients, the event a poll
  waits on) are part of the state.
- **Data is what the properties tell apart.**  An event, a chat message or a
  record is its number; a topic a model value; a status its place in `ORDER_FLOW`.
- **Time is an age.**  Appendix D stores moments and compares them with
  `time.time()`; the models store how long ago they are, in ticks, and stop counting
  where growing older changes nothing.  So a run needs no bound on time for the
  breaker, and liveness can be asked of it.  The sidecar keeps the clock
  itself, because it can be set back.
- **Models and bounds.**  Bounds of the model (`MaxEvents`, `MaxGiveUps`,
  `MaxMoves`, `MaxChats`, `MaxDrops`, `MaxRestarts`, `MaxFlips`, ...) are constants that only
  appear in guards and are marked as bounds; every other constant is a parameter
  of the code (`QueueSize`, `MaxHistory`, `FailureThreshold`, ...), scaled down in the
  .cfg so that queues fill, logs are trimmed and windows pass within a few steps.
- **Faults** are actions: a connection that breaks, a process that is started
  again, a callback that raises, a call that never reports, a push or a
  forwarded request that fails, an event that is published again.
- **History variables** are declared apart, and no guard reads them, except for
  the bounds on their length.
- **Mutants** (definitions with a `Mutant:` comment, just before what they
  change) are plausible mistakes in the code; each property has one that breaks it.

## 3. The modules

| Module | Role |
|---|---|
| `EventBroker` | the broker of chapter 7, with `TopicPatterns` (the matching of topics), `PubSubPromise` (the abstract specification), `MCEventBroker`, `EventBrokerProofs` |
| `OrderServices` | publisher and subscribers of chapter 7 on top of `PubSubPromise`, with `ServersProofs` |
| `LongPoll` | server, client and order store of chapter 3, with `StatusWatch` (abstract), `MCLongPoll`, `LongPollProofs` |
| `ConsumerGroup` | the Kafka simulation of appendix B, with `WorkLog` (abstract), `MCConsumerGroup`, `ConsumerGroupProofs` |
| `ChatRoom` | rooms, registry and connection handlers of chapter 5, with `MCChatRoom`, `ChatRoomProofs` |
| `EventStream` | server, dashboard and Python client of chapter 4, with `MCEventStream`, `EventStreamProofs` |
| `ResiliencePatterns` | circuit breaker, retry budget, backoff and idempotency store of appendix D as operators; used by `BreakerCalls` (the breaker alone, with concurrent callers), `Payments` (the combined scenario), `OrderKeys` (orders under idempotency keys), `RetryChain` (retry amplification) |
| `PushNotifications` | server and subscriber script of chapter 6 |
| `ShortPolling` | server and poller of chapter 2 |
| `WorkQueue` | the two demos of `queue_vs_pubsub_demo.py` |
| `MCPatterns` | instances of the small modules above (appendix D, chapters 2 and 6, the work queue), one per behaviour, with `PatternsProofs` |
| `SocketServers` | the echo and the HTTP server of chapter 0, with `ServersProofs` |
| `Multiplex` | protocol, demultiplexer, handlers and client of chapter 9, with `ServersProofs` |
| `Sessions` | both APIs of chapter 8, with `ServersProofs` |
| `Sidecar` | proxy and service of chapter 10, with `ServersProofs` |
| `MCServers` | instances of `ChatRoom`, `Multiplex`, `Sessions` and `Sidecar`, whose properties are safety only, one per behaviour |
| `MCServices` | instances of `OrderServices` and `SocketServers`, one per behaviour |
| `Lists` | Python's list comprehension with a condition (`Keep`), for every module that filters a list, with `ListsProofs` |

Modules with small instances are checked together: `MCPatterns`, `MCServers` and
`MCServices` pick one module in the initial state (`scenario`), step only that one
and leave the variables of the others where they start.  A property of a module
that is not run holds of its initial state only, so each is checked on exactly
the behaviours of its own module.

### EventBroker

`subscriptions` is `_subscriptions` in its order, `queue[s]` the bounded queue,
`worker[s]` where `_subscriber_worker` stands (`get`, `callback`, `cancelling`,
`stopped`) and `hand[s]` the event in its callback.  `call[c]` is a caller of
`unsubscribe()` or `stop()` suspended in `await sub._worker_task`, with the index
it keeps across that await; `shifted` records which of them have lost their place
because another has changed the list before it.  `Publish` is the whole of `publish()`: log, trim,
match, put or drop.  `Take`, `CallbackReturns`, `CallbackRaises` and `WorkerStops` are the
worker; `Unsubscribe`/`UnsubscribeResumes` and `Stop`/`StopResumes` are the two halves
of the removers; a worker that is cancelled inside a callback loses the event in
hand.  `PubSubPromise` is what a subscriber may count on, without queues or
workers: its events, in publishing order, each at most once; `EventBroker`
implements it with `published` and `taken` for its two variables.
`TopicPatterns` defines `Matches` from `_matches`, and `MCEventBroker` computes the
constant `Interest` from patterns with it.

### LongPoll

`status` is the order store, `event[o]` which `asyncio.Event` the order has now,
`fired[o]` the ones that were set.  `poll[p]` is a `poll_order` call suspended in
`wait_for`, with the event it captured and the status it was asked with.
`Advance` is the handler: next status, `event.set()`, `_reset_event`.  A held poll ends
in `PollNotified` or, once `TimerFires` has cancelled its wait, in `PollTimesOut`, which
reads the status of the *shared* order object.  `Receive` is one turn of the
client's loop, `GiveUp` its own read timeout, after which the server still holds
the orphaned poll.  `StatusWatch` says what following an order means: its status
moves forward, and a follower's knowledge only moves forward to statuses
reached.

### ConsumerGroup

`log[p]` holds the keys of a partition's records, `offsets` the position of each
consumer in each partition, `committed` what `remove_consumer` wrote, `owned` the
assignment.  `Rebalance` is `_rebalance` as a whole: modulo assignment over the
sorted members, then for each partition the committed offset if there is one,
the consumer's own old one otherwise, else 0; `AddConsumer` does it without a
commit.  `Sorted` is a constant whose assumption is what `sorted()` guarantees.
`Seek` takes any offset, ahead of the log's end and before its start included, as
`seek()` does; `jumped` records what it passed over unread.  `WorkLog` is the
promise: a worker group processes a log in order and without a gap but for what
its caller made it skip, possibly repeating.

### ChatRoom

One connection, one handler, one `task[c]` with the locals of the broadcast it is
in: the position in the live list (`next`) and the clients found dead.  A
step goes from one send to the next; a send to an open connection succeeds,
to a closed one it fails.  `Connect` is everything up to the first send of
`add_client`; `Join`, `Chat` and `Leave` record their message and start a broadcast;
`Resume` walks on or finishes, with `Clean` for the `clients.remove(dead)` calls that
may raise; `DropRoom` is the check for an empty room, which pops the registry by
order id.  Typing indicators and pings send without changing state.
`got`, `caught` and `shrunk` record what a client was sent live, what it
found in the history, and in whose broadcast somebody left the list.

### EventStream

Event *n* is the n-th ever broadcast, its id counts from the last restart.
`stream[p]` is a queue with its generator: `open` from the request on (already
subscribed), `running` once the generator has computed its replay, `lost` when it
was abandoned before it ever ran.  `Broadcast`, `Open`, `Start`, `Yield`, `Close` and
`Abandon` are the server; `Receive` and `Drop` the clients, of which a browser's
EventSource remembers the id to resume from (`resumeId`) and the Python client
forgets it; `Restart` empties everything the process keeps.

### OrderServices

The broker's part is `PubSubPromise` itself (`Bus == INSTANCE PubSubPromise`, with
`log` and `got`): `EventBroker` implements it, so what is shown here does not depend
on queues and workers.  The services take from the promise the choice that a
queue that never fills makes, every event in turn (`NextFor`).  `hand[s]` is the event
whose callback is asleep; `Begin` is the part before the sleep with its check for
duplicates, `KitchenEnds`, `BillingEnds`, `MatchingEnds` and `AnalyticsEnds` the part after
it, with the mark.  Driver matching has two subscriptions and so two workers on
one dictionary: `Release` may come while a match is asleep (`overtaken`).
`_available_drivers` never shrinks, so two orders can have one driver, and the
model says so.

### Appendix D

`ResiliencePatterns` gives each method of `CircuitBreaker`, `RetryBudget`,
`ExponentialBackoff` and `IdempotencyStore` as an operator on a record.
`BreakerCalls` has any number of callers that ask, call and report, late or never.
`Payments` is `demo_combined`: the whole of `charge_payment` is one step (`Hit`, `Rejected`,
`ServiceDown`, `Charged`), an order backs off between attempts, and the service goes
down and comes back (`Flip`).  Each placement of an order has a task of its own
(`task[o][k]`), so an order is placed again while earlier placements of it back
off.  `OrderKeys` is `create_order`, with clients that repeat
requests and reuse keys.  `RetryChain` is `demo_retry_amplification` with the nested
recursion as a recursive function over services and their traffic.

### PushNotifications, ShortPolling, WorkQueue

`subs[c]` are the endpoints of a customer, who is named by the order that made
them; `SendPushTo` sends to all of them whatever becomes of each, and
`PayloadSize` has the arithmetic of `_build_push_payload` in bytes and characters.
The script of `subscriber.py` subscribes under an id of its own.  In `ShortPolling`
`lastSeen` is the tracker's memory per address and order, `poller[p]` the loop of
`client_poller.py` with its own counters; `SimulatedUseful` is the reference
definition from `metrics.py`.  `WorkQueue` has one mailbox per consumer, which the
workers share and the subscribers do not.

### SocketServers, Multiplex, Sessions, Sidecar

`SocketServers` writes requests as units that arrive whole (start of the head,
blank line, body), `arrived` and `taken` cut the stream anywhere between; `Respond` is
the HTTP server's loop body for one `recv()`, with its parser, its router and the
ways it closes.  An answer is unread until its client reads it, and `sendall()` does
not return while more are unread than `SendBuffer` (`Blocked`).  A connection ends by
a close, a reset, or because TCP gives up on an answer (`lost`); the HTTP server
catches every error, the echo server only two kinds, and `ServerEnds` is what the
others do to it, like `getpeername()` of a connection that was reset in the queue
(`PeerUnknown`).  In `Multiplex` one frame is one step of `Demultiplexer.run` (`Handle`); the
order and the driver are shared by the connections, and whatever raises ends
the connection of all streams.  `Sessions` has a memory per server that restarts
empty, a shared secret, and credentials with the life (`start`) in which they were
issued.  `Sidecar` cuts `proxy()` at its two awaits, so that requests of one address
interleave on one bucket, and lets the answer of the service be late (`502 pending`).

## 4. What the runs check and show

| Run | Instance | Shows |
|---|---|---|
| `broker` | `kitchen` and `analytics`, 2 topics, queues of 2, a log of 1; either 3 events and one remover, or one event and two removers that unsubscribe and stop | balanced metrics, failing and hanging callbacks stay isolated (`MCIsolation`), `EventBroker` implements `PubSubPromise` (in order, at most once); whatever leaves the list was asked for and has ended, unless a remover goes on whose place was moved (`RemovedWhenDone`); removals end |
| `broker_race` | 2 subscriptions, 1 event, two removers | violation: finding 1 |
| `long_poll` | one order of 3 statuses, 2 clients, 2 give-ups, 4 slots | no lost wake-up, exact gauge, news is new, clients catch up, implements `StatusWatch` |
| `consumer_group` | 2 partitions, 3 consumers, 3 records, one key and keyless records, 4 moves, a seek to any offset from -1 on | one owner, no record left behind, key order and everything consumed in the end but for what the seek jumped over, implements `WorkLog` |
| `chat_kick` | 3 connections, 2 messages, history of 4 | violation: finding 2 |
| `event_stream` | a dashboard, 3 events, queue of 2, log of 2, 2 broken connections, a restart | nothing missed but for full queue, trimmed log or a stale id; repeats only from the window between subscribing and replay; exact gauge; it catches up |
| `event_stream_resume` | a dashboard and the Python client | violation: finding 3 |
| `patterns` | `MCPatterns`, seven scenarios | see below |
| `push_limit` | `MCPatterns` | violation: finding 4 |
| `servers` | `MCServers`, four scenarios | see below |
| `services` | `MCServices`, two scenarios | see below |
| `sockets_reset` | `SocketServers`, the *sockets* instance below | violation: finding 5 |

`patterns`, scenario by scenario:

- *calls* (3 callers, threshold 2, window 3, recovery 2, 4 failures, 1 call that
  never reports): the circuit is closed only on fewer recent failures than the
  threshold and opens only on as many (`CircuitFollowsEvidence`); it recovers unless
  the one test request never reports (`Recovers`), and in that trap it stays
  (`TrappedForEver`).
- *payments* (2 orders placed twice, also while the first placement backs off, 3
  attempts, 2 changes of the service, 4 ticks) and *keys* (2 keys, 2 parameters, 4 orders): no charge or order twice
  within the life of its stored response, a confirmed order is charged, a reused
  key is a conflict (`RetriesAreHarmless`); a failed service gets no more calls than
  the breaker's parameters say (`NoHammering`).
- *chain* (5 services, 3 tries each, 6 requests): budgets keep every service's
  traffic at what its own retries account for, never above the
  amplification without budgets (`ChainTamed`).
- *push* (2 orders of 3 statuses, 2 endpoints, the script, a custom notification
  in two kinds of text): each endpoint gets every status from its subscription
  on once and in order, whatever becomes of other pushes (`PushFollowsOrder`).
- *poll* (2 pollers behind one of two addresses, 2 polls each, another reader, a
  restart): what the tracker calls useful is the first telling of a status to an
  address; the poller's own count differs from the reference by the first answer
  and by nothing else (`PollsAccounted`).
- *queue* (3 consumers, 4 messages): shared out without repetition or gap, and
  `gather()` returns (`WorkIsShared`).

`servers`, scenario by scenario:

- *chat* (3 connections, 2 messages, history of 3): rosters tell who is there
  (`RosterTrue`: nobody live is struck off, the registry keeps an occupied room, nobody
  lingers), no gap between history and broadcasts but what a departure causes
  (`NoGap`), per-sender order (`SenderOrder`).
- *mux* (2 connections, 3 frames, one driver's place): answers in the order of the frames,
  none skipped but the last, every advance of the shared order told once
  (`MuxAnswersMatch`).
- *sessions* (2 servers, 2 logins, 1 order, a restart of each, an expiry): credentials are
  honoured exactly where they should be (`SessionsKeep`).
- *sidecar* (4 requests on 2 addresses, a bucket of one and a half tokens, time 3,
  one clock correction): rate bound and truthful answers (`RateBounded`,
  `AnsweredTruly`).

`services`, scenario by scenario:

- *services* (one driver, one callback that raises, 4 events about one order or 3
  about two): charged and displayed once (`OncePerOrder`), assignments and releases
  add up and only an overtaken cancellation keeps a driver (`DriversAccounted`), every
  order is served in the end (`EveryOrderServed`).
- *sockets* (both servers; 2 clients, an accept queue of 1, receive buffers of 4
  units, one unread answer in the send buffers, 2 requests): answers match whole
  requests however the stream is cut, and torn ones never lead to a second or a
  misplaced answer (`AnswersMatch`); a waiting client is served unless the server is
  for ever with a client that stays connected and silent or does not read its
  answers, or the echo server has ended (`EveryoneServed`).

Why the bounds are enough to be interesting: in each passing run the queues
overflow, the logs are trimmed and the lists shift.  The broker's instance has
more events than the queue and the log hold; two removers on two subscriptions
meet before, at and behind each other's place.  Three statuses give a long poll a
first, a middle and a final change, and two give-ups leave two orphaned polls of
the same client next to a live one.  Three consumers on two partitions leave
one idle, and four moves let a consumer leave, come back and find an old commit,
also one that a seek had put beyond the log.
Four events about one order leave room to publish one again next to its placement,
confirmation and cancellation; three about two orders make a worker go from one
order to the other.
Three connections are what a list iterator needs to skip one, and three rooms
are the most that three connections can create.  Three events, a queue and a
log of two reach the drop, the trim and an out-of-order replay; without the
restart's excuse in `since`, TLC shows the event that an out-of-order replay by a
stale id hides for good.  Three callers let two failures open the circuit
while the answer of a third, older request is out, and the window is longer
than the recovery so that old failures meet a reopened circuit.  Four ticks pass
the life of a stored response with one to spare.  A buffer of four units holds
a whole request and part of the next.  One accept slot makes two clients wait
for each other, and two answers to one client fill the send buffers.  The bucket holds one token and half of another, so that both
the cap and the refill in between decide.  Symmetry is used for the chat's
connections only, in runs without liveness.  Deadlock is not checked:
everything here may come to rest, once the bounds are used up or nobody calls.

What the properties allow is part of their meaning.  `NoGap` excuses exactly the
messages in whose broadcast somebody left; `NothingMissed` exactly the events
that a full queue or the trimmed log cost the client, and those before a
client's fresh start; `InRegistry` holds until a second room exists, because an
old room's last leaver can drop a newer one; `RemovedWhenDone` excuses the steps of a
remover whose place another has moved, and `broker_race` shows
what such a step does; `LagCoversBacklog`, `KeyOrder`, `AllConsumed` and `WorkLog` excuse the
records a `seek()` jumped over; `EveryOrderServed` the
order on which billing raised; `Recovers` the trapped circuit; `EveryoneServed` the
client that is silent or does not read, and the echo server that has ended; `PayloadsFit` (in `PushFollowsOrder`) texts that are not ASCII;
`AnswersInTurn` (in `MuxAnswersMatch`) the frame that ended its connection.

## 5. Fairness

Fairness is given to what the event loop, the network or the process itself
drives, never to users.

- Broker: weak fairness of a worker that can take an event or stop, and of a
  remover whose worker has stopped.  Callbacks return or raise in the end,
  except those of the subscriptions in `Stuck` (the kitchen's, in the run), which
  may hang for ever: `MCIsolation` is about the others.  Nobody need publish.
- Order services: weak fairness of each worker and of each sleep of a callback.
  The broker delivers (its workers are fair), nobody need publish.
- Long polling: weak fairness of a woken or timed-out call, of the client's next
  poll and of its reading of a reply.  Orders need not advance; no fairness of
  the timer is assumed, and give-ups are bounded.
- Consumer group: weak fairness of each member's poll, because the demo's
  consumers poll in a loop.  Members come and go a bounded number of times.
- Event stream: weak fairness of the generators, of delivery, and of connecting
  again, which EventSource does by itself and the Python client in its retry
  loop.  Connections break a bounded number of times.
- Breaker: requests keep coming, a call ends one way or another (`Succeed`, `Fail` or
  `Lose`, by no choice of the model), and time passes.  The service fails a bounded
  number of times; nothing makes a lost call come back.
- Work queue: some consumer that can go on does; the event loop starves no task
  for ever, and less is enough.
- Sockets: the server goes on when it can, and what was written arrives, as TCP
  promises.  Clients owe nothing: they need not write, read or close.
- Chat, multiplexing, sessions, sidecar, push, short polling: safety only.

## 6. What is proved, and how

The proofs hold for all values of the constants under the named assumption of
each module (`BrokerAssumption`, `LongPollAssumption`, ...), which TLC evaluates in
the runs.  Each proof module has the same shape: lemmas about the operators, an
invariant that is inductive, one step per action, and a temporal theorem by `PTL`.

- **`EventBrokerProofs`**: `TypeCorrect`; `DeliveryOrder` (`InOrderAtMostOnce`);
  `BrokerKeepsPromise` (`PromiseSpec`); `OnlyShiftedMiss` (`RemovedWhenDone`) for any number of
  removers; `SingleRemoverIsSafe` (`OnlyAskedRemoved`) and
  `StopLeavesNoWorker` (`StopQuiesces`), both under the hypothesis that there is exactly
  one task that removes, without which the code breaks them (section 7).  For `OnlyShiftedMiss`,
  `PlacesKept` says that a remover that has not lost its place still points at the subscription
  it awaits, and, in `stop()`, that every worker up to that place has ended.  `InOrderAtMostOnce`
  is inductive because it speaks of the queues as well: what a queue holds is
  sorted, matches the subscription, and comes after everything its worker took.
  `OnlyAskedRemoved` is not: `RemovalInv` adds that the index a suspended remover
  keeps still points at the subscription it was asked for (`RemovalIsAimed`) and
  that this one was asked for (`AskedFirst`), which is just what a second
  remover destroys.  For `StopQuiesces`, `QuietInv` adds that whoever is off the list
  rests (`UnlistedRest`), that behind the position where `stop()` is suspended every
  worker has returned (`StopSweeps`), so that only a subscription made meanwhile, at the
  end of the list, can still be ahead of it, and that a stopped broker has an empty list.
  `BooksAlwaysBalance` (`BooksBalance`) needs no more than that a worker that waits has
  nothing in hand and one that runs its callback has one event (`HandsKnown`); the work is in
  the sums over all subscribers, of which a publication changes many terms at once.
- **`ServersProofs`**, order services: `ServicesTyped`; `ChargedAndShownOnce` (`OncePerOrder`);
  `DriversAreAccounted` (`DriversAccounted`).  The check before the sleep and the mark
  after it are safe because a worker has one event in hand at most (`HandInv`), and
  so what the check saw still holds when the callback wakes up (`StillNew`).  For
  the drivers `NoneToCome` adds that an order whose cancellation was handled has no
  confirmation left to match, unless it was overtaken; it is inductive because
  the order service publishes no confirmation after a cancellation.
- **`LongPollProofs`**: `TypeCorrect`; `NothingSleptThrough` (`NoLostWakeup`);
  `NewsIsAlwaysNew` (`NewsIsNew`); `GaugeIsExact` (`WaitingIsHeld`); `LongPollWatches`
  (`WatchSpec`).  `FollowInv` strengthens: the current event was never set
  (`EventFresh`), a woken poll has missed something (`WokenMissed`), a client has
  one live poll or reply (`OneAnswer`), and nobody knows a status before it is
  reached (`KnownReached`).  `FollowInv` was model-checked before it was proved.
- **`ConsumerGroupProofs`**: `TypeCorrect`; `OwnedOnce` (`OneOwner`); `NothingLeftOut`
  (`LagCoversBacklog`); `KeysInOrder` (`KeyOrder`); `GroupKeepsPromise` (`PromiseSpec`).
  `GroupInv` says that every offset a partition could be resumed from, current
  or committed, has only consumed or jumped records behind it (`BehindIsDone`), that what is
  consumed of a log is a prefix but for the jumped ones (`DoneIsPrefix`), that the assignment is the one the
  sorted members give (`SharedOut`) and that a key's records are where the key
  belongs (`KeysAtHome`).  So the missing commit in `add_consumer` costs repeats, never
  a record, and a seek costs what it jumped over and nothing else, wherever its offset is
  committed and resumed: a statement about every number of consumers and moves that no
  test could make.
- **`EventStreamProofs`**: `TypesHold`; `SubscribersAreCounted` (`GaugeIsSubscribers`);
  `ReplayJoinsQueue` (`NothingMissed`); `RepeatsAreBounded` (`RepeatsOnlyFromWindow`).
  The gauge is inductive with nothing but "every stream has a stage": an
  abandoned generator, which never lowers the gauge, is also never unsubscribed.
  For the other two, `Line(c)` is what a served client has still to read: what is on
  the wire, the rest of the replay, the queue.  `DeliveryInv` says that whatever is due
  was read or is in the line, and that nothing in the line overtakes what is due
  before it (`Complete`), that the line ascends but for events of the window between
  subscription and first step (`Ascends`), and that the id a client resumes from
  stands for all that is due before it (`ResumeStands`): the replay and the queue
  overlap, but leave no gap.
- **`ChatRoomProofs`**: `ChatTypesHold`; `RostersTell` (`RosterTrue`); `SendersInOrder`
  (`SenderOrder`); `NothingFallsBetween` (`NoGap`).  `SeatInv` holds rooms, lists and
  handlers together: a list names nobody twice and only members of its room, the
  clients a broadcast has found dead are closed, an occupied only room is
  registered.  `MailInv` adds that no client from a broadcast's place in the list on has
  its message (`MailAhead`), which survives the removals that move the list under it.
  `GapInv` adds the three ways to have a recorded message, in the history one found,
  by having it, or by a broadcast whose place is not past one yet, and names the only
  excuse: somebody left the list in that broadcast (`shrunk`).
- **`ServersProofs`**, sessions: `SessionsTyped`; `CredentialsKept` (`SessionsKeep`).  `StoreIsHome`
  ties the store of a server to its present life: what it holds was issued in
  this life, all of this life that has not expired is held, and its customers are
  known; `IssuedByLife` keeps a later life from being mistaken for an earlier one.
- **`ServersProofs`**, sidecar: `SidecarTyped`; `RateIsBounded` (`RateBounded`); `AnswersAreTrue`
  (`AnsweredTruly`).  For the rate, `BucketInv` keeps an account for every admitted
  request: what its address has used from it on, with what is left in the bucket,
  is no more than a full bucket and the refill since.  A clock set back only
  makes a refill smaller, which is why the bound is about the time that really
  passed.  For the answers, `StageInv` says how far a request must have come to be
  handled, and `OrdersInv` counts the orders by their requests.
- **`ServersProofs`**, multiplexing: `MuxTyped`; `AnswersAreMatched` (`MuxAnswersMatch`).  The property
  speaks of sets of answers, `AdvanceInv` of one and two answers at a time: different
  advances told different statuses (`Apart`), none beyond the present one
  (`Reached`), and none untold while no client has left (`AllTold`).  `HandledInv` keeps
  an answer from naming a frame that is not there yet, so that later frames
  change nothing about it.
- **`ServersProofs`**, socket servers: `SocketsTyped`; `StreamsAreAnswered` (`AnswersMatch`).
  A stream is the concatenation of its requests' parts, so a request has a place in
  it, from the end of the requests before it to its own (`EndOf`, `Block`), the request
  lines in it ascend (`LinesAscend`), and writing more changes nothing before
  (`UnitsBegin`).  The strengthening says that an answer to a request was given when its
  line was taken (`LinesTaken`), so that a later `recv()` answers a later request,
  and that a client all of whose requests came whole has had as many answers as
  there are requests in what was taken (`WholeSoFar`).
- **`PatternsProofs`**, appendix D: `RetriesChargeOnce` (`RetriesAreHarmless`);
  `CircuitHasEvidence` (`CircuitFollowsEvidence`, an invariant and an action property);
  `OutageIsSpared` (`NoHammering`).  An order may have any number of placements under way; they
  share one key, and every look-up, charge and storing is one step.  A stored response and the order or the charge it
  stands for age together (`BindingInv`, `ChargeInv`), so the key is free again exactly
  when the order it made is too old to count.  The breaker prunes its list of
  failures when it pleases; `EvidenceInv` says that within the window the list and the
  history agree all the same.  `OutageInv` accounts for the calls an outage costs: while
  the circuit is closed, what the window, cut at the multiples of its size, lets
  through; while it is open, one test in each recovery timeout.
- **`PatternsProofs`**, short polling and push: `PollsAddUp` (`PollsAccounted`);
  `PushesFollow` (`PushFollowsOrder`).  `PollInv` counts the useful polls as a set of
  (address, order, status), keeps for each poller a tally of what it heard, and
  ties the two memories of one status, server's and poller's, together as long as
  nobody else asks and the server stays up (`Alone`).  `PushInv` says that the statuses
  pushed to an endpoint are the ones since it joined, without a gap (`SentOf`), and
  that nothing was ever pushed to the endpoint of the script (`ScriptInv`).
- **`PatternsProofs`**, retry chain: `ChainIsTamed` (`ChainTamed`).  A call of one service runs
  through all the services behind it, so the argument is about calls (`Call`): from traffic
  that keeps the budgets from service `s` on, a call of `s` returns such traffic, with one
  request more for `s` and the services before it untouched.  `EveryCall` shows it from the
  last service back to the first, and `Attempting` from one attempt of a service to the next.
- **`ListsProofs`**: induction over numbers and sequences as a statement about sets
  (`UpTo`, `BySequence`), from the well-foundedness of `<`, because a set of
  counterexamples can be named where the library's theorems want an operator; with it
  what `Keep` returns for an appended, concatenated, filtered or shortened list; that a
  recursion over numbers has a solution (`Iterates`), so that a definition by recursion
  satisfies its equations, and that sequences can be joined (`JoinsUp`); and the sum of a function over a finite set (`SumAdds`,
  `SumOfOnes`, `SumGrows`), which the library has no theorems about.

Besides what finite sets and numbers need, the assumptions ask for little: a push
payload may hold at least two units (`Limit`), or the text of a status alone would not
fit; a poller polls at least once (`MaxPolls`), and no stream is `None`.

Only model-checked, because TLAPS does not cover it: liveness and whatever
involves ENABLED (`RemovalEnds`, `MCIsolation`, `CatchesUp` of both modules, `AllConsumed`,
`EveryOrderServed`, `Recovers`, `EveryoneServed`, `WorkIsShared`).  Every invariant the passing runs check is the
property of a theorem; of the rest, only the first half of `WorkIsShared` (`SharedOut` of
the work queue), a statement about states, might be proved as well.

## 7. Where code and documentation disagree

Each of these is a run that TLC refutes with a trace; `PROJECT.json` quotes the lines.

1. `broker_race`: two `unsubscribe()` calls overlap; the index kept across the await
   pops a subscription nobody asked to remove (`broker.py:206`).
2. `chat_kick`: two broadcasts find the same dead client; the second
   `clients.remove` raises, and a live sender's handler leaves (`chat_room.py:238`).
3. `event_stream_resume`: the Python client loses the id it read when its
   connection breaks and reconnects without `Last-Event-ID` (`client.py:310`).
4. `push_limit`: a payload that is not ASCII is cut by the excess in bytes taken for
   characters, and a slice bound just below zero cuts one character: it stays over
   4096 bytes (`server.py:223` of chapter 6).
5. `sockets_reset`: `getpeername()` of a connection that was reset in the accept queue
   raises outside every `try`, and the echo server ends (`tcp_echo_server.py:160`,
   against `:278-279`).

More behaviours of the code show in the models without a run of their own:

- An `unsubscribe()` that shortens the list while `stop()` awaits a worker makes its
  loop pass over the next subscription, whose worker is never cancelled
  (`broker.py:136`, against `:135`).  So `StopQuiesces` holds for one remover only; for
  several `RemovedWhenDone` excuses just such a loop.
- `stop()` of the broker promises to drain the queues (`broker.py:132`) and forgets
  what is in them.
- A long poll whose timeout races an advance answers `changed=False` with a new
  status (`server.py:350`, against `server.py:134`).  The client is not harmed: it
  keeps its own status, and `CatchesUp` holds.
- Somebody who leaves during a chat broadcast makes the list iterator skip a
  participant who is still there (`chat_room.py:226`, against `:179`); `NoGap` excuses it.
- A room dropped by an older room's last leaver splits later participants over
  two rooms (the reason for `created = 1` in `InRegistry`).
- A request abandoned before its generator ran leaves its queue subscribed for
  ever (`Abandon`).
- The half-open circuit never ends when its test does not report (`TrappedForEver`), and
  it ends with the answer of any request, not only of its test
  (`resilience_demo.py:335`, against `:271-272`; `TestDecides` says what the docstring
  does, and the code does not keep it).
- An order refused by the open circuit counts as placed, its charge left to a queue
  that does not exist (`resilience_demo.py:932`, against `:930-931`).
- A poll counts as useful when its status differs from the last one told to the
  same *address* and order (`server.py:79-82` of chapter 2); the docstring
  (`server.py:52-53`) says "the last status the same client saw", which differs for two
  clients behind one address.  `PollsAccounted` is about addresses.
- `get_lag()` of the Kafka simulation is negative for an offset sought past the end,
  and a partition sought to a negative offset is not read until it is sought or
  resumed elsewhere.
- `place_order` of chapter 6 makes a new customer for each order, so its
  confirmation push has no endpoint to go to, and the script that subscribes
  under its own id hears nothing (`ScriptHearsNothing`).
- A chat frame near the 16-bit limit is accepted and its answer, which is
  longer, ends the connection for all streams.
- "Can be read by ANY server" (`stateless_api.py:218`) is true of tokens, not of
  orders, which stay in the memory of the process that took them.
- The two socket servers take each `recv()` for a request, so a request in pieces is
  answered 400 or garbled, and one client that is silent or does not read its
  answers keeps all others waiting.

## 8. What is not modelled

Text formats and their parsers (SSE lines, JSON, GraphQL; of HTTP only how pieces
are told apart), cryptography (VAPID, HMAC), the printed scenarios, the browser
pages apart from what EventSource does, counters that only grow and no
property needs, and requests for orders that do not exist, where they change
nothing.

Components without a module: *request and response* (chapter 1) has the handlers of
chapter 2 and no state between requests; the *polling comparison* of chapter 3
measures two ways of polling that are both modelled; the *gRPC demo* (appendix A)
prints sizes and timings of wire formats; *GraphQL subscriptions* (appendix C) is a
schema with resolvers, whose subscription is a loop over one order's statuses;
the *synthesis* (chapter 11) is a scripted tour on timers; the *benchmarks* measure.
None of them keeps state that two actors share.

Of the modelled components these parts are left out: a callback that
unsubscribes itself and a caller that is itself cancelled (broker); a
`Consumer` object that is used after it left its group (Kafka), which the repository
does not do; `cleanup_empty_rooms`, which has no
caller, and sends that never return (chat); placements that the sidecar's service refuses for
their restaurant or items, which change nothing, as a read does; heartbeats of the event stream; the
jitter strategies other than full jitter, which appendix D only plots, and `prune()` of
the retry budget, which has no caller; what the push service does with urgency,
TTL and topic; the demonstrations of chapter 7 and of the scaling script of chapter
8, which are sequences of sleeps and prints around what is modelled.

## 9. What could follow

1. A proof of `SharedOut`: a mailbox is always what is left of the one the producer filled
   (`Filled`), so that what was taken from it, in whose hands it ever is, ascends.
2. An abstract specification of a resumable stream, which `EventStream` implements up
   to its excuses, as `PubSubPromise` is for the broker.
