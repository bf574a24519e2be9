------------------------------ MODULE WorkQueue ------------------------------
(***************************************************************************)
(* The two halves of queue_vs_pubsub_demo.py (appendix B): competing       *)
(* consumers on one asyncio.Queue, and subscribers that have a mailbox     *)
(* each.  The queues have no limit, so the producer runs to its gather()   *)
(* without suspending, poison pills included, before any consumer starts;  *)
(* from then on the consumers interleave in their sleeps.                  *)
(***************************************************************************)
EXTENDS Naturals, Sequences, SequencesExt

CONSTANTS
    Consumers,   \* the workers, or the subscribers
    NumMessages  \* messages 1 .. NumMessages are put in this order

ASSUME WorkQueueAssumption ==
    IsFiniteSet(Consumers) /\ Consumers # {} /\ NumMessages \in Nat

VARIABLES
    fanOut,     \* TRUE for publish/subscribe: a mailbox per subscriber
    mailbox,    \* mailbox[c]: with one queue, every consumer's is the same
    busy,       \* busy[c]: the message in c's hands, 0 for none
    consumer,   \* consumer[c]: "created", "running" or "ended"
    results     \* results[c]: the messages c has processed, in order

queueVars == <<fanOut, mailbox, busy, consumer, results>>

-----------------------------------------------------------------------------
Pill == 0
Messages == 1 .. NumMessages

\* Mutant: stop() sends one pill, whatever the number of consumers.
OnePill == <<Pill>>

\* MessageQueue.stop: a pill for each worker.
Pills == [i \in 1 .. Cardinality(Consumers) |-> Pill]

\* What the producer leaves behind when it comes to gather().
Filled == [i \in Messages |-> i] \o (IF fanOut THEN <<Pill>> ELSE Pills)

QueueInit ==
    /\ fanOut \in BOOLEAN
    /\ mailbox = [c \in Consumers |-> Filled]
    /\ busy = [c \in Consumers |-> 0]
    /\ consumer = [c \in Consumers |-> "created"]
    /\ results = [c \in Consumers |-> <<>>]

\* get() takes the head of c's mailbox: of everybody's, if they share one.
Get(c) ==
    mailbox' = IF fanOut THEN [mailbox EXCEPT ![c] = Tail(@)]
               ELSE [d \in Consumers |-> Tail(mailbox[d])]

\* queue_worker, pubsub_subscriber: note what is in hand after the sleep,
\* then get the next message and go to sleep with it, or end at a pill.
Work(c) ==
    /\ consumer[c] # "ended"
    /\ mailbox[c] # <<>>
    /\ Get(c)
    /\ busy' = [busy EXCEPT ![c] = Head(mailbox[c])]
    /\ results' = IF busy[c] = 0 THEN results ELSE [results EXCEPT ![c] = Append(@, busy[c])]
    /\ consumer' = [consumer EXCEPT ![c] = IF Head(mailbox[c]) = Pill THEN "ended" ELSE "running"]
    /\ UNCHANGED fanOut

QueueNext == \E c \in Consumers : Work(c)

QueueSpec == QueueInit /\ [][QueueNext]_queueVars /\ WF_queueVars(QueueNext)

-----------------------------------------------------------------------------
QueueTypeOK ==
    /\ fanOut \in BOOLEAN
    /\ mailbox \in [Consumers -> Seq(Messages \union {Pill})]
    /\ busy \in [Consumers -> Messages \union {0}]
    /\ consumer \in [Consumers -> {"created", "running", "ended"}]
    /\ results \in [Consumers -> Seq(Messages)]

Held(c) == Len(SelectSeq(mailbox[c], LAMBDA m : m # Pill)) + (IF busy[c] = 0 THEN 0 ELSE 1)

\* Workers: no message in two hands, and each worker's in the order they were
\* put.  Subscribers: each has the messages in order, without a gap.
SharedOut ==
    /\ \A c \in Consumers : \A i, j \in DOMAIN results[c] :
          i < j => results[c][i] < results[c][j]
    /\ ~ fanOut => \A c, d \in Consumers :
          c # d => ToSet(results[c]) \intersect ToSet(results[d]) = {}
    /\ fanOut => \A c \in Consumers :
          results[c] = [i \in 1 .. NumMessages - Held(c) |-> i]

\* gather() returns, and by then everything has been processed.
Processed ==
    /\ \A c \in Consumers : consumer[c] = "ended"
    /\ UNION {ToSet(results[c]) : c \in Consumers} = Messages

WorkDone == []SharedOut /\ <>[]Processed
=============================================================================
