---------------------------- MODULE ConsumerGroup ----------------------------
(***************************************************************************)
(* A partitioned topic and one consumer group reading it                   *)
(* (src/appendices/appendix_b_message_queues/kafka_simulation.py).         *)
(*                                                                         *)
(* Every method is synchronous, so each call is one step.  Offsets count   *)
(* from 0: the record at offset o of partition p is log[p][o + 1].  Groups *)
(* share nothing but the topic, which they only read, so one group is      *)
(* modelled.                                                               *)
(***************************************************************************)
EXTENDS Integers, Sequences, FiniteSets

CONSTANTS
    N,            \* num_partitions
    Consumers,    \* consumer ids
    Sorted,       \* Sorted[M]: the ids in M as sorted() lists them, from 0
    Keys, NoKey,  \* record keys, and a record's key when it has none
    Hashed,       \* Hashed[k]: md5 of k modulo N
    MaxPoll,      \* the largest max_records of a poll()
    MaxRecords,   \* bound of the model: records produced
    MaxMoves,     \* bound of the model: joins and leaves
    MaxSeeks      \* bound of the model: seeks

Partitions == 0 .. N - 1

ASSUME GroupAssumption ==
    /\ N \in Nat \ {0}
    /\ IsFiniteSet(Consumers)
    /\ \A M \in SUBSET Consumers :
          /\ Sorted[M] \in [0 .. Cardinality(M) - 1 -> M]
          /\ \A i, j \in 0 .. Cardinality(M) - 1 :
                Sorted[M][i] = Sorted[M][j] => i = j
    /\ NoKey \notin Keys
    /\ Hashed \in [Keys -> Partitions]
    /\ MaxPoll \in Nat \ {0}
    /\ MaxRecords \in Nat
    /\ MaxMoves \in Nat
    /\ MaxSeeks \in Nat

VARIABLES
    log,        \* log[p]: the keys of the records of partition p
    rr,         \* _rr_counter
    members,    \* the keys of ConsumerGroup.consumers
    assigned,   \* assigned[c]: assigned_partitions
    offsets,    \* offsets[c]: offsets, 0 where the dict has no entry
    committed,  \* _committed_offsets, on the partitions it has
    consumed,   \* history: the offsets of each partition some poll() returned
    jumped,     \* history: those a seek() passed over, returned by no poll()
    moves,      \* joins and leaves so far
    seeks       \* seeks so far

vars == <<log, rr, members, assigned, offsets, committed, consumed, jumped,
          moves, seeks>>

-----------------------------------------------------------------------------
Init ==
    /\ log = [p \in Partitions |-> << >>]
    /\ rr = 0
    /\ members = {}
    /\ assigned = [c \in Consumers |-> {}]
    /\ offsets = [c \in Consumers |-> [p \in Partitions |-> 0]]
    /\ committed = << >>
    /\ consumed = [p \in Partitions |-> {}]
    /\ jumped = [p \in Partitions |-> {}]
    /\ moves = 0
    /\ seeks = 0

-----------------------------------------------------------------------------
(* Mutant: keyed records go round the partitions too.                      *)
PartitionAnyway(k) == rr % N

(* The partition produce() appends a record to.                            *)
PartitionFor(k) == IF k = NoKey THEN rr % N ELSE Hashed[k]

Produce(k) ==
    /\ log' = [log EXCEPT ![PartitionFor(k)] = Append(@, k)]
    /\ rr' = IF k = NoKey THEN rr + 1 ELSE rr
    /\ UNCHANGED <<members, assigned, offsets, committed, consumed, jumped, moves,
                   seeks>>

-----------------------------------------------------------------------------
Fresh == [p \in Partitions |-> 0]          \* offsets of a new Consumer

(* Range assignment: partition p goes to consumer p % num_consumers.       *)
Share(M, c) ==
    {p \in Partitions : c \in M /\ Sorted[M][p % Cardinality(M)] = c}

(* Mutant: a partition new to its consumer starts at the end of the log.   *)
StartAtEnd(M, c, p, held, pos, com) ==
    IF p \in Share(M, c) \ held THEN Len(log[p]) ELSE pos[p]

(* Where consumer c, who held the partitions in held at the offsets pos,   *)
(* stands in p after the rebalancing: partitions new to it start at the    *)
(* committed offset, if there is one.                                      *)
Start(M, c, p, held, pos, com) ==
    IF p \in Share(M, c) \ held /\ p \in DOMAIN com THEN com[p] ELSE pos[p]

(* Mutant: consumers that already have partitions keep them.               *)
RebalanceLazily(M, held, pos, com) ==
    /\ assigned' = [c \in Consumers |-> held[c] \cup Share(M, c)]
    /\ offsets' = [c \in Consumers |->
          [p \in Partitions |-> Start(M, c, p, held[c], pos[c], com)]]

(* _rebalance, with the consumers' partitions, positions and the committed *)
(* offsets as they are when it is called.                                  *)
Rebalance(M, held, pos, com) ==
    /\ assigned' = [c \in Consumers |-> Share(M, c)]
    /\ offsets' = [c \in Consumers |->
          [p \in Partitions |-> Start(M, c, p, held[c], pos[c], com)]]

(* A new Consumer object, in the place of the one of that id if there is   *)
(* one.  Nobody's offsets are committed.                                   *)
AddConsumer(c) ==
    /\ moves < MaxMoves
    /\ moves' = moves + 1
    /\ members' = members \cup {c}
    /\ Rebalance(members \cup {c}, [assigned EXCEPT ![c] = {}],
                 [offsets EXCEPT ![c] = Fresh], committed)
    /\ UNCHANGED <<log, rr, committed, consumed, jumped, seeks>>

Committing(c) ==
    [p \in DOMAIN committed \cup assigned[c] |->
        IF p \in assigned[c] THEN offsets[c][p] ELSE committed[p]]

RemoveConsumer(c) ==
    /\ c \in members
    /\ moves < MaxMoves
    /\ moves' = moves + 1
    /\ members' = members \ {c}
    /\ committed' = Committing(c)
    /\ Rebalance(members \ {c}, [assigned EXCEPT ![c] = {}],
                 [offsets EXCEPT ![c] = Fresh], Committing(c))
    /\ UNCHANGED <<log, rr, consumed, jumped, seeks>>

-----------------------------------------------------------------------------
(* The offset after a read of up to max records: before the log and past   *)
(* its end there are none.                                                 *)
Reached(c, p, max) ==
    IF offsets[c][p] \notin 0 .. Len(log[p]) - 1 THEN offsets[c][p]
    ELSE IF offsets[c][p] + max < Len(log[p]) THEN offsets[c][p] + max
    ELSE Len(log[p])

(* Mutant: only the first of the assigned partitions is read.              *)
PollFirst(c, max) ==
    \E p \in assigned[c] :
        /\ \A q \in assigned[c] : p <= q
        /\ Reached(c, p, max) # offsets[c][p]
        /\ offsets' = [offsets EXCEPT ![c][p] = Reached(c, p, max)]
        /\ consumed' = [consumed EXCEPT ![p] =
              @ \cup (offsets[c][p] .. Reached(c, p, max) - 1)]
        /\ UNCHANGED <<log, rr, members, assigned, committed, jumped, moves, seeks>>

(* Mutant: the offset moves by the number of records asked for.            *)
PollPastEnd(c, max) ==
    /\ c \in members
    /\ \E p \in assigned[c] : Reached(c, p, max) # offsets[c][p]
    /\ offsets' = [offsets EXCEPT ![c] = [p \in Partitions |->
          IF p \in assigned[c] THEN offsets[c][p] + max ELSE offsets[c][p]]]
    /\ consumed' = [p \in Partitions |->
          IF p \in assigned[c]
          THEN consumed[p] \cup (offsets[c][p] .. Reached(c, p, max) - 1)
          ELSE consumed[p]]
    /\ UNCHANGED <<log, rr, members, assigned, committed, jumped, moves, seeks>>

(* One poll() over all assigned partitions, up to max records of each.     *)
Poll(c, max) ==
    /\ c \in members
    /\ \E p \in assigned[c] : Reached(c, p, max) # offsets[c][p]
    /\ offsets' = [offsets EXCEPT ![c] = [p \in Partitions |->
          IF p \in assigned[c] THEN Reached(c, p, max) ELSE offsets[c][p]]]
    /\ consumed' = [p \in Partitions |->
          IF p \in assigned[c]
          THEN consumed[p] \cup (offsets[c][p] .. Reached(c, p, max) - 1)
          ELSE consumed[p]]
    /\ UNCHANGED <<log, rr, members, assigned, committed, jumped, moves, seeks>>

(* seek() takes any offset: back, to replay; ahead, past records nobody    *)
(* has read or that are still to come; or before the log.                  *)
Seek(c, p, o) ==
    /\ c \in members
    /\ seeks < MaxSeeks
    /\ seeks' = seeks + 1
    /\ offsets' = [offsets EXCEPT ![c][p] = o]
    /\ jumped' = [jumped EXCEPT ![p] =
          @ \cup {i \in 0 .. o - 1 : offsets[c][p] <= i /\ i \notin consumed[p]}]
    /\ UNCHANGED <<log, rr, members, assigned, committed, consumed, moves>>

-----------------------------------------------------------------------------
Records == UNION {{<<p, i>> : i \in DOMAIN log[p]} : p \in Partitions}

Next ==
    \/ \E k \in Keys \cup {NoKey} :
          Cardinality(Records) < MaxRecords /\ Produce(k)
    \/ \E c \in Consumers :
          \/ AddConsumer(c)
          \/ RemoveConsumer(c)
          \/ \E max \in 1 .. MaxPoll : Poll(c, max)
          \/ \E p \in Partitions, o \in -1 .. MaxRecords : Seek(c, p, o)

Spec == Init /\ [][Next]_vars

(* Every consumer of the group keeps polling; nobody has to produce, to    *)
(* join, to leave or to seek.                                              *)
Fairness ==
    \A c \in Consumers : WF_vars(\E max \in 1 .. MaxPoll : Poll(c, max))

-----------------------------------------------------------------------------
TypeOK ==
    /\ log \in [Partitions -> Seq(Keys \cup {NoKey})]
    /\ rr \in Nat
    /\ members \in SUBSET Consumers
    /\ assigned \in [Consumers -> SUBSET Partitions]
    /\ offsets \in [Consumers -> [Partitions -> Int]]
    /\ DOMAIN committed \subseteq Partitions
    /\ committed \in [DOMAIN committed -> Int]
    /\ consumed \in [Partitions -> SUBSET Nat]
    /\ jumped \in [Partitions -> SUBSET Nat]
    /\ moves \in Nat
    /\ seeks \in Nat

(* "each partition is assigned to exactly one consumer"                    *)
(* (kafka_simulation.py:151), also when there are more consumers than      *)
(* partitions, and whoever joins or leaves.                                *)
OneOwner ==
    members # {} =>
        \A p \in Partitions :
            \E c \in members :
                /\ p \in assigned[c]
                /\ \A d \in Consumers : p \in assigned[d] => d = c

(* Nothing is left out: a record no poll() has returned lies ahead of the  *)
(* owner of its partition, so that the lag of get_lag() (211-220) counts   *)
(* it, unless a seek() jumped over it.  No join, no leave, no replay and   *)
(* no commit left behind by one may lose a record.                         *)
LagCoversBacklog ==
    \A c \in members : \A p \in assigned[c] :
        \A o \in 0 .. Len(log[p]) - 1 :
            o \notin consumed[p] \cup jumped[p] => offsets[c][p] <= o

(* "Same key = same partition = guaranteed ordering for that entity"       *)
(* (kafka_simulation.py:481): of two records with the same key, the group  *)
(* gets the later one before the earlier one only when a seek() jumped     *)
(* over the earlier one.                                                   *)
KeyOrder ==
    \A p, q \in Partitions : \A i \in DOMAIN log[p], j \in DOMAIN log[q] :
        log[p][i] = log[q][j] /\ log[p][i] # NoKey =>
            /\ p = q
            /\ i < j /\ j - 1 \in consumed[p] =>
                  i - 1 \in consumed[p] \cup jumped[p]

(* A group that does not stay empty gets every record in the end that no   *)
(* seek() jumped over, although joins and leaves send it back over records *)
(* it already had; unless a seek() to before the log keeps a consumer from *)
(* reading at all.                                                         *)
AllConsumed ==
    <>[](/\ members # {}
         /\ \A c \in members : \A p \in assigned[c] : offsets[c][p] >= 0) =>
        <>[](\A p \in Partitions :
               0 .. Len(log[p]) - 1 \subseteq consumed[p] \cup jumped[p])

(* What the proofs need: below an offset, current or committed, everything *)
(* was consumed or jumped over, and so it is below whatever was consumed;  *)
(* the partitions are shared out as the last rebalancing did.              *)
BehindIsDone ==
    \A p \in Partitions :
        /\ \A c \in Consumers : \A o \in 0 .. offsets[c][p] - 1 :
              o \in consumed[p] \cup jumped[p]
        /\ p \in DOMAIN committed =>
              \A o \in 0 .. committed[p] - 1 : o \in consumed[p] \cup jumped[p]

DoneIsPrefix ==
    \A p \in Partitions : \A o \in consumed[p] :
        o < Len(log[p]) /\ \A i \in 0 .. o : i \in consumed[p] \cup jumped[p]

SharedOut == assigned = [c \in Consumers |-> Share(members, c)]

KeysAtHome ==
    \A p \in Partitions : \A i \in DOMAIN log[p] :
        log[p][i] # NoKey => Hashed[log[p][i]] = p

GroupInv == BehindIsDone /\ DoneIsPrefix /\ SharedOut /\ KeysAtHome

-----------------------------------------------------------------------------
(* The group processes the log in order and without a gap, but for what    *)
(* its caller told it to skip with seek().                                 *)
Promise == INSTANCE WorkLog
    WITH size <- [p \in Partitions |-> Len(log[p])], done <- consumed,
         skipped <- jumped
PromiseSpec == Promise!Spec
==============================================================================
