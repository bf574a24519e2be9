------------------------- MODULE ConsumerGroupProofs -------------------------
(***************************************************************************)
(* Proofs about the consumer group, for any number of partitions,          *)
(* consumers, records, joins, leaves and seeks.                            *)
(***************************************************************************)
EXTENDS ConsumerGroup, SequenceTheorems, FiniteSetTheorems, TLAPS

(* Sharing out gives every partition to one member of a non-empty group.   *)
LEMMA SharedOnce ==
    ASSUME GroupAssumption, NEW M \in SUBSET Consumers, M # {},
           NEW p \in Partitions
    PROVE  /\ Sorted[M][p % Cardinality(M)] \in M
           /\ \A c \in Consumers :
                 p \in Share(M, c) <=> c = Sorted[M][p % Cardinality(M)]
<1>1. IsFiniteSet(M)
  BY FS_Subset DEF GroupAssumption
<1>2. Cardinality(M) \in Nat /\ Cardinality(M) # 0
  BY <1>1, FS_CardinalityType, FS_EmptySet
<1>3. p \in Nat
  BY DEF Partitions
<1>4. p % Cardinality(M) \in 0 .. Cardinality(M) - 1
  BY <1>2, <1>3
<1>5. Sorted[M][p % Cardinality(M)] \in M
  BY <1>4 DEF GroupAssumption
<1> QED
  BY <1>5 DEF Share

(* The rebalancing moves no consumer beyond what both its own offset and   *)
(* the committed one allow.                                                *)
LEMMA StartCases ==
    ASSUME NEW M, NEW c, NEW p, NEW held, NEW pos, NEW com
    PROVE  \/ Start(M, c, p, held, pos, com) = pos[p]
           \/ p \in DOMAIN com /\ Start(M, c, p, held, pos, com) = com[p]
BY DEF Start

LEMMA CommittingType ==
    ASSUME TypeOK, NEW c \in Consumers
    PROVE  /\ DOMAIN Committing(c) \subseteq Partitions
           /\ Committing(c) \in [DOMAIN Committing(c) -> Int]
           /\ \A p \in DOMAIN Committing(c) :
                 \/ Committing(c)[p] = offsets[c][p]
                 \/ p \in DOMAIN committed /\ Committing(c)[p] = committed[p]
<1>1. DOMAIN Committing(c) = DOMAIN committed \cup assigned[c]
  BY DEF Committing
<1>2. assigned[c] \subseteq Partitions /\ DOMAIN committed \subseteq Partitions
  BY DEF TypeOK
<1>3. \A p \in DOMAIN committed \cup assigned[c] :
          \/ p \in assigned[c] /\ Committing(c)[p] = offsets[c][p]
          \/ p \in DOMAIN committed /\ Committing(c)[p] = committed[p]
  BY DEF Committing
<1>4. \A p \in DOMAIN Committing(c) : Committing(c)[p] \in Int
  BY <1>1, <1>2, <1>3 DEF TypeOK
<1>5. Committing(c) = [p \in DOMAIN Committing(c) |-> Committing(c)[p]]
  BY DEF Committing
<1> QED
  BY <1>1, <1>2, <1>3, <1>4, <1>5

LEMMA ReachedType ==
    ASSUME TypeOK, NEW c \in Consumers, NEW p \in Partitions,
           NEW max \in Nat \ {0}
    PROVE  /\ Reached(c, p, max) \in Int /\ offsets[c][p] \in Int
           /\ Len(log[p]) \in Nat
           /\ \/ Reached(c, p, max) = offsets[c][p]
              \/ /\ 0 <= offsets[c][p]
                 /\ offsets[c][p] <= Reached(c, p, max)
                 /\ Reached(c, p, max) <= Len(log[p])
<1>1. Len(log[p]) \in Nat /\ offsets[c][p] \in Int
  BY LenProperties DEF TypeOK
<1> QED
  BY <1>1 DEF Reached

(***************************************************************************)
(* Rebalancing, for joins and leaves alike.                                *)
(***************************************************************************)
(* com commits nothing but offsets already committed or offsets of c.      *)
CommitsFit(com, c) ==
    /\ DOMAIN com \subseteq Partitions
    /\ com \in [DOMAIN com -> Int]
    /\ \A p \in DOMAIN com :
          \/ com[p] = offsets[c][p]
          \/ p \in DOMAIN committed /\ com[p] = committed[p]

LEMMA RebalanceSafe ==
    ASSUME GroupAssumption, TypeOK, GroupInv,
           NEW M \in SUBSET Consumers, NEW c \in Consumers,
           NEW com, CommitsFit(com, c),
           Rebalance(M, [assigned EXCEPT ![c] = {}],
                     [offsets EXCEPT ![c] = Fresh], com),
           members' = M, committed' = com,
           UNCHANGED <<log, rr, consumed, jumped, seeks>>, moves' = moves + 1
    PROVE  TypeOK' /\ GroupInv'
<1> DEFINE held == [assigned EXCEPT ![c] = {}]
           pos == [offsets EXCEPT ![c] = Fresh]
           Behind(p, n) == n \in Int /\ \A o \in 0 .. n - 1 :
                                            o \in consumed[p] \cup jumped[p]
<1>0. /\ DOMAIN com \subseteq Partitions /\ com \in [DOMAIN com -> Int]
      /\ \A p \in DOMAIN com :
            \/ com[p] = offsets[c][p]
            \/ p \in DOMAIN committed /\ com[p] = committed[p]
  BY DEF CommitsFit
<1>1. \A p \in Partitions :
          /\ \A d \in Consumers : Behind(p, offsets[d][p])
          /\ p \in DOMAIN committed => Behind(p, committed[p])
  BY DEF TypeOK, GroupInv, BehindIsDone
<1>2. \A p \in Partitions : Behind(p, 0)
  OBVIOUS
<1>3. \A p \in DOMAIN com : Behind(p, com[p])
  BY <1>0, <1>1
<1>4. \A d \in Consumers, p \in Partitions :
          pos[d][p] = IF d = c THEN 0 ELSE offsets[d][p]
  BY DEF TypeOK, Fresh
<1>5. \A d \in Consumers, p \in Partitions : Behind(p, pos[d][p])
  <2> HIDE DEF Behind, pos
  <2> QED
    BY <1>1, <1>2, <1>4
<1>6. offsets' = [d \in Consumers |->
          [p \in Partitions |-> Start(M, d, p, held[d], pos[d], com)]]
  BY DEF Rebalance
<1>7. \A d \in Consumers, p \in Partitions : Behind(p, offsets'[d][p])
  <2> HIDE DEF Behind, pos
  <2> QED
    BY <1>3, <1>5, <1>6, StartCases
<1>8. offsets' \in [Consumers -> [Partitions -> Int]]
  BY <1>6, <1>7
<1>9. assigned' = [d \in Consumers |-> Share(M, d)]
  BY DEF Rebalance
<1>10. assigned' \in [Consumers -> SUBSET Partitions]
  BY <1>9 DEF Share
<1>11. TypeOK'
  BY <1>0, <1>3, <1>7, <1>8, <1>10 DEF TypeOK
<1>12. BehindIsDone'
  BY <1>0, <1>3, <1>7 DEF BehindIsDone
<1>13. SharedOut'
  BY <1>9 DEF SharedOut, Share, Partitions
<1>14. DoneIsPrefix' /\ KeysAtHome'
  BY DEF GroupInv, DoneIsPrefix, KeysAtHome
<1> QED
  BY <1>11, <1>12, <1>13, <1>14 DEF GroupInv

LEMMA InvInit == GroupAssumption /\ Init => TypeOK /\ GroupInv
<1> SUFFICES ASSUME GroupAssumption, Init
             PROVE  TypeOK /\ GroupInv
  OBVIOUS
<1>1. /\ \A p \in Partitions : log[p] = << >> /\ consumed[p] = {} /\ jumped[p] = {}
      /\ \A c \in Consumers, p \in Partitions : offsets[c][p] = 0
      /\ DOMAIN committed = {}
  BY DEF Init
<1>2. TypeOK
  BY <1>1 DEF Init, TypeOK
<1>3. BehindIsDone /\ DoneIsPrefix /\ KeysAtHome
  BY <1>1 DEF BehindIsDone, DoneIsPrefix, KeysAtHome
<1>4. SharedOut
  BY DEF Init, SharedOut, Share
<1> QED
  BY <1>2, <1>3, <1>4 DEF GroupInv

LEMMA ProduceStep ==
    ASSUME GroupAssumption, TypeOK, GroupInv, NEW k \in Keys \cup {NoKey},
           Produce(k)
    PROVE  /\ TypeOK' /\ GroupInv'
           /\ PartitionFor(k) \in Partitions
<1> DEFINE h == PartitionFor(k)
<1>1. h \in Partitions
  BY DEF PartitionFor, GroupAssumption, TypeOK, Partitions
<1>2. k # NoKey => Hashed[k] = h
  BY DEF PartitionFor
<1>3. /\ log' = [log EXCEPT ![h] = Append(@, k)]
      /\ UNCHANGED <<members, assigned, offsets, committed, consumed, jumped,
                     moves, seeks>>
      /\ rr' \in Nat
  BY DEF Produce, TypeOK
<1> HIDE DEF h
<1>4. /\ Append(log[h], k) \in Seq(Keys \cup {NoKey})
      /\ Len(Append(log[h], k)) = Len(log[h]) + 1
      /\ Len(log[h]) \in Nat
      /\ \A i \in 1 .. Len(log[h]) : Append(log[h], k)[i] = log[h][i]
      /\ Append(log[h], k)[Len(log[h]) + 1] = k
  <2>1. log[h] \in Seq(Keys \cup {NoKey})
    BY <1>1 DEF TypeOK
  <2> QED
    BY <2>1, AppendProperties, LenProperties
<1>5. \A p \in Partitions : log'[p] = IF p = h THEN Append(log[h], k) ELSE log[p]
  BY <1>1, <1>3 DEF TypeOK
<1>6. \A p \in Partitions : Len(log[p]) \in Nat /\ Len(log[p]) <= Len(log'[p])
  <2>1. \A p \in Partitions : Len(log[p]) \in Nat
    BY LenProperties DEF TypeOK
  <2>2. ASSUME NEW p \in Partitions
        PROVE  Len(log[p]) <= Len(log'[p])
    <3>1. CASE p = h
      <4>1. log'[p] = Append(log[h], k)
        BY <1>5, <3>1
      <4> QED
        BY <1>4, <3>1, <4>1
    <3>2. CASE p # h
      BY <1>5, <2>1, <3>2
    <3> QED
      BY <3>1, <3>2
  <2> QED
    BY <2>1, <2>2
<1>7. TypeOK'
  <2>1. log' \in [Partitions -> Seq(Keys \cup {NoKey})]
    BY <1>3, <1>4, <1>1 DEF TypeOK
  <2> QED
    BY <1>3, <2>1 DEF TypeOK
<1>8. BehindIsDone' /\ SharedOut'
  BY <1>3 DEF GroupInv, BehindIsDone, SharedOut, Share, Partitions
<1>9. DoneIsPrefix'
  <2>1. \A p \in Partitions : Len(log'[p]) \in Nat /\ consumed[p] \subseteq Nat
    BY <1>7, LenProperties DEF TypeOK
  <2> QED
    BY <1>3, <1>6, <2>1 DEF GroupInv, DoneIsPrefix
<1>10. KeysAtHome'
  <2>1. ASSUME NEW p \in Partitions, NEW i \in DOMAIN log'[p],
               log'[p][i] # NoKey
        PROVE  Hashed[log'[p][i]] = p
    <3>1. CASE p # h
      BY <1>5, <2>1, <3>1 DEF GroupInv, KeysAtHome
    <3>2. CASE p = h /\ i = Len(log[h]) + 1
      <4>1. log'[p][i] = k
        BY <1>1, <1>4, <1>5, <3>2
      <4> QED
        BY <1>2, <2>1, <3>2, <4>1, Zenon
    <3>3. CASE p = h /\ i # Len(log[h]) + 1
      <4>1. i \in 1 .. Len(log[h]) /\ DOMAIN log[h] = 1 .. Len(log[h])
        <5>1. Append(log[h], k) \in Seq(Keys \cup {NoKey})
          BY <1>4
        <5>2. DOMAIN Append(log[h], k) = 1 .. Len(log[h]) + 1
          BY <1>4, <5>1, LenProperties
        <5>3. log[h] \in Seq(Keys \cup {NoKey})
          BY <1>1 DEF TypeOK
        <5>4. DOMAIN log[h] = 1 .. Len(log[h])
          BY <5>3, LenProperties
        <5>5. log'[p] = Append(log[h], k)
          BY <1>5, <3>3
        <5>6. i \in 1 .. Len(log[h]) + 1
          BY <5>2, <5>5
        <5> QED
          BY <1>4, <3>3, <5>4, <5>6
      <4>2. log'[p] = Append(log[h], k) /\ p = h
        BY <1>5, <3>3
      <4>3. Append(log[h], k)[i] = log[h][i]
        BY <1>4, <4>1
      <4>4. log[p][i] # NoKey => Hashed[log[p][i]] = p
        BY <4>1, <4>2 DEF GroupInv, KeysAtHome
      <4>5. log'[p][i] = log[p][i]
        BY <4>2, <4>3
      <4> QED
        BY <2>1, <4>4, <4>5
    <3> QED
      BY <3>1, <3>2, <3>3
  <2> QED
    BY <2>1 DEF KeysAtHome
<1> QED
  BY <1>1, <1>7, <1>8, <1>9, <1>10 DEF GroupInv, h

LEMMA PollStep ==
    ASSUME GroupAssumption, TypeOK, GroupInv, NEW c \in Consumers,
           NEW max \in 1 .. MaxPoll, Poll(c, max)
    PROVE  TypeOK' /\ GroupInv'
<1> DEFINE R(p) == Reached(c, p, max)
<1>1. \A p \in Partitions :
          /\ R(p) \in Int /\ offsets[c][p] \in Int /\ Len(log[p]) \in Nat
          /\ \/ R(p) = offsets[c][p]
             \/ 0 <= offsets[c][p] /\ offsets[c][p] <= R(p) /\ R(p) <= Len(log[p])
  BY ReachedType DEF GroupAssumption
<1>2. /\ UNCHANGED <<log, rr, members, assigned, committed, jumped, moves, seeks>>
      /\ \A p \in Partitions : offsets'[c][p] = IF p \in assigned[c] THEN R(p)
                                                ELSE offsets[c][p]
      /\ \A d \in Consumers \ {c} : offsets'[d] = offsets[d]
      /\ \A p \in Partitions : consumed'[p] =
            IF p \in assigned[c] THEN consumed[p] \cup (offsets[c][p] .. R(p) - 1)
            ELSE consumed[p]
  BY DEF Poll, TypeOK
<1>3. /\ offsets' \in [Consumers -> [Partitions -> Int]]
      /\ consumed' \in [Partitions -> SUBSET Nat]
  <2>1. [p \in Partitions |-> IF p \in assigned[c] THEN R(p)
                              ELSE offsets[c][p]] \in [Partitions -> Int]
    BY <1>1
  <2>2. offsets' \in [Consumers -> [Partitions -> Int]]
    BY <2>1 DEF Poll, TypeOK
  <2>3. \A p \in Partitions : offsets[c][p] .. R(p) - 1 \in SUBSET Nat
    BY <1>1
  <2> QED
    BY <2>2, <2>3 DEF Poll, TypeOK
<1> HIDE DEF R
<1>4. TypeOK'
  BY <1>2, <1>3 DEF TypeOK
<1>5. \A p \in Partitions : consumed[p] \subseteq consumed'[p]
  BY DEF Poll
<1>6. BehindIsDone'
  <2>1. ASSUME NEW p \in Partitions, NEW d \in Consumers,
               NEW o \in 0 .. offsets'[d][p] - 1
        PROVE  o \in consumed'[p] \cup jumped[p]
    <3>1. o \in 0 .. offsets[d][p] - 1 => o \in consumed'[p] \cup jumped[p]
      BY <1>5 DEF GroupInv, BehindIsDone
    <3>2. CASE d = c /\ p \in assigned[c]
      <4>1. /\ offsets'[d][p] = R(p)
            /\ consumed'[p] = consumed[p] \cup (offsets[c][p] .. R(p) - 1)
        BY <1>2, <3>2
      <4>2. R(p) \in Int /\ offsets[c][p] \in Int
        BY <1>1
      <4> QED
        BY <2>1, <3>1, <3>2, <4>1, <4>2
    <3>3. CASE ~(d = c /\ p \in assigned[c])
      <4>1. offsets'[d][p] = offsets[d][p]
        BY <1>2, <3>3
      <4> QED
        BY <2>1, <3>1, <4>1
    <3> QED
      BY <3>2, <3>3
  <2>2. \A p \in Partitions : p \in DOMAIN committed =>
            \A o \in 0 .. committed[p] - 1 : o \in consumed'[p] \cup jumped[p]
    BY <1>5 DEF GroupInv, BehindIsDone
  <2>3. committed' = committed /\ jumped' = jumped
    BY <1>2
  <2> QED
    BY <2>1, <2>2, <2>3 DEF BehindIsDone
<1>7. DoneIsPrefix'
  <2> SUFFICES ASSUME NEW p \in Partitions, NEW o \in consumed'[p]
               PROVE  /\ o < Len(log[p])
                      /\ \A i \in 0 .. o : i \in consumed'[p] \cup jumped[p]
    BY <1>2 DEF DoneIsPrefix
  <2>1. CASE o \in consumed[p]
    BY <1>5, <2>1 DEF GroupInv, DoneIsPrefix
  <2>2. CASE o \notin consumed[p]
    <3>1. p \in assigned[c]
      BY <1>2, <2>2
    <3>2. consumed'[p] = consumed[p] \cup (offsets[c][p] .. R(p) - 1)
      BY <1>2, <3>1
    <3>3. o \in offsets[c][p] .. R(p) - 1
      BY <2>2, <3>2
    <3>4. \A i \in 0 .. offsets[c][p] - 1 : i \in consumed[p] \cup jumped[p]
      BY DEF GroupInv, BehindIsDone
    <3>5. /\ R(p) \in Int /\ offsets[c][p] \in Int /\ Len(log[p]) \in Nat
          /\ \/ R(p) = offsets[c][p]
             \/ 0 <= offsets[c][p] /\ R(p) <= Len(log[p])
      BY <1>1
    <3> QED
      BY <3>2, <3>3, <3>4, <3>5
  <2> QED
    BY <2>1, <2>2
<1>8. SharedOut' /\ KeysAtHome'
  BY <1>2 DEF GroupInv, SharedOut, KeysAtHome, Share, Partitions
<1> QED
  BY <1>4, <1>6, <1>7, <1>8 DEF GroupInv

LEMMA SeekStep ==
    ASSUME GroupAssumption, TypeOK, GroupInv, NEW c \in Consumers,
           NEW p \in Partitions, NEW o \in Int, Seek(c, p, o)
    PROVE  TypeOK' /\ GroupInv'
<1> DEFINE gap == {i \in 0 .. o - 1 : offsets[c][p] <= i /\ i \notin consumed[p]}
<1>1. /\ offsets' = [offsets EXCEPT ![c][p] = o]
      /\ jumped' = [jumped EXCEPT ![p] = @ \cup gap]
      /\ UNCHANGED <<log, rr, members, assigned, committed, consumed, moves>>
      /\ seeks' = seeks + 1
  BY DEF Seek
<1>2. gap \subseteq Nat
  OBVIOUS
<1>3. \A i \in 0 .. o - 1 : i < offsets[c][p] \/ i \in consumed[p] \cup gap
  BY DEF TypeOK
<1> HIDE DEF gap
<1>4. /\ \A d \in Consumers, q \in Partitions :
            offsets'[d][q] = IF d = c /\ q = p THEN o ELSE offsets[d][q]
      /\ offsets' \in [Consumers -> [Partitions -> Int]]
  BY <1>1 DEF TypeOK
<1>5. /\ \A q \in Partitions : jumped[q] \subseteq jumped'[q]
      /\ gap \subseteq jumped'[p]
      /\ jumped' \in [Partitions -> SUBSET Nat]
  BY <1>1, <1>2 DEF TypeOK
<1>6. TypeOK'
  BY <1>1, <1>4, <1>5 DEF TypeOK
<1>7. BehindIsDone'
  <2>1. ASSUME NEW d \in Consumers, NEW q \in Partitions,
               NEW i \in 0 .. offsets'[d][q] - 1
        PROVE  i \in consumed[q] \cup jumped'[q]
    <3>1. i \in 0 .. offsets[d][q] - 1 => i \in consumed[q] \cup jumped'[q]
      BY <1>5 DEF GroupInv, BehindIsDone
    <3>2. CASE d = c /\ q = p
      <4>1. i \in 0 .. o - 1
        BY <1>4, <2>1, <3>2
      <4>2. offsets[d][q] \in Int /\ i \in Int /\ 0 <= i
        BY <4>1 DEF TypeOK
      <4> QED
        BY <1>3, <1>5, <3>1, <3>2, <4>1, <4>2
    <3>3. CASE ~(d = c /\ q = p)
      BY <1>4, <2>1, <3>1, <3>3
    <3> QED
      BY <3>2, <3>3
  <2>2. \A q \in Partitions : q \in DOMAIN committed =>
            \A i \in 0 .. committed[q] - 1 : i \in consumed[q] \cup jumped'[q]
    BY <1>5 DEF GroupInv, BehindIsDone
  <2>3. committed' = committed /\ consumed' = consumed
    BY <1>1
  <2> QED
    BY <2>1, <2>2, <2>3 DEF BehindIsDone
<1>8. DoneIsPrefix'
  BY <1>1, <1>5 DEF GroupInv, DoneIsPrefix
<1>9. SharedOut' /\ KeysAtHome'
  BY <1>1 DEF GroupInv, SharedOut, KeysAtHome, Share, Partitions
<1> QED
  BY <1>6, <1>7, <1>8, <1>9 DEF GroupInv

Inv == TypeOK /\ GroupInv

LEMMA InvStep ==
    ASSUME GroupAssumption, Inv, [Next]_vars
    PROVE  Inv'
<1> USE DEF Inv
<1>1. ASSUME NEW c \in Consumers, AddConsumer(c)
      PROVE  Inv'
  <2>1. CommitsFit(committed, c)
    BY DEF TypeOK, CommitsFit
  <2>2. members \cup {c} \in SUBSET Consumers
    BY DEF TypeOK
  <2> QED
    BY <1>1, <2>1, <2>2, RebalanceSafe DEF AddConsumer
<1>2. ASSUME NEW c \in Consumers, RemoveConsumer(c)
      PROVE  Inv'
  <2>1. members \ {c} \in SUBSET Consumers
    BY DEF TypeOK
  <2>2. PICK com : com = Committing(c)
    OBVIOUS
  <2>3. CommitsFit(com, c)
    BY <2>2, CommittingType DEF CommitsFit
  <2>4. /\ Rebalance(members \ {c}, [assigned EXCEPT ![c] = {}],
                     [offsets EXCEPT ![c] = Fresh], com)
        /\ members' = members \ {c} /\ committed' = com
        /\ UNCHANGED <<log, rr, consumed, jumped, seeks>> /\ moves' = moves + 1
    BY <1>2, <2>2 DEF RemoveConsumer
  <2> QED
    BY <2>1, <2>3, <2>4, RebalanceSafe
<1>3. CASE UNCHANGED vars
  BY <1>3 DEF vars, TypeOK, GroupInv, BehindIsDone, DoneIsPrefix, SharedOut,
              KeysAtHome, Share, Partitions
<1>4. -1 .. MaxRecords \subseteq Int
  OBVIOUS
<1> QED
  BY <1>1, <1>2, <1>3, <1>4, ProduceStep, PollStep, SeekStep DEF Next

LEMMA Invariance == Spec => []Inv
<1>1. Init => Inv
  BY GroupAssumption, InvInit DEF Inv
<1>2. Inv /\ [Next]_vars => Inv'
  BY GroupAssumption, InvStep
<1> QED
  BY <1>1, <1>2, PTL DEF Spec

(***************************************************************************)
(* The theorems.                                                           *)
(***************************************************************************)
(* Every reachable state is well typed, whatever offsets are sought.       *)
THEOREM TypeCorrect == Spec => []TypeOK
<1>1. Inv => TypeOK
  BY DEF Inv
<1> QED
  BY <1>1, Invariance, PTL

(* Every partition of a non-empty group has exactly one owner.             *)
THEOREM OwnedOnce == Spec => []OneOwner
<1>1. Inv => OneOwner
  <2> SUFFICES ASSUME Inv, members # {}, NEW p \in Partitions
               PROVE  \E c \in members :
                         /\ p \in assigned[c]
                         /\ \A d \in Consumers : p \in assigned[d] => d = c
    BY DEF OneOwner
  <2>1. members \in SUBSET Consumers /\ SharedOut
    BY DEF Inv, TypeOK, GroupInv
  <2> DEFINE owner == Sorted[members][p % Cardinality(members)]
  <2>2. /\ owner \in members
        /\ \A c \in Consumers : p \in Share(members, c) <=> c = owner
    BY <2>1, GroupAssumption, SharedOnce
  <2>3. \A c \in Consumers : assigned[c] = Share(members, c)
    BY <2>1 DEF SharedOut
  <2> HIDE DEF owner
  <2>4. owner \in Consumers
    BY <2>1, <2>2
  <2> QED
    BY <2>2, <2>3, <2>4
<1> QED
  BY <1>1, Invariance, PTL

(* No record is left behind the owner of its partition unread, unless a    *)
(* seek() jumped over it.                                                  *)
THEOREM NothingLeftOut == Spec => []LagCoversBacklog
<1>1. Inv => LagCoversBacklog
  <2> SUFFICES ASSUME Inv, NEW c \in members, NEW p \in assigned[c],
                      NEW o \in 0 .. Len(log[p]) - 1,
                      o \notin consumed[p] \cup jumped[p]
               PROVE  offsets[c][p] <= o
    BY DEF LagCoversBacklog
  <2>1. c \in Consumers /\ p \in Partitions
    BY DEF Inv, TypeOK
  <2>2. offsets[c][p] \in Int /\ o \in Int /\ 0 <= o
    BY <2>1 DEF Inv, TypeOK
  <2>3. o \notin 0 .. offsets[c][p] - 1
    BY <2>1 DEF Inv, GroupInv, BehindIsDone
  <2> QED
    BY <2>2, <2>3
<1> QED
  BY <1>1, Invariance, PTL

(* The records of a key are in one partition and, but for those a seek()   *)
(* jumped over, consumed in order.                                         *)
THEOREM KeysInOrder == Spec => []KeyOrder
<1>1. Inv => KeyOrder
  <2> SUFFICES ASSUME Inv, NEW p \in Partitions, NEW q \in Partitions,
                      NEW i \in DOMAIN log[p], NEW j \in DOMAIN log[q],
                      log[p][i] = log[q][j], log[p][i] # NoKey
               PROVE  /\ p = q
                      /\ i < j /\ j - 1 \in consumed[p] =>
                            i - 1 \in consumed[p] \cup jumped[p]
    BY DEF KeyOrder
  <2>1. p = q
    BY DEF Inv, GroupInv, KeysAtHome
  <2>2. log[p] \in Seq(Keys \cup {NoKey}) /\ log[q] \in Seq(Keys \cup {NoKey})
    BY DEF Inv, TypeOK
  <2>3. i \in Nat \ {0} /\ j \in Nat \ {0}
    BY <2>2, LenProperties
  <2>4. ASSUME i < j, j - 1 \in consumed[p]
        PROVE  i - 1 \in consumed[p] \cup jumped[p]
    <3>1. i - 1 \in 0 .. j - 1
      BY <2>3, <2>4
    <3> QED
      BY <2>4, <3>1 DEF Inv, GroupInv, DoneIsPrefix
  <2> QED
    BY <2>1, <2>4
<1> QED
  BY <1>1, Invariance, PTL

(* The group implements WorkLog: it processes every partition in order,    *)
(* without a gap but for what seek() skips, however often it goes back.    *)
THEOREM GroupKeepsPromise == Spec => PromiseSpec
<1> DEFINE size == [p \in Partitions |-> Len(log[p])]
<1>1. Init => Promise!Init
  BY DEF Init, Promise!Init
<1>2. ASSUME GroupAssumption, Inv, Inv', [Next]_vars
      PROVE  [Promise!Next]_<<size, consumed, jumped>>
  <2> USE <1>2
  <2>1. ASSUME NEW k \in Keys \cup {NoKey}, Produce(k)
        PROVE  Promise!Next
    <3>1. PICK h \in Partitions : h = PartitionFor(k)
      BY <2>1, ProduceStep DEF Inv
    <3>2. log' = [log EXCEPT ![h] = Append(@, k)] /\ UNCHANGED <<consumed, jumped>>
      BY <2>1, <3>1 DEF Produce
    <3>3. Len(Append(log[h], k)) = Len(log[h]) + 1
      <4>1. log[h] \in Seq(Keys \cup {NoKey})
        BY <3>1 DEF Inv, TypeOK
      <4> QED
        BY <4>1, AppendProperties
    <3>4. size' = [size EXCEPT ![h] = @ + 1]
      BY <3>1, <3>2, <3>3 DEF Inv, TypeOK, Partitions
    <3>5. Promise!Append(h)
      BY <3>2, <3>4 DEF Promise!Append
    <3> QED
      BY <3>1, <3>5 DEF Promise!Next
  <2>2. ASSUME NEW c \in Consumers, NEW max \in 1 .. MaxPoll, Poll(c, max)
        PROVE  Promise!Next
    <3>1. UNCHANGED <<log, jumped>>
      BY <2>2 DEF Poll
    <3>2. \A p \in Partitions : consumed[p] \subseteq consumed'[p]
      BY <2>2 DEF Poll
    <3>3. /\ consumed' \in [Partitions -> SUBSET Nat]
          /\ \A p \in Partitions : \A o \in consumed'[p] :
                /\ o < Len(log[p])
                /\ \A i \in 0 .. o : i \in consumed'[p] \cup jumped[p]
      BY <3>1 DEF Inv, TypeOK, GroupInv, DoneIsPrefix
    <3>4. Promise!Process
      BY <3>1, <3>2, <3>3 DEF Promise!Process
    <3> QED
      BY <3>4 DEF Promise!Next, Promise!Process
  <2>3. ASSUME NEW c \in Consumers, NEW p \in Partitions, NEW o \in Int,
               Seek(c, p, o)
        PROVE  Promise!Next
    <3> DEFINE gap == {i \in 0 .. o - 1 : offsets[c][p] <= i /\ i \notin consumed[p]}
    <3>1. UNCHANGED <<log, consumed>> /\ jumped' = [jumped EXCEPT ![p] = @ \cup gap]
      BY <2>3 DEF Seek
    <3>2. jumped \in [Partitions -> SUBSET Nat] /\ gap \subseteq Nat
      BY DEF Inv, TypeOK
    <3>3. gap \cap consumed[p] = {}
      OBVIOUS
    <3> HIDE DEF gap
    <3>4. \A q \in Partitions :
              jumped'[q] = IF q = p THEN jumped[q] \cup gap ELSE jumped[q]
      BY <3>1, <3>2
    <3>5. jumped' \in [Partitions -> SUBSET Nat]
      BY <3>1, <3>2
    <3>6. ASSUME NEW q \in Partitions
          PROVE  /\ jumped[q] \subseteq jumped'[q]
                 /\ consumed[q] \cap jumped'[q] \subseteq jumped[q]
      <4>1. CASE q = p
        <5>1. jumped'[q] = jumped[q] \cup gap
          BY <3>4, <4>1
        <5> QED
          BY <3>3, <4>1, <5>1
      <4>2. CASE q # p
        <5>1. jumped'[q] = jumped[q]
          BY <3>4, <4>2
        <5> QED
          BY <5>1
      <4> QED
        BY <4>1, <4>2
    <3>7. Promise!Skip
      BY <3>1, <3>5, <3>6 DEF Promise!Skip
    <3> QED
      BY <3>7 DEF Promise!Next
  <2>4. ASSUME UNCHANGED <<log, consumed, jumped>>
        PROVE  UNCHANGED <<size, consumed, jumped>>
    BY <2>4
  <2>5. -1 .. MaxRecords \subseteq Int
    OBVIOUS
  <2> QED
    BY <2>1, <2>2, <2>3, <2>4, <2>5
       DEF Next, vars, AddConsumer, RemoveConsumer
<1> QED
  BY <1>1, <1>2, GroupAssumption, Invariance, PTL
     DEF Spec, PromiseSpec, Promise!Spec
==============================================================================
