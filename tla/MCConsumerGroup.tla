--------------------------- MODULE MCConsumerGroup ---------------------------
(* Instances of ConsumerGroup for TLC: the consumers are numbered in the   *)
(* order of their names, and one of the two keys hashes to each of the     *)
(* first partitions.                                                       *)
EXTENDS ConsumerGroup, SequencesExt

CONSTANTS orderA, orderB

MCSorted ==
    [M \in SUBSET Consumers |->
        LET listed == SetToSortSeq(M, LAMBDA c, d : c < d)
        IN  [i \in 0 .. Cardinality(M) - 1 |-> listed[i + 1]]]

MCHashed == [k \in Keys |-> IF k = orderA THEN 0 ELSE 1]

FairSpec == Spec /\ Fairness
==============================================================================
