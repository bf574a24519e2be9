------------------------------ MODULE WorkLog --------------------------------
(***************************************************************************)
(* What a consumer group promises: the records of each partition are       *)
(* processed for the first time in the order of their offsets, none left   *)
(* out but those its caller has told it to skip, before they came up.      *)
(* Processing one again is not a step of this specification.               *)
(***************************************************************************)
EXTENDS Naturals

CONSTANT Partitions

VARIABLES
    size,   \* size[p]: records appended to p
    done,   \* done[p]: the offsets processed at least once
    skipped \* skipped[p]: the offsets given up

Init ==
    /\ size = [p \in Partitions |-> 0]
    /\ done = [p \in Partitions |-> {}]
    /\ skipped = [p \in Partitions |-> {}]

Append(p) ==
    /\ size' = [size EXCEPT ![p] = @ + 1]
    /\ UNCHANGED <<done, skipped>>

(* Some partitions get further, each over the offsets that come next.      *)
Process ==
    /\ done' \in [Partitions -> SUBSET Nat]
    /\ \A p \in Partitions :
          /\ done[p] \subseteq done'[p]
          /\ \A o \in done'[p] :
                o < size[p] /\ \A i \in 0 .. o : i \in done'[p] \cup skipped[p]
    /\ UNCHANGED <<size, skipped>>

(* The caller gives up offsets that have not been processed.               *)
Skip ==
    /\ skipped' \in [Partitions -> SUBSET Nat]
    /\ \A p \in Partitions :
          /\ skipped[p] \subseteq skipped'[p]
          /\ done[p] \cap skipped'[p] \subseteq skipped[p]
    /\ UNCHANGED <<size, done>>

Next == Process \/ Skip \/ \E p \in Partitions : Append(p)

Spec == Init /\ [][Next]_<<size, done, skipped>>
==============================================================================
