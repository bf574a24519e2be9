-------------------------------- MODULE Lists --------------------------------
(***************************************************************************)
(* Python's list comprehension with a condition, [x for x in seq if ...].  *)
(* It is SelectSeq, written as a recursive function so that the proofs can *)
(* unfold it: the prover knows no definition of SelectSeq.                 *)
(***************************************************************************)
EXTENDS Naturals, Sequences

(* The elements of seq that are in S, in their order.                      *)
Keep(seq, S) ==
    LET kept[n \in 0 .. Len(seq)] ==
            IF n = 0 THEN <<>>
            ELSE IF seq[n] \in S THEN Append(kept[n - 1], seq[n])
            ELSE kept[n - 1]
    IN  kept[Len(seq)]
==============================================================================
