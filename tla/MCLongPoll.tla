----------------------------- MODULE MCLongPoll ------------------------------
(* Instances of LongPoll for TLC: alice and bob follow the same order,     *)
(* carol another one.                                                      *)
EXTENDS LongPoll

CONSTANTS burger, fries, alice, bob, carol

MCWatched == [c \in Clients |-> IF c = carol THEN fries ELSE burger]

FairSpec == Spec /\ Fairness
==============================================================================
