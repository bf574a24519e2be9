---------------------------- MODULE PubSubPromise ----------------------------
(***************************************************************************)
(* What the chapter 7 broker promises its subscribers, with no queue,      *)
(* worker or removal in sight: a log of published events, and for each     *)
(* subscriber a growing choice of the events it listens to, in publishing  *)
(* order.  Skipping is allowed (a full queue drops, a removal forgets),    *)
(* repeating and reordering are not: at-most-once, in order.               *)
(***************************************************************************)
EXTENDS Naturals, Sequences

CONSTANTS Subs, Topics, Interest

VARIABLES
    log,   \* the topics of the published events
    got    \* got[s]: the events s was handed

promiseVars == <<log, got>>

(* The newest event s has seen, 0 before the first.                        *)
Seen(s) == IF got[s] = << >> THEN 0 ELSE got[s][Len(got[s])]

Init ==
    /\ log = << >>
    /\ got = [s \in Subs |-> << >>]

Publish ==
    /\ \E t \in Topics : log' = Append(log, t)
    /\ UNCHANGED got

Deliver(s) ==
    /\ \E e \in 1 .. Len(log) :
          /\ e > Seen(s)
          /\ log[e] \in Interest[s]
          /\ got' = [got EXCEPT ![s] = Append(got[s], e)]
    /\ UNCHANGED log

Next == Publish \/ \E s \in Subs : Deliver(s)

Spec == Init /\ [][Next]_promiseVars
==============================================================================
