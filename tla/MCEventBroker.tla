---------------------------- MODULE MCEventBroker ----------------------------
(***************************************************************************)
(* Instances of EventBroker for TLC.  The subscriptions are three of those *)
(* publisher.py registers: billing and kitchen on "order.placed" and       *)
(* analytics on "order.*".                                                 *)
(***************************************************************************)
EXTENDS EventBroker, TopicPatterns

CONSTANTS billing, kitchen, analytics, c1

Placed == <<"order", "placed">>
Confirmed == <<"order", "confirmed">>

PatternOf(s) == IF s = analytics THEN <<"order", Star>> ELSE Placed

MCTopics == {Placed, Confirmed}
MCInterest == [s \in Subs |-> {t \in MCTopics : Matches(PatternOf(s), t)}]

MCStuck == {kitchen}

\* A behaviour is of many events and one remover, or of one event and several
\* removers.
VARIABLE crowd

MCVars == <<vars, crowd>>

MCInit == Init /\ crowd \in {"events", "removers"}
MCNext ==
    /\ Next
    /\ crowd = "events" => \A c \in Callers : c # c1 => call'[c] = Idle
    /\ crowd = "removers" => Len(published') <= 1
    /\ UNCHANGED crowd

MCSpec == MCInit /\ [][MCNext]_MCVars
FairSpec == MCSpec /\ Fairness(MCStuck)
MCIsolation == Isolation(MCStuck)
==============================================================================
