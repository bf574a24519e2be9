----------------------------- MODULE MCServices -----------------------------
(* Instances for TLC of two systems with something that must happen: the   *)
(* services behind the broker and the servers on bare sockets.  They share *)
(* no state, a behaviour is of one of them.                                *)
EXTENDS OrderServices, SocketServers

VARIABLE scenario

vars == <<scenario, serviceVars, socketVars>>

\* What is not run stays in one initial state.
Init ==
    /\ scenario \in {"services", "sockets"}
    /\ ServicesInit /\ SocketsInit
    /\ scenario # "sockets" => server = "http"

\* One event less when they are about several orders.
ServicesStep ==
    /\ scenario = "services" /\ ServicesNext
    /\ ToSet(about') = Orders => Len(about') < MaxEvents
    /\ UNCHANGED <<scenario, socketVars>>
SocketsStep ==
    scenario = "sockets" /\ SocketsNext /\ UNCHANGED <<scenario, serviceVars>>

Next == ServicesStep \/ SocketsStep

Spec == Init /\ [][Next]_vars /\ ServicesFairness /\ SocketsFairness
=============================================================================
