------------------------------ MODULE MCServers ------------------------------
(* Instances of four servers for TLC, a behaviour is of one of them: the   *)
(* chat room, the multiplexed connection, the two session APIs, and the    *)
(* sidecar with its service.  They share no state.                         *)
EXTENDS MCChatRoom, Multiplex, Sessions, Sidecar

CONSTANTS ip1, ip2

\* Requests that meet in one bucket, one from elsewhere, and refused ones.
MCRequests ==
    {[id |-> 1, ip |-> ip1, token |-> "demo", path |-> "place"],
     [id |-> 2, ip |-> ip1, token |-> "signed", path |-> "advance"],
     [id |-> 3, ip |-> ip1, token |-> "none", path |-> "health"],
     [id |-> 4, ip |-> ip2, token |-> "forged", path |-> "place"]}

VARIABLE scenario

serverVars == <<scenario, vars, muxVars, sessionVars, sidecarVars>>

\* What is not run stays in one initial state.
ServersInit ==
    /\ scenario \in {"chat", "mux", "sessions", "sidecar"}
    /\ Init /\ MuxInit /\ SessionsInit /\ SidecarInit
    /\ scenario # "mux" => handlers = StreamTypes
    /\ scenario # "sessions" => style = "jwt"

ChatStep ==
    /\ scenario = "chat" /\ Next
    /\ UNCHANGED <<scenario, muxVars, sessionVars, sidecarVars>>
MuxStep ==
    /\ scenario = "mux" /\ MuxNext
    /\ UNCHANGED <<scenario, vars, sessionVars, sidecarVars>>
SessionsStep ==
    /\ scenario = "sessions" /\ SessionsNext
    /\ UNCHANGED <<scenario, vars, muxVars, sidecarVars>>
SidecarStep ==
    /\ scenario = "sidecar" /\ SidecarNext
    /\ UNCHANGED <<scenario, vars, muxVars, sessionVars>>

ServersNext == ChatStep \/ MuxStep \/ SessionsStep \/ SidecarStep

ServersSpec == ServersInit /\ [][ServersNext]_serverVars
=============================================================================
