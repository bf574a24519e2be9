----------------------------- MODULE MCChatRoom ------------------------------
(* Instances of ChatRoom for TLC.  Connections are interchangeable.        *)
EXTENDS ChatRoom, TLC

AnyConn == Permutations(Conns)
==============================================================================
