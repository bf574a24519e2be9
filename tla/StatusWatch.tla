----------------------------- MODULE StatusWatch -----------------------------
(***************************************************************************)
(* What following an order promises to a client, whatever the transport:   *)
(* the status of an order only moves forward along ORDER_FLOW              *)
(* (src/shared/models.py), and what a client knows of it only moves        *)
(* forward too, to a status the order has reached.  A client may skip      *)
(* statuses, and learns none twice.                                        *)
(*                                                                         *)
(* A status is its place in ORDER_FLOW, from 1 to Final; 0 stands for an   *)
(* order not yet placed and for a client that knows nothing.               *)
(***************************************************************************)
EXTENDS Naturals

CONSTANTS Orders, Clients, Watched, Final

VARIABLES status, known

Init ==
    /\ status = [o \in Orders |-> 0]
    /\ known = [c \in Clients |-> 0]

Move(o) ==
    /\ status[o] < Final
    /\ status' = [status EXCEPT ![o] = @ + 1]

Learn(c, s) ==
    /\ s > known[c]
    /\ s <= status'[Watched[c]]
    /\ known' = [known EXCEPT ![c] = s]

(* The client that places an order learns its first status with it.        *)
Next ==
    \/ \E o \in Orders : Move(o) /\ UNCHANGED known
    \/ \E c \in Clients, s \in 1 .. Final : Learn(c, s) /\ UNCHANGED status
    \/ \E c \in Clients : Move(Watched[c]) /\ Learn(c, 1)

Spec == Init /\ [][Next]_<<status, known>>
==============================================================================
