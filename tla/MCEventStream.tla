---------------------------- MODULE MCEventStream ----------------------------
(* Instances of EventStream for TLC: a browser's dashboard and the Python  *)
(* client.                                                                 *)
EXTENDS EventStream

CONSTANTS dashboard, script

FairSpec == Spec /\ Fairness
==============================================================================
