---------------------------- MODULE MCConnection ----------------------------
(* Calls and requests on one connection that may end at any moment. *)
EXTENDS AdminRead, TLC

CONSTANTS i1, i2, q

MCForward == [r \in Requests |-> i1]
=============================================================================
