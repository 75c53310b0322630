------------------------- MODULE MCRadiusEventHandler -------------------------
(* An instance of RadiusEventHandler: a request, its retransmission and the  *)
(* response of one flow.                                                     *)
EXTENDS RadiusEventHandler

CONSTANTS q1, q2, p1, k1

MCKeyOf == [m \in Messages |-> k1]
=============================================================================
