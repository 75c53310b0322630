--------------------------- MODULE MCCorrelation ---------------------------
(* An instance of Correlation: two flows, one of them with retransmissions  *)
(* of both the request and the response.                                    *)
EXTENDS Correlation, TLC

CONSTANTS q1, q2, p1, p2, q3, k1, k2

MCKeyOf == [m \in Messages |-> IF m = q3 THEN k2 ELSE k1]
=============================================================================
