------------------------------ MODULE MCWorker ------------------------------
(* Instances of Worker: requests q1, q2 and response p1 of one flow, and, in *)
(* the larger ones, messages of a second flow; getAllAvps does not return on *)
(* x1 and throws on x2.                                                      *)
EXTENDS Worker, TLC

CONSTANTS q1, q2, p1, p2, x1, x2, k1, k2

OneFlow  == [m \in Messages |-> k1]
TwoFlows == [m \in Messages |-> IF m = p2 THEN k2 ELSE k1]

WorkerSymmetry == Permutations(Workers)
=============================================================================
