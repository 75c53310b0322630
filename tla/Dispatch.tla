------------------------------ MODULE Dispatch ------------------------------
(***************************************************************************)
(* What the receiver promises to the workers: a message it accepts goes to *)
(* one queue that has room, in whatever order the queues are tried, and is *)
(* dropped only after each queue has refused it once.  PacketReceiver      *)
(* implements it (round-robin); RadiusEventHandler is built on it.         *)
(*                                                                         *)
(* PushKept is a faulty variant of Push, used by no action.                *)
(***************************************************************************)
EXTENDS Naturals, Sequences

CONSTANTS Messages, Accepted, Queues, QueueCapacity, None

VARIABLES
  network, \* messages not yet received
  current, \* the message being dispatched, or None
  tried,   \* the queues that refused it
  queues   \* the worker queues

vars == <<network, current, tried, queues>>

Init ==
  /\ network = Messages
  /\ current = None /\ tried = {}
  /\ queues = [q \in Queues |-> <<>>]

Ignore(m) ==
  /\ current = None /\ m \in network \ Accepted
  /\ network' = network \ {m}
  /\ UNCHANGED <<current, tried, queues>>

Accept(m) ==
  /\ current = None /\ m \in network \cap Accepted
  /\ network' = network \ {m}
  /\ current' = m /\ tried' = {}
  /\ UNCHANGED queues

HasRoom(q) == Len(queues[q]) < QueueCapacity

PushKept(q) ==
  /\ current # None /\ q \notin tried /\ HasRoom(q)
  /\ queues' = [queues EXCEPT ![q] = Append(@, current)]
  /\ tried' = tried \cup {q}
  /\ current' = IF tried' = Queues THEN None ELSE current
  /\ UNCHANGED network
Push(q) ==
  /\ current # None /\ q \notin tried /\ HasRoom(q)
  /\ queues' = [queues EXCEPT ![q] = Append(@, current)]
  /\ current' = None
  /\ UNCHANGED <<network, tried>>

\* A full queue refuses the message; the last to refuse makes it lost.
Refuse(q) ==
  /\ current # None /\ q \notin tried /\ ~HasRoom(q)
  /\ tried' = tried \cup {q}
  /\ current' = IF tried' = Queues THEN None ELSE current
  /\ UNCHANGED <<network, queues>>

Pop(q) ==
  /\ queues[q] # <<>>
  /\ queues' = [queues EXCEPT ![q] = Tail(@)]
  /\ UNCHANGED <<network, current, tried>>

Next ==
  \/ \E m \in Messages : Ignore(m) \/ Accept(m)
  \/ \E q \in Queues : Push(q) \/ Refuse(q) \/ Pop(q)

Spec == Init /\ [][Next]_vars
=============================================================================
