--------------------------- MODULE PacketReceiver ---------------------------
(***************************************************************************)
(* PacketReceiver.cpp: the receive handler of the main thread filters the  *)
(* datagrams of the UDP socket, gives each message its flow key and pushes *)
(* it to the first worker queue with room, in round-robin order.           *)
(*                                                                         *)
(* A datagram is the part of it the receiver looks at: its code and        *)
(* identifier octets, the value of its length field, the number of octets  *)
(* received and the remote endpoint.  The workers pop from the queues      *)
(* while the handler runs, so each try_push is a step.                     *)
(*                                                                         *)
(* NotSmaller, RoomForOneMore, SameIndex, LastTryEarly and SameTries are   *)
(* faulty variants of the operators after them, used by no action.         *)
(***************************************************************************)
EXTENDS Integers, Sequences, FiniteSets

CONSTANTS
  NumQueues,      \* m_workersInputQueuesRef.size()
  QueueCapacity,  \* WORKER_QUEUE_CAPACITY
  Datagrams,      \* [code, id, length, bytes, ip, port]
  Local,          \* m_localEndpoint, [ip, port]
  None            \* no datagram

\* numberOfTries is a uint8_t, so the loop ends only for up to 256 queues.
ASSUME QueueAssumption == NumQueues \in 1 .. 256 /\ QueueCapacity \in Nat
ASSUME LocalAssumption == Local \in [ip : Nat, port : Nat]
ASSUME DatagramAssumption ==
  /\ None \notin Datagrams
  /\ \A d \in Datagrams : {d.code, d.id, d.length, d.bytes, d.ip, d.port} \subseteq Nat

RADIUS_HEADER_LEN == 20
RADIUS_MSG_MAX_SIZE == 4096
RADIUS_ACCOUNTING_PORT == 1813
AccountingRequest == 4
AccountingResponse == 5

\* isRadAccMsg(msg, r_endpoint, l_endpoint, bytesNum)
IsRadAccMsg(d) ==
  /\ RADIUS_HEADER_LEN <= d.length /\ d.length < RADIUS_MSG_MAX_SIZE
  /\ RADIUS_ACCOUNTING_PORT \in {Local.port, d.port}
  /\ d.code \in {AccountingRequest, AccountingResponse}

NotSmaller(a, b) == IF a >= b THEN a ELSE b
Larger(a, b)  == IF a >= b THEN a ELSE b
Smaller(a, b) == IF a >= b THEN b ELSE a

InitFlowKey(ipSrv, ipClnt, portSrv, portClnt, proto) ==
  [ip_server |-> ipSrv, ip_client |-> ipClnt,
   port_server |-> portSrv, port_client |-> portClnt, protoField |-> proto]

\* setFlowKey: addresses and ports are ordered independently of each other.
FlowKey(d) ==
  InitFlowKey(Larger(d.ip, Local.ip), Smaller(d.ip, Local.ip),
              Larger(d.port, Local.port), Smaller(d.port, Local.port), d.id)

\* FlowKeyHashCompare::equal; hash combines the same five fields.
Equal(x, y) == \A field \in DOMAIN x : x[field] = y[field]

-----------------------------------------------------------------------------
Queues == 0 .. NumQueues - 1

VARIABLES
  network,     \* datagrams not yet received
  pc,          \* "receive": a receive is pending; "push": handleRadiusEvent; "dead"
  current,     \* the message being pushed
  workerIndex, \* m_workerIndex
  tries,       \* calls of try_push made for the current message
  queues,      \* the worker queues
  refused,     \* history: the queues that refused the current message
  given,       \* history: how many messages each queue got
  overloaded   \* history: some queue has refused some message

vars == <<network, pc, current, workerIndex, tries, queues, refused, given, overloaded>>

Init ==
  /\ network = Datagrams
  /\ pc = "receive" /\ current = None
  /\ workerIndex = 0 /\ tries = 0
  /\ queues = [q \in Queues |-> <<>>]
  /\ refused = {} /\ given = [q \in Queues |-> 0] /\ overloaded = FALSE

\* receiveRaduisMessage without error; a message that the filter refuses only
\* starts the next receive.
Receive(d) ==
  /\ pc = "receive" /\ d \in network
  /\ network' = network \ {d}
  /\ IF IsRadAccMsg(d)
     THEN pc' = "push" /\ current' = d /\ tries' = 0 /\ refused' = {}
     ELSE UNCHANGED <<pc, current, tries, refused>>
  /\ UNCHANGED <<workerIndex, queues, given, overloaded>>

\* receiveRaduisMessage with an error starts no further receive.
ReceiveError ==
  /\ pc = "receive"
  /\ pc' = "dead"
  /\ UNCHANGED <<network, current, workerIndex, tries, queues, refused, given, overloaded>>

\* What try_push finds, m_workerIndex++, the loop condition on numberOfTries
\* (which does not count the first call) and numberOfTries++.
RoomForOneMore(q) == Len(queues[q]) <= QueueCapacity
HasRoom(q) == Len(queues[q]) < QueueCapacity
SameIndex(q) == q
NextIndex(q) == q + 1
LastTryEarly == tries >= NumQueues - 2
LastTry == tries >= NumQueues - 1
SameTries == tries
NextTries == tries + 1

\* One try_push of handleRadiusEvent, the first one or one of its loop.  The
\* message is dropped when the last try fails; either way the handler returns
\* and starts the next receive.
TryPush ==
  LET q == workerIndex % NumQueues
      room == HasRoom(q)
      over == room \/ LastTry
  IN
  /\ pc = "push"
  /\ workerIndex' = NextIndex(q)
  /\ queues' = IF room THEN [queues EXCEPT ![q] = Append(@, current)] ELSE queues
  /\ given' = IF room THEN [given EXCEPT ![q] = @ + 1] ELSE given
  /\ refused' = IF room THEN refused ELSE refused \cup {q}
  /\ overloaded' = (overloaded \/ ~room)
  /\ tries' = NextTries
  /\ IF over THEN pc' = "receive" /\ current' = None ELSE UNCHANGED <<pc, current>>
  /\ UNCHANGED network

\* A worker pops from its queue.
Pop(q) ==
  /\ queues[q] # <<>>
  /\ queues' = [queues EXCEPT ![q] = Tail(@)]
  /\ UNCHANGED <<network, pc, current, workerIndex, tries, refused, given, overloaded>>

Next ==
  \/ \E d \in Datagrams : Receive(d)
  \/ ReceiveError
  \/ TryPush
  \/ \E q \in Queues : Pop(q)

Spec == Init /\ [][Next]_vars
FairSpec == Spec /\ WF_vars(TryPush)

-----------------------------------------------------------------------------
(* Properties *)

\* Every variable holds a value of its type; m_workerIndex never leaves
\* 0 .. NumQueues, so it indexes a queue after the next %.
TypeOK ==
  /\ network \subseteq Datagrams
  /\ pc \in {"receive", "push", "dead"}
  /\ current \in Datagrams \cup {None} /\ (current = None <=> pc # "push")
  /\ workerIndex \in 0 .. NumQueues
  /\ tries \in 0 .. NumQueues
  /\ queues \in [Queues -> Seq(Datagrams)]
  /\ \A q \in Queues : Len(queues[q]) <= QueueCapacity
  /\ refused \subseteq Queues
  /\ given \in [Queues -> Nat]
  /\ overloaded \in BOOLEAN

\* A message is dropped only when every queue has refused it, although the
\* workers make room while the handler goes round (PacketReceiver.cpp:131).
DroppedAfterAll ==
  [][ (pc = "push" /\ pc' = "receive" /\ queues' = queues) => refused' = Queues ]_vars

\* As long as no queue was full, no worker has got more than one message more
\* than another.
BalancedLoad ==
  ~overloaded => \A p, q \in Queues : given[p] <= given[q] + 1

\* Round-robin with its counters implements Dispatch: a message goes to at most
\* one queue, no queue is asked twice, and none is left out before a message is
\* dropped (PacketReceiver.cpp:114-134), whatever the workers pop meanwhile.
D == INSTANCE Dispatch WITH
       Messages <- Datagrams, Accepted <- {d \in Datagrams : IsRadAccMsg(d)}, tried <- refused
ImplementsDispatch == D!Spec

\* The messages accepted and not yet popped.
InHand == (UNION {{queues[q][i] : i \in DOMAIN queues[q]} : q \in Queues}) \cup ({current} \ {None})

\* Two accepted messages share an entry of the hash table exactly when they have
\* the same remote endpoint and identifier, although the key orders addresses and
\* ports separately and does not say which end is the server.
FlowKeySound ==
  \A d, e \in InHand :
     Equal(FlowKey(d), FlowKey(e)) <=> <<d.ip, d.port, d.id>> = <<e.ip, e.port, e.id>>

\* PacketReceiver.cpp:89-90, "Enough bytes for RADIUS message?  Number of
\* bytesNum is equal to message length field value?"
QueuedMessagesComplete ==
  pc = "push" => current.bytes = current.length

\* The handler ends: each message is queued or dropped, and unless an error
\* came the next receive is pending.
HandlerReturns == (pc = "push") ~> (pc = "receive")
=============================================================================
