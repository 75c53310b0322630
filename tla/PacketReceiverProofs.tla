------------------------ MODULE PacketReceiverProofs ------------------------
(***************************************************************************)
(* Proofs about PacketReceiver for up to 256 queues of any capacity, any   *)
(* local endpoint and any datagrams.                                       *)
(***************************************************************************)
EXTENDS PacketReceiver, TLAPS

\* The queue of the next try_push: m_workerIndex may have run past the last one.
NextQueue == IF workerIndex = NumQueues THEN 0 ELSE workerIndex

\* The t queues before position i, going round.
Before(i, t) ==
  IF t <= i THEN i - t .. i - 1 ELSE 0 .. i - 1 \cup NumQueues + i - t .. NumQueues - 1
Behind == Before(workerIndex, tries)

\* While a message is being pushed it is one the filter accepts, the queues that
\* refused it are those behind the next one, and one has not been tried yet.
RoundOK ==
  pc = "push" => IsRadAccMsg(current) /\ tries < NumQueues /\ refused = Behind

\* As long as no queue was full, those before m_workerIndex got one message more
\* than the others.
LoadOK ==
  ~overloaded => \E c \in Nat : \A q \in Queues :
                    given[q] = IF q < workerIndex THEN c + 1 ELSE c

PInv == TypeOK /\ RoundOK /\ LoadOK

\* The round robin index taken modulo the number of queues is the next queue.
LEMMA Modulo ==
  ASSUME workerIndex \in 0 .. NumQueues
  PROVE  workerIndex % NumQueues = NextQueue /\ NextQueue \in Queues
BY QueueAssumption DEF NextQueue, Queues

\* The next queue is not among those before it, with it they are one more, and
\* NumQueues of them are all.
LEMMA RoundStep ==
  ASSUME NEW i \in 0 .. NumQueues, NEW t \in 0 .. NumQueues - 1,
         NEW q, q = IF i = NumQueues THEN 0 ELSE i
  PROVE  /\ q \notin Before(i, t)
         /\ Before(q + 1, t + 1) = Before(i, t) \cup {q}
         /\ t + 1 = NumQueues => Before(q + 1, t + 1) = Queues
<1> USE QueueAssumption
<1>1. q \in 0 .. NumQueues - 1
  OBVIOUS
<1>2. ASSUME NEW x PROVE x \in Before(q + 1, t + 1) <=> x \in Before(i, t) \/ x = q
  <2>1. CASE i = NumQueues /\ t = 0
    BY <2>1 DEF Before
  <2>2. CASE i = NumQueues /\ t > 0
    BY <2>2 DEF Before
  <2>3. CASE i < NumQueues /\ t <= i
    BY <2>3 DEF Before
  <2>4. CASE i < NumQueues /\ t > i
    BY <2>4 DEF Before
  <2> QED BY <2>1, <2>2, <2>3, <2>4
<1>3. q \notin Before(i, t)
  BY <1>1 DEF Before
<1>4. t + 1 = NumQueues => Before(q + 1, t + 1) = Queues
  <2> SUFFICES ASSUME NEW x PROVE x \in Before(q + 1, NumQueues) <=> x \in Queues
    OBVIOUS
  <2>1. CASE q + 1 = NumQueues
    BY <2>1 DEF Before, Queues
  <2>2. CASE q + 1 < NumQueues
    BY <1>1, <2>2 DEF Before, Queues
  <2> QED BY <1>1, <2>1, <2>2
<1> QED BY <1>2, <1>3, <1>4

\* What the steps of TryPush have in common.
LEMMA TryPushFacts ==
  ASSUME PInv, TryPush
  PROVE  /\ NextQueue \in Queues /\ NextQueue = workerIndex % NumQueues
         /\ NextQueue \notin refused
         /\ workerIndex' = NextQueue + 1 /\ tries' = tries + 1
         /\ current \in Datagrams /\ current # None
         /\ refused \cup {NextQueue} = Behind'
         /\ LastTry => Behind' = Queues
         /\ tries \in 0 .. NumQueues - 1
<1>1. workerIndex \in 0 .. NumQueues /\ tries \in 0 .. NumQueues - 1 /\ refused = Behind
  BY QueueAssumption DEF PInv, TypeOK, RoundOK, TryPush
<1>2. NextQueue \in Queues /\ NextQueue = workerIndex % NumQueues
  BY <1>1, Modulo
<1>3. workerIndex' = NextQueue + 1 /\ tries' = tries + 1
  BY <1>2 DEF TryPush, NextIndex, NextTries
<1>4. LastTry => tries' = NumQueues
  BY <1>1, <1>3, QueueAssumption DEF LastTry
<1>5. current \in Datagrams /\ current # None
  BY DEF PInv, TypeOK, TryPush
<1>6. /\ NextQueue \notin Behind /\ Behind' = Behind \cup {NextQueue}
      /\ tries' = NumQueues => Behind' = Queues
  BY <1>1, <1>3, RoundStep DEF NextQueue, Behind
<1> QED BY <1>1, <1>2, <1>3, <1>4, <1>5, <1>6

\* The invariant holds when the receiver starts.
LEMMA InitPInv == Init => PInv
BY QueueAssumption DEF Init, PInv, TypeOK, RoundOK, LoadOK, Queues

\* One try_push keeps it, whether it finds room or not.
LEMMA TryPushPInv ==
  ASSUME PInv, TryPush
  PROVE  PInv'
<1> DEFINE q == NextQueue
<1> USE QueueAssumption, DatagramAssumption
<1>1. /\ q \in Queues /\ q = workerIndex % NumQueues /\ q \in 0 .. NumQueues - 1
      /\ workerIndex' = q + 1 /\ tries' = tries + 1 /\ tries \in 0 .. NumQueues - 1
      /\ current \in Datagrams /\ current # None
      /\ refused \cup {q} = Behind' /\ refused \subseteq Queues
  BY TryPushFacts DEF Queues, PInv, TypeOK
<1>2. /\ queues' = IF HasRoom(q) THEN [queues EXCEPT ![q] = Append(@, current)] ELSE queues
      /\ given' = IF HasRoom(q) THEN [given EXCEPT ![q] = @ + 1] ELSE given
      /\ refused' = IF HasRoom(q) THEN refused ELSE refused \cup {q}
      /\ overloaded' = (overloaded \/ ~HasRoom(q))
      /\ IF HasRoom(q) \/ LastTry THEN pc' = "receive" /\ current' = None ELSE UNCHANGED <<pc, current>>
      /\ network' = network /\ pc = "push"
  BY <1>1 DEF TryPush
<1>3. TypeOK'
  <2>1. queues' \in [Queues -> Seq(Datagrams)] /\ \A p \in Queues : Len(queues'[p]) <= QueueCapacity
    <3>1. CASE HasRoom(q)
      <4>1. /\ queues[q] \in Seq(Datagrams) /\ Append(queues[q], current) \in Seq(Datagrams)
            /\ Len(Append(queues[q], current)) <= QueueCapacity
        BY <1>1, <3>1 DEF PInv, TypeOK, HasRoom
      <4> QED BY <1>1, <1>2, <3>1, <4>1 DEF PInv, TypeOK
    <3>2. CASE ~HasRoom(q)
      BY <1>2, <3>2 DEF PInv, TypeOK
    <3> QED BY <3>1, <3>2
  <2>2. given' \in [Queues -> Nat] /\ overloaded' \in BOOLEAN
    BY <1>1, <1>2 DEF PInv, TypeOK
  <2>3. workerIndex' \in 0 .. NumQueues /\ tries' \in 0 .. NumQueues /\ refused' \subseteq Queues
    <3>1. refused' \subseteq Queues
      BY <1>1, <1>2
    <3> HIDE DEF q
    <3> QED BY <1>1, <3>1
  <2>4. /\ pc' \in {"receive", "push", "dead"} /\ current' \in Datagrams \cup {None}
        /\ (current' = None <=> pc' # "push") /\ network' \subseteq Datagrams
    BY <1>1, <1>2 DEF PInv, TypeOK
  <2> QED BY <2>1, <2>2, <2>3, <2>4 DEF TypeOK
<1>4. RoundOK'
  <2> SUFFICES ASSUME pc' = "push"
               PROVE  IsRadAccMsg(current') /\ tries' < NumQueues /\ refused' = Behind'
    BY DEF RoundOK, IsRadAccMsg
  <2>1. ~HasRoom(q) /\ ~LastTry /\ current' = current
    BY <1>2
  <2>2. IsRadAccMsg(current')
    BY <1>2, <2>1 DEF PInv, RoundOK
  <2> QED BY <1>1, <1>2, <2>1, <2>2 DEF LastTry
<1>5. LoadOK'
  <2> SUFFICES ASSUME ~overloaded'
               PROVE  \E c \in Nat : \A p \in Queues :
                        given'[p] = IF p < workerIndex' THEN c + 1 ELSE c
    BY DEF LoadOK
  <2>1. HasRoom(q) /\ ~overloaded /\ given' = [given EXCEPT ![q] = @ + 1]
    BY <1>2
  <2>2. PICK c \in Nat : \A p \in Queues : given[p] = IF p < workerIndex THEN c + 1 ELSE c
    BY <2>1 DEF PInv, LoadOK
  <2>3. CASE workerIndex = NumQueues
    <3>1. \A p \in Queues : given'[p] = IF p < workerIndex' THEN (c + 1) + 1 ELSE c + 1
      BY <1>1, <2>1, <2>2, <2>3 DEF NextQueue, Queues, PInv, TypeOK
    <3> QED BY <3>1
  <2>4. CASE workerIndex # NumQueues
    <3>1. \A p \in Queues : given'[p] = IF p < workerIndex' THEN c + 1 ELSE c
      BY <1>1, <2>1, <2>2, <2>4 DEF NextQueue, Queues, PInv, TypeOK
    <3> QED BY <3>1
  <2> QED BY <2>3, <2>4
<1> QED BY <1>3, <1>4, <1>5 DEF PInv

\* So do the receive handler's other ends and the workers.
LEMMA NextPInv == PInv /\ [Next]_vars => PInv'
<1> SUFFICES ASSUME PInv, [Next]_vars PROVE PInv'
  OBVIOUS
<1> USE QueueAssumption, DatagramAssumption DEF PInv
<1>1. ASSUME NEW d \in Datagrams, Receive(d) PROVE PInv'
  <2>1. TypeOK'
    BY <1>1 DEF Receive, TypeOK
  <2>2. RoundOK'
    <3>1. pc' = "push" => IsRadAccMsg(d) /\ current' = d /\ tries' = 0 /\ refused' = {}
                          /\ workerIndex' = workerIndex
      BY <1>1 DEF Receive
    <3>2. Before(workerIndex, 0) = {}
      BY DEF Before, TypeOK
    <3> QED BY <3>1, <3>2 DEF RoundOK, Behind, IsRadAccMsg
  <2>3. LoadOK'
    BY <1>1 DEF Receive, LoadOK
  <2> QED BY <2>1, <2>2, <2>3
<1>2. CASE ReceiveError
  BY <1>2 DEF ReceiveError, TypeOK, RoundOK, LoadOK
<1>3. CASE TryPush
  BY <1>3, TryPushPInv
<1>4. ASSUME NEW q \in Queues, Pop(q) PROVE PInv'
  <2>1. TypeOK'
    <3>1. queues[q] \in Seq(Datagrams) /\ queues[q] # <<>> /\ Len(queues[q]) <= QueueCapacity
      BY <1>4 DEF Pop, TypeOK
    <3>2. Tail(queues[q]) \in Seq(Datagrams) /\ Len(Tail(queues[q])) <= QueueCapacity
      BY <3>1
    <3> QED BY <1>4, <3>2 DEF Pop, TypeOK
  <2>2. RoundOK' /\ LoadOK'
    BY <1>4 DEF Pop, RoundOK, LoadOK, Behind, IsRadAccMsg
  <2> QED BY <2>1, <2>2
<1>5. CASE UNCHANGED vars
  BY <1>5 DEF vars, TypeOK, RoundOK, LoadOK, Behind, IsRadAccMsg
<1> QED BY <1>1, <1>2, <1>3, <1>4, <1>5 DEF Next

\* The invariant holds in every reachable state.
THEOREM Induction == Spec => []PInv
<1> QED BY InitPInv, NextPInv, PTL DEF Spec

\* Every variable holds a value of its type: m_workerIndex stays in
\* 0 .. NumQueues and numberOfTries within the queues, so neither overflows its
\* C++ type, and no queue exceeds its capacity.
THEOREM TypeCorrect == Spec => []TypeOK
<1>1. PInv => TypeOK
  BY DEF PInv
<1> QED BY <1>1, Induction, PTL

\* A message is dropped only after each queue has refused it, wherever the round
\* starts and whatever the workers pop meanwhile (PacketReceiver.cpp:131).
THEOREM DropsAfterAll == Spec => DroppedAfterAll
<1>1. ASSUME PInv, [Next]_vars, pc = "push", pc' = "receive", queues' = queues
      PROVE  refused' = Queues
  <2>1. TryPush
    BY <1>1 DEF Next, Receive, ReceiveError, Pop, vars
  <2>2. ~HasRoom(NextQueue)
    <3> SUFFICES ASSUME HasRoom(NextQueue) PROVE FALSE
      OBVIOUS
    <3>1. queues' = [queues EXCEPT ![NextQueue] = Append(@, current)] /\ NextQueue \in Queues
      BY <2>1, <1>1, TryPushFacts DEF TryPush
    <3>2. queues[NextQueue] \in Seq(Datagrams) /\ queues'[NextQueue] = Append(queues[NextQueue], current)
      BY <1>1, <3>1 DEF PInv, TypeOK
    <3>3. Len(queues'[NextQueue]) = Len(queues[NextQueue]) + 1 /\ Len(queues[NextQueue]) \in Nat
      BY <3>2
    <3> QED BY <1>1, <3>3
  <2>3. LastTry /\ refused' = refused \cup {NextQueue}
    BY <1>1, <2>1, <2>2, TryPushFacts DEF TryPush
  <2> QED BY <1>1, <2>1, <2>3, TryPushFacts
<1>2. PInv /\ [Next]_vars => [(pc = "push" /\ pc' = "receive" /\ queues' = queues)
                                => refused' = Queues]_vars
  BY <1>1
<1> QED BY <1>2, Induction, PTL DEF Spec, DroppedAfterAll

\* As long as no queue is full the workers get the messages evenly.
THEOREM LoadBalanced == Spec => []BalancedLoad
<1>1. PInv => BalancedLoad
  <2> SUFFICES ASSUME PInv, ~overloaded, NEW p \in Queues, NEW q \in Queues
               PROVE  given[p] <= given[q] + 1
    BY DEF BalancedLoad
  <2>1. PICK c \in Nat : \A r \in Queues : given[r] = IF r < workerIndex THEN c + 1 ELSE c
    BY DEF PInv, LoadOK
  <2>2. given[p] \in {c, c + 1} /\ given[q] \in {c, c + 1}
    BY <2>1
  <2> QED BY <2>2
<1> QED BY <1>1, Induction, PTL

-----------------------------------------------------------------------------
(* The flow key *)

\* The larger and the smaller of a value and the local one determine the value.
LEMMA OrderedPair ==
  ASSUME NEW a \in Nat, NEW b \in Nat, NEW l \in Nat
  PROVE  (Larger(a, l) = Larger(b, l) /\ Smaller(a, l) = Smaller(b, l)) <=> a = b
BY DEF Larger, Smaller

\* setFlowKey: any two datagrams get the same key exactly when they have the same
\* remote endpoint and identifier.
LEMMA FlowKeyInjective ==
  ASSUME NEW d \in Datagrams, NEW e \in Datagrams
  PROVE  Equal(FlowKey(d), FlowKey(e)) <=> <<d.ip, d.port, d.id>> = <<e.ip, e.port, e.id>>
<1>1. {d.ip, d.port, d.id, e.ip, e.port, e.id, Local.ip, Local.port} \subseteq Nat
  BY DatagramAssumption, LocalAssumption
<1>2. Equal(FlowKey(d), FlowKey(e)) <=>
        /\ Larger(d.ip, Local.ip) = Larger(e.ip, Local.ip)
        /\ Smaller(d.ip, Local.ip) = Smaller(e.ip, Local.ip)
        /\ Larger(d.port, Local.port) = Larger(e.port, Local.port)
        /\ Smaller(d.port, Local.port) = Smaller(e.port, Local.port)
        /\ d.id = e.id
  BY DEF Equal, FlowKey, InitFlowKey
<1>3. Equal(FlowKey(d), FlowKey(e)) <=> d.ip = e.ip /\ d.port = e.port /\ d.id = e.id
  BY <1>1, <1>2, OrderedPair
<1> QED BY <1>3

\* So messages of different peers never meet in the hash table, although the key
\* does not say which end is the server.
THEOREM KeysSeparateFlows == Spec => []FlowKeySound
<1>1. TypeOK => InHand \subseteq Datagrams
  <2> SUFFICES ASSUME TypeOK, NEW d \in InHand PROVE d \in Datagrams
    OBVIOUS
  <2>1. CASE d \in {current} \ {None}
    BY <2>1 DEF TypeOK
  <2>2. ASSUME NEW q \in Queues, NEW i \in DOMAIN queues[q], d = queues[q][i] PROVE d \in Datagrams
    BY <2>2 DEF TypeOK
  <2>3. ASSUME d \in UNION {{queues[q][i] : i \in DOMAIN queues[q]} : q \in Queues}
        PROVE  d \in Datagrams
    BY <2>2, <2>3
  <2> QED BY <2>1, <2>3 DEF InHand
<1>2. TypeOK => FlowKeySound
  BY <1>1, FlowKeyInjective DEF FlowKeySound
<1> QED BY <1>2, TypeCorrect, PTL

-----------------------------------------------------------------------------
(* The refinement of Dispatch *)

\* A datagram that the filter refuses is ignored, and another is accepted.
LEMMA ReceiveMaps ==
  ASSUME PInv, NEW d \in Datagrams, Receive(d)
  PROVE  D!Ignore(d) \/ D!Accept(d)
BY DEF PInv, TypeOK, Receive, D!Ignore, D!Accept

\* A try_push is a Push or a Refuse of the next queue, and the last refusal is the
\* one with which all have refused.
LEMMA TryPushMaps ==
  ASSUME PInv, PInv', TryPush
  PROVE  D!Push(NextQueue) \/ D!Refuse(NextQueue)
<1> DEFINE q == NextQueue
<1>1. /\ q \in Queues /\ q = workerIndex % NumQueues /\ q \notin refused /\ current # None
      /\ refused \cup {q} = Behind' /\ (LastTry => Behind' = Queues)
      /\ workerIndex' = q + 1
  BY TryPushFacts
<1>2. CASE HasRoom(q)
  BY <1>1, <1>2 DEF TryPush, HasRoom, D!Push, D!HasRoom
<1>3. CASE ~HasRoom(q) /\ LastTry
  BY <1>1, <1>3 DEF TryPush, HasRoom, D!Refuse, D!HasRoom
<1>4. CASE ~HasRoom(q) /\ ~LastTry
  <2>1. pc' = "push" /\ current' = current /\ refused' = refused \cup {q}
        /\ UNCHANGED <<network, queues>>
    BY <1>1, <1>4 DEF TryPush
  <2>2. refused' # Queues
    <3>1. workerIndex' \in 0 .. NumQueues /\ tries' \in 0 .. NumQueues - 1 /\ refused' = Behind'
      BY <2>1, QueueAssumption DEF PInv, TypeOK, RoundOK
    <3>2. (IF workerIndex' = NumQueues THEN 0 ELSE workerIndex') \notin Before(workerIndex', tries')
      BY <3>1, RoundStep
    <3>3. (IF workerIndex' = NumQueues THEN 0 ELSE workerIndex') \in Queues
      BY <3>1, QueueAssumption DEF Queues
    <3> QED BY <3>1, <3>2, <3>3 DEF Behind
  <2> QED BY <1>1, <1>4, <2>1, <2>2 DEF HasRoom, D!Refuse, D!HasRoom
<1> QED BY <1>2, <1>3, <1>4

\* The round-robin of handleRadiusEvent implements Dispatch.
THEOREM RoundRobinDispatches == Spec => ImplementsDispatch
<1>1. Init => D!Init
  BY DEF Init, D!Init
<1>2. PInv /\ PInv' /\ [Next]_vars => [D!Next]_(D!vars)
  <2> SUFFICES ASSUME PInv, PInv', Next PROVE D!Next \/ UNCHANGED D!vars
    BY DEF vars, D!vars
  <2>1. ASSUME NEW d \in Datagrams, Receive(d) PROVE D!Next
    BY <2>1, ReceiveMaps DEF D!Next
  <2>2. CASE ReceiveError
    BY <2>2 DEF ReceiveError, D!vars
  <2>3. CASE TryPush
    BY <2>3, TryPushMaps, TryPushFacts DEF D!Next
  <2>4. ASSUME NEW q \in Queues, Pop(q) PROVE D!Next
    BY <2>4 DEF Pop, D!Pop, D!Next
  <2> QED BY <2>1, <2>2, <2>3, <2>4 DEF Next
<1> QED BY <1>1, <1>2, Induction, PTL DEF Spec, ImplementsDispatch, D!Spec
=============================================================================
