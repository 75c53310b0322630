----------------------------- MODULE ThriftSender -----------------------------
(***************************************************************************)
(* ThriftSender.cpp: the thread that pops the records the workers and the  *)
(* timeout handlers queued and sends each in one datagram.  The time stamp *)
(* and the application id it writes into a record, and the text archive it *)
(* makes of it, are left out.                                              *)
(*                                                                         *)
(* TryPushKept, SendFailedFatal and SendFailedCounted are faulty variants  *)
(* of the operators after them, used by no action.                         *)
(***************************************************************************)
EXTENDS Naturals, Sequences, FiniteSets

CONSTANTS
  Records,        \* the ThriftStructs, [req, resp]: a message's AVP list or None
  ThriftCapacity, \* THRIFT_QUEUE_CAPACITY
  None            \* no record, no list

VARIABLES
  outputQueue,       \* m_inputQueuePtr of the sender, m_outputQueuePtr of a worker
  spc,               \* where the sender's thread is
  msgToSend,         \* msgToSendPtr
  senderStop,        \* stop_thread
  thriftStructsSent, \* m_thriftStructsSent
  refused,           \* history: the records for which the queue had no room
  sent,              \* history: the PlainThriftStructs given to the socket
  failed             \* history: the records lost by an exception

vars == <<outputQueue, spc, msgToSend, senderStop, thriftStructsSent, refused, sent, failed>>

Init ==
  /\ outputQueue = <<>>
  /\ spc = "absent" /\ msgToSend = None /\ senderStop = FALSE
  /\ thriftStructsSent = 0
  /\ refused = {} /\ sent = {} /\ failed = {}

\* m_outputQueuePtr->try_push(x) as the callers use it: a record that finds
\* the queue full is gone, for nobody looks at the result.
TryPushKept(x) ==
  /\ outputQueue' = Append(outputQueue, x)
  /\ refused' = IF Len(outputQueue) < ThriftCapacity THEN refused ELSE refused \cup {x}
TryPush(x) ==
  IF Len(outputQueue) < ThriftCapacity
  THEN outputQueue' = Append(outputQueue, x) /\ UNCHANGED refused
  ELSE refused' = refused \cup {x} /\ UNCHANGED outputQueue

Offer(x) ==
  /\ TryPush(x)
  /\ UNCHANGED <<spc, msgToSend, senderStop, thriftStructsSent, sent, failed>>

\* start(): the thread enters its loop.
Start ==
  /\ spc = "absent"
  /\ spc' = "loop"
  /\ UNCHANGED <<outputQueue, msgToSend, senderStop, thriftStructsSent, refused, sent, failed>>

\* try_pop; an empty queue only spins, and no null record is ever queued.
Pop ==
  /\ spc = "loop" /\ ~senderStop /\ outputQueue # <<>>
  /\ msgToSend' = Head(outputQueue)
  /\ outputQueue' = Tail(outputQueue)
  /\ spc' = "send"
  /\ UNCHANGED <<senderStop, thriftStructsSent, refused, sent, failed>>

\* fillPlainThriftStructure: a list that is not there is sent as an empty one.
FillPlain(x) ==
  LET avps(list) == IF list = None THEN {} ELSE {list}
  IN [reqAvpList |-> avps(x.req), respAvpList |-> avps(x.resp)]

\* send_to without an exception.
Send ==
  /\ spc = "send"
  /\ sent' = sent \cup {FillPlain(msgToSend)}
  /\ spc' = "count"
  /\ UNCHANGED <<outputQueue, msgToSend, senderStop, thriftStructsSent, refused, failed>>

\* An exception of the archive or the socket: continue, without the record.
SendFailedFatal ==
  /\ spc = "send"
  /\ failed' = failed \cup {msgToSend}
  /\ msgToSend' = None
  /\ spc' = "stopped"
  /\ UNCHANGED <<outputQueue, senderStop, thriftStructsSent, refused, sent>>
SendFailedCounted ==
  /\ spc = "send"
  /\ failed' = failed \cup {msgToSend}
  /\ spc' = "count"
  /\ UNCHANGED <<outputQueue, msgToSend, senderStop, thriftStructsSent, refused, sent>>
SendFailed ==
  /\ spc = "send"
  /\ failed' = failed \cup {msgToSend}
  /\ msgToSend' = None
  /\ spc' = "loop"
  /\ UNCHANGED <<outputQueue, senderStop, thriftStructsSent, refused, sent>>

\* m_thriftStructsSent++, then the iteration's locals go out of scope.
Count ==
  /\ spc = "count"
  /\ thriftStructsSent' = thriftStructsSent + 1
  /\ msgToSend' = None
  /\ spc' = "loop"
  /\ UNCHANGED <<outputQueue, senderStop, refused, sent, failed>>

\* The loop condition after stop(): what the queue still holds stays there.
Leave ==
  /\ spc = "loop" /\ senderStop
  /\ spc' = "stopped"
  /\ UNCHANGED <<outputQueue, msgToSend, senderStop, thriftStructsSent, refused, sent, failed>>

\* The first half of stop(); the second is the join, which waits for Leave.
Stop ==
  /\ ~senderStop
  /\ senderStop' = TRUE
  /\ UNCHANGED <<outputQueue, spc, msgToSend, thriftStructsSent, refused, sent, failed>>

SendThriftStructures == Pop \/ Send \/ SendFailed \/ Count \/ Leave

-----------------------------------------------------------------------------
(* Properties *)

Queued == {outputQueue[i] : i \in DOMAIN outputQueue}

\* Every variable holds a value of its type, the queue within its capacity.
TypeOK ==
  /\ outputQueue \in Seq(Records) /\ Len(outputQueue) <= ThriftCapacity
  /\ spc \in {"absent", "loop", "send", "count", "stopped"}
  /\ msgToSend \in Records \cup {None}
  /\ senderStop \in BOOLEAN
  /\ thriftStructsSent \in Nat
  /\ refused \subseteq Records /\ failed \subseteq Records
  /\ sent \subseteq {FillPlain(x) : x \in Records}

\* The number that stop() prints is that of the records given to the socket,
\* exceptions or not.
CountExact ==
  spc \in {"loop", "stopped"} => thriftStructsSent = Cardinality(sent)
=============================================================================
