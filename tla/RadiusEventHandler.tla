--------------------------- MODULE RadiusEventHandler ---------------------------
(***************************************************************************)
(* RadiusEventHandler.cpp: main creates and starts the modules, polls the  *)
(* io_service until SIGINT, and stops the modules in reverse order.  The   *)
(* threads are composed of the specifications of their components: the     *)
(* sender is ThriftSender, and a worker handles each message in one step   *)
(* of Correlation, which Worker implements; the receive handler tries the  *)
(* queues as in Dispatch, which PacketReceiver implements.                 *)
(*                                                                         *)
(* MainFailing, ShutdownUnseen, LowestFirst, JoinNothing and WithoutClear  *)
(* are faulty variants of the operators after them, used by no action.     *)
(***************************************************************************)
EXTENDS Naturals, Sequences, FiniteSets

CONSTANTS
  Messages, Requests, Keys, KeyOf, None, \* as in Correlation
  NumWorkers,     \* WORKERS_NUMBER
  QueueCapacity,  \* WORKER_QUEUE_CAPACITY
  ThriftCapacity  \* THRIFT_QUEUE_CAPACITY

ASSUME SizeAssumption ==
  NumWorkers \in Nat \ {0} /\ QueueCapacity \in Nat \ {0} /\ ThriftCapacity \in Nat
ASSUME FlowAssumption ==
  Requests \subseteq Messages /\ KeyOf \in [Messages -> Keys] /\ None \notin Messages

VARIABLES
  phase,    \* where main is; the process is over at "exit" and at "aborted"
  gone,     \* how many of main's objects are destroyed
  module,   \* the next module of m_modulesArray to start, to stop or to join
  isShutdownStarted,
  network, receiving, tried, \* the receiver, as in Dispatch
  inputQueue, stopThread, wpc, msg, \* of each worker, as in Worker
  pending, reports, done,           \* the correlation engine
  outputQueue, spc, msgToSend, senderStop, thriftStructsSent, refused, sent, failed

\* m_modulesArray: the sender is module 0, the workers follow.
Sender  == 0
Workers == 1 .. NumWorkers
Modules == {Sender} \cup Workers

C == INSTANCE Correlation
D == INSTANCE Dispatch WITH
       Accepted <- Messages, Queues <- Workers, current <- receiving, queues <- inputQueue
S == INSTANCE ThriftSender WITH Records <- C!Records

mainVars   == <<phase, module, gone, isShutdownStarted>>
receiverVars == <<network, receiving, tried, inputQueue>>
workerVars == <<stopThread, wpc, msg>>
engineVars == <<pending, reports, done>>
senderVars == <<outputQueue, spc, msgToSend, senderStop, thriftStructsSent, refused, sent, failed>>
vars == <<mainVars, receiverVars, workerVars, engineVars, senderVars>>

Init ==
  /\ phase = "configure" /\ module = Sender /\ gone = 0 /\ isShutdownStarted = FALSE
  /\ stopThread = [w \in Workers |-> FALSE]
  /\ wpc = [w \in Workers |-> "absent"]
  /\ msg = [w \in Workers |-> None]
  /\ C!Init /\ D!Init /\ S!Init

Alive == phase \notin {"exit", "aborted"}

\* SIGINT, at any time: the handler is installed by the first line of main.
Sigint ==
  /\ Alive /\ ~isShutdownStarted
  /\ isShutdownStarted' = TRUE
  /\ UNCHANGED <<phase, module, gone, receiverVars, workerVars, engineVars, senderVars>>

-----------------------------------------------------------------------------
(* main before the loop *)

\* getConfigFromProgramOptions; StartupFails is its false.
Configure ==
  /\ phase = "configure"
  /\ phase' = "create"
  /\ UNCHANGED <<module, gone, isShutdownStarted, receiverVars, workerVars, engineVars, senderVars>>

\* createModules; the sender's socket, bound to port 5555, may throw.
CreateModules ==
  /\ phase = "create"
  /\ phase' = "start"
  /\ UNCHANGED <<module, gone, isShutdownStarted, receiverVars, workerVars, engineVars, senderVars>>

\* One start() of startModules, in the order of m_modulesArray.
StartModule ==
  /\ phase = "start" /\ module \in Modules
  /\ module' = module + 1
  /\ IF module = Sender THEN S!Start /\ UNCHANGED wpc
                        ELSE wpc' = [wpc EXCEPT ![module] = "loop"] /\ UNCHANGED senderVars
  /\ UNCHANGED <<phase, gone, isShutdownStarted, receiverVars, stopThread, msg, engineVars>>

\* The receiver's start() comes last; opening or binding its socket may throw,
\* when all threads run.
StartReceiver ==
  /\ phase = "start" /\ module \notin Modules
  /\ phase' = "check"
  /\ UNCHANGED <<module, gone, isShutdownStarted, receiverVars, workerVars, engineVars, senderVars>>

\* A command line that is refused, or an exception of createModules or
\* startModules: exit(0) ends the process, with the threads that were started.
MainFailing == {"configure", "create", "start", "check"}
Failing == {"configure", "create", "start"}
StartupFails ==
  /\ phase \in Failing
  /\ phase' = "exit"
  /\ UNCHANGED <<module, gone, isShutdownStarted, receiverVars, workerVars, engineVars, senderVars>>

-----------------------------------------------------------------------------
(* The main loop: poll_one runs at most one handler. *)

LastStarted == NumWorkers

\* The flag is a plain bool, but each iteration calls functions that may write
\* it as far as the compiler knows, so it is read anew.
ShutdownUnseen == FALSE
ShutdownSeen == isShutdownStarted

CheckShutdown ==
  /\ phase = "check"
  /\ IF ShutdownSeen THEN phase' = "stop" /\ module' = LastStarted
                          ELSE phase' = "poll" /\ UNCHANGED module
  /\ UNCHANGED <<gone, isShutdownStarted, receiverVars, workerVars, engineVars, senderVars>>

PollNothing ==
  /\ phase = "poll"
  /\ phase' = "check"
  /\ UNCHANGED <<module, gone, isShutdownStarted, receiverVars, workerVars, engineVars, senderVars>>

\* The receive handler takes m ...
PollReceive(m) ==
  /\ phase = "poll" /\ phase' = "dispatch"
  /\ D!Accept(m)
  /\ UNCHANGED <<module, gone, isShutdownStarted, workerVars, engineVars, senderVars>>

\* ... and tries one queue after another while the workers pop from them.
TryQueue(w) ==
  /\ phase = "dispatch"
  /\ D!Push(w) \/ D!Refuse(w)
  /\ phase' = IF receiving' = None THEN "check" ELSE phase
  /\ UNCHANGED <<module, gone, isShutdownStarted, workerVars, engineVars, senderVars>>

\* What is reported by a step of Correlation is offered to the sender.
OfferReported ==
  IF reports' = reports THEN UNCHANGED senderVars ELSE \E x \in reports' \ reports : S!Offer(x)

\* handleTimeout for the entry of k.
PollTimeout(k) ==
  /\ phase = "poll"
  /\ phase' = "check"
  /\ C!Expire(k)
  /\ OfferReported
  /\ UNCHANGED <<module, gone, isShutdownStarted, receiverVars, workerVars>>

-----------------------------------------------------------------------------
(* stopModules *)

LowestFirst(i) == NumWorkers - i
\* The module at position i of the reverse iteration.
ReverseOrder(i) == i

\* stop_thread = true of the module whose turn it is ...
StopModule ==
  LET i == ReverseOrder(module) IN
  /\ phase = "stop" /\ module \in Modules
  /\ phase' = "join"
  /\ IF i = Sender THEN S!Stop /\ UNCHANGED stopThread
                   ELSE stopThread' = [stopThread EXCEPT ![i] = TRUE] /\ UNCHANGED senderVars
  /\ UNCHANGED <<module, gone, isShutdownStarted, receiverVars, wpc, msg, engineVars>>

Returned(i) == IF i = Sender THEN spc = "stopped" ELSE wpc[i] = "stopped"
JoinNothing(i) == TRUE
Joinable(i) == Returned(i)

\* ... and the join of its thread, before the turn of the module before it.
JoinModule ==
  /\ phase = "join" /\ Joinable(ReverseOrder(module))
  /\ IF module = 0 THEN phase' = "destroy" /\ UNCHANGED module
                   ELSE phase' = "stop" /\ module' = module - 1
  /\ UNCHANGED <<gone, isShutdownStarted, receiverVars, workerVars, engineVars, senderVars>>

\* The end of main: the destructor's body clears three containers, then the
\* members go in the reverse of their declaration: m_io before the socket of the
\* receiver, and before the records left in the sender's queue.
WithoutClear == <<"m_io", "m_hashTable", "m_modulesArray", "m_packetReceiverPtr",
                  "m_thriftQueuePtr", "m_PR2WorkersQueues">>
Destruction == <<"m_modulesArray", "m_PR2WorkersQueues", "m_hashTable",
                 "m_io", "m_packetReceiverPtr", "m_thriftQueuePtr">>

Destroy ==
  /\ phase = "destroy"
  /\ gone' = gone + 1
  /\ phase' = IF gone' = Len(Destruction) THEN "exit" ELSE phase
  /\ UNCHANGED <<module, isShutdownStarted, receiverVars, workerVars, engineVars, senderVars>>

Main ==
  \/ Configure \/ CreateModules \/ StartModule \/ StartReceiver \/ StartupFails
  \/ CheckShutdown \/ PollNothing
  \/ \E m \in Messages : PollReceive(m)
  \/ \E w \in Workers : TryQueue(w)
  \/ \E k \in Keys : PollTimeout(k)
  \/ StopModule \/ JoinModule \/ Destroy

-----------------------------------------------------------------------------
(* The threads *)

WorkerPop(w) ==
  /\ Alive /\ wpc[w] = "loop" /\ ~stopThread[w]
  /\ D!Pop(w)
  /\ msg' = [msg EXCEPT ![w] = Head(inputQueue[w])]
  /\ wpc' = [wpc EXCEPT ![w] = "busy"]
  /\ UNCHANGED <<mainVars, stopThread, engineVars, senderVars>>

\* Of the attributes of a message only the message is known here, so that getAllAvps
\* may do with each one whatever AvpParser says: return, loop for ever, or throw.

\* It returns, and the rest of the iteration: the message opens an entry, meets its
\* mate or a message of its kind, or displaces the record of another worker.
WorkerHandle(w) ==
  /\ Alive /\ wpc[w] = "busy"
  /\ C!Open(msg[w]) \/ C!Match(msg[w]) \/ C!Clash(msg[w]) \/ C!Replace(msg[w])
  /\ OfferReported
  /\ msg' = [msg EXCEPT ![w] = None]
  /\ wpc' = [wpc EXCEPT ![w] = "loop"]
  /\ UNCHANGED <<mainVars, receiverVars, stopThread>>

\* It is caught in its loop (AvpParser!Spin), goes round, and changes nothing any more.
WorkerCaught(w) ==
  /\ Alive /\ wpc[w] = "busy"
  /\ wpc' = [wpc EXCEPT ![w] = "caught"]
  /\ UNCHANGED <<mainVars, receiverVars, stopThread, msg, engineVars, senderVars>>
WorkerSpins(w) == Alive /\ wpc[w] = "caught" /\ UNCHANGED vars

\* It throws, and nothing in the thread catches it: the process ends (AvpParser!Throw).
WorkerThrows(w) ==
  /\ Alive /\ wpc[w] = "busy"
  /\ phase' = "aborted"
  /\ UNCHANGED <<module, gone, isShutdownStarted, receiverVars, workerVars, engineVars, senderVars>>

WorkerLeave(w) ==
  /\ Alive /\ wpc[w] = "loop" /\ stopThread[w]
  /\ wpc' = [wpc EXCEPT ![w] = "stopped"]
  /\ UNCHANGED <<mainVars, receiverVars, stopThread, msg, engineVars, senderVars>>

WorkerThread(w) ==
  \/ WorkerPop(w) \/ WorkerHandle(w) \/ WorkerCaught(w) \/ WorkerSpins(w)
  \/ WorkerThrows(w) \/ WorkerLeave(w)

SenderThread ==
  /\ Alive /\ S!SendThriftStructures
  /\ UNCHANGED <<mainVars, receiverVars, workerVars, engineVars>>

\* The process is over.
Exited == ~Alive /\ UNCHANGED vars

Next == Sigint \/ Main \/ (\E w \in Workers : WorkerThread(w)) \/ SenderThread \/ Exited

Spec == Init /\ [][Next]_vars

\* Every thread is scheduled.
FairSpec == Spec /\ WF_vars(Main) /\ WF_vars(SenderThread) /\ \A w \in Workers : WF_vars(WorkerThread(w))

-----------------------------------------------------------------------------
(* Properties *)

\* Every variable holds a value of its type.
TypeOK ==
  /\ phase \in {"configure", "create", "start", "check", "poll", "dispatch", "stop", "join",
               "destroy", "exit", "aborted"}
  /\ module \in 0 .. NumWorkers + 1 /\ gone \in 0 .. Len(Destruction)
  /\ isShutdownStarted \in BOOLEAN
  /\ network \subseteq Messages /\ tried \subseteq Workers
  /\ receiving \in Messages \cup {None}
  /\ phase = "dispatch" => receiving # None
  /\ receiving # None => phase \in {"dispatch", "aborted"}
  /\ inputQueue \in [Workers -> Seq(Messages)]
  /\ \A w \in Workers : Len(inputQueue[w]) <= QueueCapacity
  /\ stopThread \in [Workers -> BOOLEAN]
  /\ wpc \in [Workers -> {"absent", "loop", "busy", "caught", "stopped"}]
  /\ msg \in [Workers -> Messages \cup {None}]
  /\ C!TypeOK /\ S!TypeOK

\* Every record that left the hash table is in exactly one place: it waits in
\* the sender's queue, is in the sender's hands, was sent, was lost by an
\* exception, or found the queue full.
Accounted ==
  LET hand == IF spc = "send" THEN {msgToSend} ELSE {}
      out == {x \in reports : S!FillPlain(x) \in sent} IN
  /\ reports = refused \cup S!Queued \cup hand \cup out \cup failed
  /\ Cardinality(reports) = Cardinality(refused) + Len(outputQueue) + Cardinality(hand)
                              + Cardinality(sent) + Cardinality(failed)

\* A message is in at most one place between the socket and the hash table: the
\* receiver pushes it to one queue only (PacketReceiver.cpp:120-128), and the
\* engine gets it once.
MessageOnce ==
  \A m \in Messages :
    LET queued == {p \in Workers \X (1 .. QueueCapacity) :
                     p[2] <= Len(inputQueue[p[1]]) /\ inputQueue[p[1]][p[2]] = m}
        inHand == {<<w, 0>> : w \in {w \in Workers : msg[w] = m}}
    IN /\ Cardinality(queued \cup inHand) <= 1
       /\ queued \cup inHand # {} => m \notin network \cup {receiving} \cup done
       /\ m \in network => m \notin {receiving} \cup done
       /\ receiving \notin done

\* The number of sent records the sender prints when it is stopped
\* (ThriftSender.cpp:37) is exact, whatever exceptions it met.  The other number
\* stopModules prints is the subject of Worker's UnmatchedSound.
SentCountExact == S!CountExact

\* The messages whose attributes a datagram carries.
Carried(plain) == plain.reqAvpList \cup plain.respAvpList

\* From the receiver to the socket of the sender, the attributes of a message are
\* sent once: what a datagram carries is in no other one, does not wait in the
\* hash table for a mate, and is in no record that is still queued or was lost.
SentOnce ==
  \A x \in sent :
    /\ Carried(x) \subseteq done
    /\ \A y \in sent : x # y => Carried(x) \cap Carried(y) = {}
    /\ \A k \in Keys : pending[k] \notin Carried(x)
    /\ \A y \in S!Queued \cup refused \cup failed : Carried(x) \cap C!Members(y) = {}

\* The sender is the last to be stopped: once it may leave, no worker and no
\* timeout offers it anything.
NothingAfterSenderStop == [][senderStop => UNCHANGED <<pending, reports, inputQueue>>]_vars

\* However SIGINT falls, main begins to destroy its objects only when every thread
\* it started has returned, and the records that wait in the hash table are
\* destroyed before the io_service of their timers, although m_hashTable is declared
\* before m_io (RadiusEventHandler.hpp:37-38, RadiusEventHandler.cpp:46-50).
\* It says nothing of the receiver's socket and of the records left in the sender's
\* queue, which outlive m_io.
JoinedAndCleared ==
  LET destroyed == {Destruction[i] : i \in 1 .. gone} IN
  /\ destroyed # {} => \A i \in Modules : Returned(i)
  /\ "m_io" \in destroyed /\ "m_hashTable" \notin destroyed => \A k \in Keys : pending[k] = None

\* A start-up that fails has taken no message: exit(0) of main
\* (RadiusEventHandler.cpp:140, :150) loses nothing, though threads may run.
FailedStartTakesNothing ==
  (phase = "exit" /\ ~senderStop) => network = Messages /\ done = {}

\* SIGINT ends the process, in whatever phase it comes, unless main waits for a
\* worker that getAllAvps never returns to (Worker.cpp:144).
ShutdownCompletes ==
  isShutdownStarted ~> (~Alive \/ (phase = "join" /\ module \in Workers /\ wpc[module] = "caught"))

\* The messages a worker has still to handle.
Ahead(w) == {inputQueue[w][i] : i \in DOMAIN inputQueue[w]} \cup ({msg[w]} \ {None})

\* As long as the program runs and nobody stops it, a message in a queue is handled,
\* unless its worker is caught in getAllAvps, and the sender takes each record from
\* its queue, whatever exceptions it meets (ThriftSender.cpp:73).
Progress ==
  LET over == isShutdownStarted \/ ~Alive IN
  /\ \A m \in Messages :
       (\E w \in Workers : m \in Ahead(w)) ~>
         (m \in done \/ (\E w \in Workers : wpc[w] = "caught" /\ m \in Ahead(w)) \/ over)
  /\ \A x \in C!Records : (x \in S!Queued) ~> (x \notin S!Queued \/ over)

\* RadiusEventHandler.cpp:34, "Graceful shutdown started ...": when the program
\* has stopped its modules, the records its engine handed over were sent (or
\* failed, or were refused), and no accepted message is left in a queue.
GracefulShutdown ==
  (phase = "exit" /\ senderStop) =>
     outputQueue = <<>> /\ \A w \in Workers : inputQueue[w] = <<>>
=============================================================================
