---------------------- MODULE RadiusEventHandlerProofs ----------------------
(***************************************************************************)
(* Proofs about RadiusEventHandler for any number of workers, messages and *)
(* flow keys, and any capacities.                                          *)
(***************************************************************************)
EXTENDS RadiusEventHandlerInvariant, FiniteSetTheorems, TLAPS

P == INSTANCE CorrelationProofs

\* The steps that only move main, raise a flag, or start or end a thread or the process.
Quiet ==
  /\ UNCHANGED <<receiverVars, msg, engineVars, outputQueue, msgToSend, thriftStructsSent, refused,
                 sent, failed>>
  /\ spc' = spc \/ (spc = "absent" /\ spc' = "loop")
  /\ \A w \in Workers : wpc'[w] \in {"busy", "caught"} <=> wpc[w] \in {"busy", "caught"}

\* These steps move main, raise a flag, or start or end a thread or the process, and no more.
LEMMA QuietSteps ==
  ASSUME TypeOK,
         \/ Sigint \/ Configure \/ CreateModules \/ StartModule \/ StartReceiver \/ StartupFails
         \/ CheckShutdown \/ PollNothing \/ StopModule \/ JoinModule \/ Destroy
         \/ (\E w \in Workers : WorkerLeave(w) \/ WorkerCaught(w) \/ WorkerSpins(w) \/ WorkerThrows(w))
         \/ UNCHANGED vars,
         phase = "start" => \A w \in Workers : wpc[w] \notin {"busy", "caught"}
  PROVE  Quiet
BY DEF Quiet, TypeOK, Sigint, Configure, CreateModules, StartModule, StartReceiver, StartupFails,
       CheckShutdown, PollNothing, StopModule, JoinModule, Destroy, WorkerLeave, WorkerCaught, WorkerSpins, WorkerThrows,
       vars, mainVars, receiverVars, workerVars, engineVars, senderVars, S!Start, S!Stop, Modules, Sender

\* A step of the engine is a step of Correlation.
LEMMA HandleStep ==
  ASSUME TypeOK, Transit, NEW w \in Workers, WorkerHandle(w)
  PROVE  msg[w] \in Messages /\ C!Next
<1>1. msg[w] \in Messages
  BY DEF TypeOK, Transit, HandsOK, WorkerHandle
<1> QED BY <1>1 DEF WorkerHandle, C!Next, C!StrictNext

\* Every step of the program is a step of the correlation engine or leaves it alone.
LEMMA EngineStep ==
  ASSUME TypeOK, Transit, StartOK, [Next]_vars
  PROVE  [C!Next]_(C!vars)
<1>1. ASSUME NEW k \in Keys, PollTimeout(k) PROVE C!Next
  BY <1>1 DEF PollTimeout, C!Next, C!StrictNext
<1>2. ASSUME NEW w \in Workers, WorkerHandle(w) PROVE C!Next
  BY <1>2, HandleStep
<1>3. ASSUME NEW m \in Messages, PollReceive(m) PROVE UNCHANGED C!vars
  BY <1>3 DEF PollReceive, engineVars, C!vars
<1>4. ASSUME NEW w \in Workers, TryQueue(w) \/ WorkerPop(w) PROVE UNCHANGED C!vars
  BY <1>4 DEF TryQueue, WorkerPop, engineVars, C!vars
<1>5. CASE SenderThread
  BY <1>5 DEF SenderThread, engineVars, C!vars
<1>6. phase = "start" => \A w \in Workers : wpc[w] \notin {"busy", "caught"}
  BY DEF StartOK, Starting
<1>7. Quiet => UNCHANGED C!vars
  BY DEF Quiet, engineVars, C!vars
<1> QED BY <1>1, <1>2, <1>3, <1>4, <1>5, <1>6, <1>7, QuietSteps
        DEF Next, Main, WorkerThread, Exited

\* The two instances of Correlation are one.
LEMMA SameEngine ==
  /\ C!Init => P!Init
  /\ [C!Next]_(C!vars) => [P!Next]_(P!vars)
  /\ P!TypeOK => C!TypeOK
<1>1. C!Next => P!Next
  BY DEF C!Next, C!Replace, C!StrictNext, C!Open, C!Match, C!Clash, C!Expire, C!Handle,
         C!Waiting, C!SameKind, C!Alone, C!Pair, P!Next, P!Replace, P!StrictNext, P!Open,
         P!Match, P!Clash, P!Expire, P!Handle, P!Waiting, P!SameKind, P!Alone, P!Pair
<1>2. UNCHANGED C!vars => UNCHANGED P!vars
  BY DEF C!vars, P!vars
<1>3. C!Init => P!Init
  BY DEF C!Init, P!Init
<1>4. P!TypeOK => C!TypeOK
  BY DEF P!TypeOK, P!Records, C!TypeOK, C!Records
<1> QED BY <1>1, <1>2, <1>3, <1>4

\* The invariant proved of the correlation engine is therefore kept by the program.
LEMMA EngineCInv ==
  ASSUME TypeOK, Transit, StartOK, P!CInv, [Next]_vars
  PROVE  P!CInv' /\ C!TypeOK'
<1>1. P!CInv'
  BY EngineStep, SameEngine, P!NextCInv, FlowAssumption
<1>2. C!TypeOK'
  BY <1>1 DEF P!CInv, P!TypeOK, P!Records, C!TypeOK, C!Records
<1> QED BY <1>1, <1>2

-----------------------------------------------------------------------------
(* Types *)

\* try_push of the records and the steps of the sender keep its types.
LEMMA OfferType ==
  ASSUME S!TypeOK, NEW x \in C!Records, S!Offer(x)
  PROVE  S!TypeOK'
<1>1. CASE Len(outputQueue) < ThriftCapacity
  <2>1. /\ outputQueue' = Append(outputQueue, x)
        /\ UNCHANGED <<spc, msgToSend, senderStop, thriftStructsSent, refused, sent, failed>>
    BY <1>1 DEF S!Offer, S!TryPush
  <2>2. outputQueue' \in Seq(C!Records) /\ Len(outputQueue') <= ThriftCapacity
    BY <1>1, <2>1, SizeAssumption DEF S!TypeOK
  <2> QED BY <2>1, <2>2 DEF S!TypeOK
<1>2. CASE ~(Len(outputQueue) < ThriftCapacity)
  BY <1>2 DEF S!Offer, S!TryPush, S!TypeOK
<1> QED BY <1>1, <1>2

\* The operations of the sender keep its types.
LEMMA SenderType ==
  ASSUME S!TypeOK, spc = "send" => msgToSend \in C!Records,
         S!SendThriftStructures \/ S!Start \/ S!Stop
  PROVE  S!TypeOK'
<1>1. CASE S!Pop
  <2>1. outputQueue \in Seq(C!Records) /\ outputQueue # <<>> /\ Len(outputQueue) <= ThriftCapacity
    BY <1>1 DEF S!Pop, S!TypeOK
  <2>2. /\ Head(outputQueue) \in C!Records /\ Tail(outputQueue) \in Seq(C!Records)
        /\ Len(Tail(outputQueue)) <= ThriftCapacity
    BY <2>1, SizeAssumption
  <2> QED BY <1>1, <2>2 DEF S!Pop, S!TypeOK
<1>2. CASE S!Send
  BY <1>2 DEF S!Send, S!TypeOK
<1>3. CASE S!SendFailed
  BY <1>3 DEF S!SendFailed, S!TypeOK
<1>4. CASE S!Count
  BY <1>4 DEF S!Count, S!TypeOK
<1>5. CASE S!Leave \/ S!Start
  BY <1>5 DEF S!Leave, S!Start, S!TypeOK
<1>6. CASE S!Stop
  BY <1>6 DEF S!Stop, S!TypeOK
<1> QED BY <1>1, <1>2, <1>3, <1>4, <1>5, <1>6 DEF S!SendThriftStructures

\* Every step keeps the types.
LEMMA NextTypeOK ==
  ASSUME TypeOK, P!CInv, Control, Transit, Ledger, [Next]_vars
  PROVE  TypeOK'
<1> USE SizeAssumption, FlowAssumption
    DEF mainVars, receiverVars, workerVars, engineVars, Modules, Sender, Workers
<1> DEFINE MainType == /\ phase \in {"configure", "create", "start", "check", "poll", "dispatch",
                                     "stop", "join", "destroy", "exit", "aborted"}
                       /\ module \in 0 .. NumWorkers + 1 /\ gone \in 0 .. Len(Destruction)
                       /\ isShutdownStarted \in BOOLEAN
           ReceiverType == /\ network \subseteq Messages /\ tried \subseteq Workers
                           /\ receiving \in Messages \cup {None}
                           /\ phase = "dispatch" => receiving # None
                           /\ receiving # None => phase \in {"dispatch", "aborted"}
           QueueType == /\ inputQueue \in [Workers -> Seq(Messages)]
                        /\ \A w \in Workers : Len(inputQueue[w]) <= QueueCapacity
           WorkerType == /\ stopThread \in [Workers -> BOOLEAN]
                         /\ wpc \in [Workers -> {"absent", "loop", "busy", "caught", "stopped"}]
                         /\ msg \in [Workers -> Messages \cup {None}]
<1>1. P!CInv' /\ C!TypeOK'
  BY EngineCInv DEF Control
<1>2. MainType /\ ReceiverType /\ QueueType /\ WorkerType /\ S!TypeOK
  BY DEF TypeOK
<1>3. (MainType /\ ReceiverType /\ QueueType /\ WorkerType /\ S!TypeOK)' => TypeOK'
  BY <1>1 DEF TypeOK
<1>4. spc = "send" => msgToSend \in C!Records
  BY DEF Ledger, Places
<1>5. UNCHANGED senderVars => S!TypeOK'
  BY <1>2 DEF senderVars, S!TypeOK
<1>6. ASSUME OfferReported PROVE S!TypeOK'
  <2>1. CASE reports' = reports
    BY <1>5, <1>6, <2>1 DEF OfferReported
  <2>2. ASSUME NEW x \in reports' \ reports, S!Offer(x) PROVE S!TypeOK'
    BY <1>1, <1>2, <2>2, OfferType DEF C!TypeOK
  <2> QED BY <1>6, <2>1, <2>2 DEF OfferReported
<1>7. CASE Sigint \/ Configure \/ CreateModules \/ StartReceiver \/ StartupFails
           \/ CheckShutdown \/ PollNothing \/ UNCHANGED vars
  <2>1. UNCHANGED <<receiverVars, workerVars, senderVars, gone>>
    BY <1>7 DEF Sigint, Configure, CreateModules, StartReceiver, StartupFails, CheckShutdown,
                PollNothing, vars
  <2>2. QueueType' /\ WorkerType' /\ S!TypeOK'
    BY <1>2, <1>5, <2>1
  <2>3. /\ MainType' /\ (phase' = "dispatch" <=> phase = "dispatch")
        /\ phase = "aborted" => phase' = "aborted"
    <3>1. gone' = gone
      BY <2>1
    <3>2. CASE Sigint \/ UNCHANGED vars
      BY <1>2, <3>2 DEF Sigint, vars
    <3>3. CASE CheckShutdown \/ PollNothing
      BY <1>2, <3>1, <3>3 DEF CheckShutdown, LastStarted, PollNothing
    <3>4. CASE Configure \/ CreateModules \/ StartReceiver \/ StartupFails
      BY <1>2, <3>1, <3>4 DEF Configure, CreateModules, StartReceiver, StartupFails, Failing
    <3> QED BY <1>7, <3>2, <3>3, <3>4
  <2>4. ReceiverType'
    BY <1>2, <2>1, <2>3
  <2> QED BY <1>3, <2>2, <2>3, <2>4
<1>8. CASE StartModule
  BY <1>2, <1>3, <1>4, <1>5, <1>8, SenderType DEF StartModule
<1>9. ASSUME NEW m \in Messages, PollReceive(m) PROVE TypeOK'
  BY <1>2, <1>3, <1>5, <1>9 DEF PollReceive, D!Accept
<1>10. ASSUME NEW w \in Workers, TryQueue(w) PROVE TypeOK'
  <2>1. QueueType'
    <3>1. CASE D!Push(w)
      <4>1. /\ inputQueue[w] \in Seq(Messages) /\ receiving \in Messages
            /\ Len(inputQueue[w]) < QueueCapacity
        BY <1>2, <3>1 DEF D!Push, D!HasRoom
      <4>2. /\ Append(inputQueue[w], receiving) \in Seq(Messages)
            /\ Len(Append(inputQueue[w], receiving)) <= QueueCapacity
        BY <4>1
      <4> QED BY <1>2, <3>1, <4>2 DEF D!Push
    <3>2. CASE D!Refuse(w)
      BY <1>2, <3>2 DEF D!Refuse
    <3> QED BY <1>10, <3>1, <3>2 DEF TryQueue
  <2>2. ReceiverType' /\ MainType'
    BY <1>2, <1>10 DEF TryQueue, D!Push, D!Refuse
  <2>3. WorkerType' /\ S!TypeOK'
    BY <1>2, <1>5, <1>10 DEF TryQueue
  <2> QED BY <1>3, <2>1, <2>2, <2>3
<1>11. ASSUME NEW k \in Keys, PollTimeout(k) PROVE TypeOK'
  BY <1>2, <1>3, <1>6, <1>11 DEF PollTimeout
<1>12. CASE StopModule
  BY <1>2, <1>3, <1>4, <1>5, <1>12, SenderType DEF StopModule, ReverseOrder
<1>13. CASE JoinModule
  BY <1>2, <1>3, <1>5, <1>13 DEF JoinModule, Control, StopOK
<1>14. CASE Destroy
  BY <1>2, <1>3, <1>5, <1>14 DEF Destroy, Control, StopOK, Destruction
<1>15. ASSUME NEW w \in Workers, WorkerPop(w) PROVE TypeOK'
  <2>1. inputQueue[w] \in Seq(Messages) /\ inputQueue[w] # <<>> /\ Len(inputQueue[w]) <= QueueCapacity
    BY <1>2, <1>15 DEF WorkerPop, D!Pop
  <2>2. /\ Head(inputQueue[w]) \in Messages /\ Tail(inputQueue[w]) \in Seq(Messages)
        /\ Len(Tail(inputQueue[w])) <= QueueCapacity
    BY <2>1
  <2>3. QueueType'
    BY <1>2, <1>15, <2>2 DEF WorkerPop, D!Pop
  <2> QED BY <1>2, <1>3, <1>5, <1>15, <2>2, <2>3 DEF WorkerPop, D!Pop
<1>16. ASSUME NEW w \in Workers, WorkerHandle(w) \/ WorkerCaught(w) \/ WorkerThrows(w) \/ WorkerLeave(w) PROVE TypeOK'
  BY <1>2, <1>3, <1>5, <1>6, <1>16 DEF WorkerHandle, WorkerCaught, WorkerThrows, WorkerLeave, Alive
<1>17. CASE SenderThread
  BY <1>2, <1>3, <1>4, <1>17, SenderType DEF SenderThread
<1> QED BY <1>7, <1>8, <1>9, <1>10, <1>11, <1>12, <1>13, <1>14, <1>15, <1>16, <1>17
        DEF Next, Main, WorkerThread, WorkerSpins, Exited

-----------------------------------------------------------------------------
(* Where main is *)

\* While the program starts, the threads that run have nothing to do.
LEMMA StartingIdle ==
  ASSUME TypeOK, Control, Starting
  PROVE  /\ ~(\E w \in Workers : WorkerThread(w)) /\ ~SenderThread
         /\ ~CheckShutdown /\ ~PollNothing /\ ~StopModule /\ ~JoinModule /\ ~Destroy
         /\ \A m \in Messages : ~PollReceive(m)
         /\ \A w \in Workers : ~TryQueue(w)
         /\ \A k \in Keys : ~PollTimeout(k)
<1>1. /\ phase \in {"configure", "create", "start", "exit"} /\ outputQueue = <<>> /\ ~senderStop
      /\ spc \in {"absent", "loop"}
      /\ \A w \in Workers : inputQueue[w] = <<>> /\ wpc[w] \in {"absent", "loop"} /\ ~stopThread[w]
  BY DEF Control, StartOK, Starting
<1>2. ~(\E w \in Workers : WorkerThread(w))
  BY <1>1 DEF WorkerThread, WorkerPop, WorkerHandle, WorkerCaught, WorkerSpins, WorkerThrows, WorkerLeave, D!Pop
<1>3. ~SenderThread
  BY <1>1 DEF SenderThread, S!SendThriftStructures, S!Pop, S!Send, S!SendFailed, S!Count, S!Leave
<1> QED BY <1>1, <1>2, <1>3 DEF CheckShutdown, PollNothing, StopModule, JoinModule, Destroy,
              PollReceive, TryQueue, PollTimeout

\* An offer to the sender touches its queue and nothing else of it.
LEMMA OfferFrame ==
  ASSUME OfferReported
  PROVE  UNCHANGED <<spc, msgToSend, senderStop, thriftStructsSent, sent, failed>>
BY DEF OfferReported, S!Offer, senderVars

\* Only StopModule raises senderStop, and nothing lowers it.
LEMMA StopRaised ==
  ASSUME [Next]_vars
  PROVE  /\ senderStop => senderStop'
         /\ StopModule \/ senderStop' = senderStop
<1>1. ASSUME NEW w \in Workers, WorkerThread(w) PROVE senderStop' = senderStop
  BY <1>1, OfferFrame DEF WorkerThread, WorkerPop, WorkerHandle, WorkerCaught, WorkerSpins, WorkerThrows, WorkerLeave,
                                vars, senderVars
<1>2. ASSUME NEW k \in Keys, PollTimeout(k) PROVE senderStop' = senderStop
  BY <1>2, OfferFrame DEF PollTimeout
<1>3. CASE SenderThread
  BY <1>3 DEF SenderThread, S!SendThriftStructures, S!Pop, S!Send, S!SendFailed, S!Count, S!Leave
<1>4. CASE StopModule
  BY <1>4 DEF StopModule, S!Stop, senderVars
<1>5. CASE StartModule
  BY <1>5 DEF StartModule, S!Start, senderVars
<1>6. ASSUME \/ Sigint \/ Configure \/ CreateModules \/ StartReceiver \/ StartupFails
             \/ CheckShutdown \/ PollNothing \/ JoinModule \/ Destroy \/ UNCHANGED vars
             \/ (\E m \in Messages : PollReceive(m)) \/ (\E w \in Workers : TryQueue(w))
      PROVE  senderStop' = senderStop
  BY <1>6 DEF Sigint, Configure, CreateModules, StartReceiver, StartupFails, CheckShutdown,
              PollNothing, JoinModule, Destroy, PollReceive, TryQueue, vars, senderVars
<1> QED BY <1>1, <1>2, <1>3, <1>4, <1>5, <1>6 DEF Next, Main, Exited

\* Nothing goes back to the start-up, and a start-up that fails leaves no trace.
LEMMA NextStartOK ==
  ASSUME TypeOK, Control, [Next]_vars
  PROVE  StartOK'
<1> USE DEF mainVars, receiverVars, workerVars, engineVars, senderVars
<1>1. CASE Starting
  <2>1. \/ Sigint \/ Configure \/ CreateModules \/ StartModule \/ StartReceiver \/ StartupFails
        \/ UNCHANGED vars
    BY <1>1, StartingIdle DEF Next, Main, Exited
  <2>2. CASE StartModule
    <3>1. /\ UNCHANGED <<phase, gone, receiverVars, stopThread, engineVars, outputQueue, senderStop>>
          /\ spc' \in {spc, "loop"} /\ phase = "start"
      BY <2>2 DEF StartModule, S!Start
    <3>2. \A w \in Workers : wpc'[w] \in {wpc[w], "loop"}
      BY <2>2 DEF StartModule, TypeOK
    <3> QED BY <1>1, <3>1, <3>2 DEF Control, StartOK, Starting
  <2>3. CASE Sigint \/ UNCHANGED vars
    BY <1>1, <2>3 DEF Sigint, vars, Control, StartOK, Starting
  <2>4. CASE Configure \/ CreateModules \/ StartReceiver \/ StartupFails
    BY <1>1, <2>4 DEF Configure, CreateModules, StartReceiver, StartupFails, Failing,
                      Control, StartOK, Starting
  <2> QED BY <2>1, <2>2, <2>3, <2>4
<1>2. CASE ~Starting
  <2>1. phase \notin {"configure", "create", "start"} /\ (phase = "exit" => senderStop)
    BY <1>2 DEF Starting
  <2>2. senderStop => senderStop'
    BY StopRaised
  <2>3. ASSUME Destroy PROVE ~Starting'
    BY <2>2, <2>3 DEF Destroy, Control, StopOK, Starting
  <2>4. ASSUME \/ CheckShutdown \/ PollNothing \/ StopModule \/ JoinModule
               \/ (\E m \in Messages : PollReceive(m)) \/ (\E w \in Workers : TryQueue(w))
               \/ (\E k \in Keys : PollTimeout(k))
        PROVE  ~Starting'
    BY <2>4 DEF CheckShutdown, PollNothing, StopModule, JoinModule, PollReceive, TryQueue,
                PollTimeout, Starting
  <2>5. ASSUME Sigint \/ (\E w \in Workers : WorkerThread(w)) \/ SenderThread \/ UNCHANGED vars
        PROVE  ~Starting'
    BY <2>1, <2>2, <2>5 DEF Sigint, WorkerThread, WorkerPop, WorkerHandle, WorkerCaught, WorkerSpins, WorkerThrows,
                WorkerLeave, SenderThread, vars, Starting
  <2>6. ~(Configure \/ CreateModules \/ StartModule \/ StartReceiver \/ StartupFails)
    BY <2>1 DEF Configure, CreateModules, StartModule, StartReceiver, StartupFails, Failing
  <2>7. ~Starting'
    BY <2>3, <2>4, <2>5, <2>6 DEF Next, Main, Exited
  <2> QED BY <2>7 DEF StartOK
<1> QED BY <1>1, <1>2

\* What has stopped does not run again.
LEMMA StoppedStay ==
  ASSUME TypeOK, StartOK, [Next]_vars
  PROVE  /\ \A w \in Workers : wpc[w] = "stopped" => wpc'[w] = "stopped"
         /\ spc = "stopped" => spc' = "stopped"
<1>1. ASSUME NEW w \in Workers, WorkerThread(w)
      PROVE  /\ \A v \in Workers : wpc[v] = "stopped" => wpc'[v] = "stopped"
             /\ spc' = spc
  <2>1. CASE WorkerHandle(w)
    BY <2>1, OfferFrame DEF WorkerHandle, TypeOK
  <2>2. CASE WorkerPop(w) \/ WorkerCaught(w) \/ WorkerLeave(w)
    BY <2>2 DEF WorkerPop, WorkerCaught, WorkerLeave, senderVars, TypeOK
  <2>3. CASE WorkerSpins(w) \/ WorkerThrows(w)
    BY <2>3 DEF WorkerSpins, WorkerThrows, vars, workerVars, senderVars
  <2> QED BY <1>1, <2>1, <2>2, <2>3 DEF WorkerThread
<1>2. ASSUME NEW k \in Keys, PollTimeout(k) PROVE spc' = spc /\ wpc' = wpc
  BY <1>2, OfferFrame DEF PollTimeout, workerVars
<1>3. CASE SenderThread
  BY <1>3 DEF SenderThread, workerVars, S!SendThriftStructures, S!Pop, S!Send, S!SendFailed,
              S!Count, S!Leave
<1>4. CASE StopModule
  BY <1>4 DEF StopModule, S!Stop, senderVars
<1>5. CASE StartModule
  BY <1>5 DEF StartModule, S!Start, senderVars, TypeOK, StartOK, Starting
<1>6. ASSUME \/ Sigint \/ Configure \/ CreateModules \/ StartReceiver \/ StartupFails
             \/ CheckShutdown \/ PollNothing \/ JoinModule \/ Destroy \/ UNCHANGED vars
             \/ (\E m \in Messages : PollReceive(m)) \/ (\E w \in Workers : TryQueue(w))
      PROVE  spc' = spc /\ wpc' = wpc
  BY <1>6 DEF Sigint, Configure, CreateModules, StartReceiver, StartupFails, CheckShutdown,
              PollNothing, JoinModule, Destroy, PollReceive, TryQueue, vars, senderVars, workerVars
<1> QED BY <1>1, <1>2, <1>3, <1>4, <1>5, <1>6 DEF Next, Main, Exited

\* Every step keeps the part of the invariant about the main loop.
LEMMA NextLoopOK ==
  ASSUME TypeOK, Control, [Next]_vars
  PROVE  LoopOK'
<1> USE DEF mainVars, Control, LoopOK
<1>1. StopModule \/ senderStop' = senderStop
  BY StopRaised
<1>2. CASE StartReceiver
  <2>1. module = NumWorkers + 1
    BY <1>2, SizeAssumption DEF StartReceiver, TypeOK, Modules, Sender, Workers
  <2>2. gone = 0 /\ ~senderStop /\ UNCHANGED <<module, gone>> /\ ~StopModule
    BY <1>2 DEF StartReceiver, StartOK, Starting, StopModule
  <2> QED BY <1>1, <2>1, <2>2
<1>3. CASE \/ CheckShutdown \/ PollNothing \/ (\E m \in Messages : PollReceive(m))
           \/ (\E w \in Workers : TryQueue(w)) \/ (\E k \in Keys : PollTimeout(k))
  BY <1>1, <1>3 DEF CheckShutdown, PollNothing, PollReceive, TryQueue, PollTimeout, StopModule
<1>4. CASE Sigint \/ (\E w \in Workers : WorkerThread(w)) \/ SenderThread \/ UNCHANGED vars
  BY <1>1, <1>4 DEF Sigint, WorkerThread, WorkerPop, WorkerHandle, WorkerCaught, WorkerSpins, WorkerThrows,
              WorkerLeave, SenderThread, vars, StopModule
<1>5. CASE \/ Configure \/ CreateModules \/ StartModule \/ StartupFails \/ StopModule
           \/ JoinModule \/ Destroy
  BY <1>5 DEF Configure, CreateModules, StartModule, StartupFails, StopModule, JoinModule, Destroy
<1> QED BY <1>2, <1>3, <1>4, <1>5 DEF Next, Main, Exited

\* stopModules stops and joins the modules from the last to the first.
LEMMA NextStopOK ==
  ASSUME TypeOK, Control, [Next]_vars
  PROVE  StopOK'
<1> USE DEF mainVars
<1>1. /\ \A w \in Workers : wpc[w] = "stopped" => wpc'[w] = "stopped"
      /\ spc = "stopped" => spc' = "stopped"
      /\ StopModule \/ senderStop' = senderStop
      /\ senderStop => senderStop'
  BY StoppedStay, StopRaised DEF Control
<1>2. CASE CheckShutdown
  BY <1>1, <1>2, SizeAssumption
     DEF CheckShutdown, LastStarted, StopModule, Control, LoopOK, StopOK, Modules, Workers
<1>3. CASE StopModule
  <2>1. /\ phase' = "join" /\ UNCHANGED <<module, gone, wpc>> /\ phase = "stop" /\ module \in Modules
        /\ IF module = Sender THEN senderStop' ELSE senderStop' = senderStop
    BY <1>3 DEF StopModule, ReverseOrder, S!Stop, senderVars
  <2> QED BY <1>1, <2>1 DEF Control, StopOK
<1>4. CASE JoinModule
  <2>1. /\ phase = "join" /\ Returned(module) /\ UNCHANGED <<gone, wpc, spc, senderStop>>
        /\ module \in Modules
    BY <1>4 DEF JoinModule, Joinable, ReverseOrder, workerVars, senderVars, Control, StopOK
  <2>2. CASE module = 0
    BY <1>4, <2>1, <2>2 DEF JoinModule, Control, StopOK, Returned, Sender, Workers, Destruction
  <2>3. CASE module # 0
    <3>1. phase' = "stop" /\ module' = module - 1 /\ wpc[module] = "stopped" /\ ~senderStop
      BY <1>4, <2>1, <2>3 DEF JoinModule, Control, StopOK, Returned, Sender
    <3>2. module \in Workers /\ module - 1 \in Modules
      BY <2>1, <2>3, SizeAssumption DEF Modules, Sender, Workers
    <3>3. \A w \in Workers : w > module - 1 => w = module \/ w > module
      BY <3>2, SizeAssumption DEF Workers
    <3> QED BY <2>1, <3>1, <3>2, <3>3 DEF Control, StopOK
  <2> QED BY <2>2, <2>3
<1>5. CASE Destroy
  BY <1>1, <1>5 DEF Destroy, Control, StopOK, StopModule, Destruction, TypeOK
<1>6. CASE Sigint \/ (\E w \in Workers : WorkerThread(w)) \/ SenderThread \/ UNCHANGED vars
  <2>1. ASSUME NEW w \in Workers, WorkerThrows(w) PROVE StopOK'
    <3>1. /\ phase' = "aborted" /\ UNCHANGED <<gone, senderStop>>
          /\ wpc[w] = "busy" /\ phase \notin {"exit", "aborted"}
      BY <2>1 DEF WorkerThrows, Alive, senderVars
    <3>2. phase \in {"check", "poll", "dispatch", "stop", "join"}
      BY <3>1 DEF TypeOK, Control, StartOK, Starting, StopOK
    <3>3. ~(phase = "join" /\ module = Sender)
      BY <3>1, SizeAssumption DEF Control, StopOK, Sender, Workers
    <3>4. gone = 0 /\ ~senderStop
      BY <3>2, <3>3 DEF Control, LoopOK, StopOK
    <3> QED BY <3>1, <3>4 DEF StopOK
  <2>2. CASE ~(\E w \in Workers : WorkerThrows(w))
    <3>1. UNCHANGED <<phase, module, gone>> /\ ~StopModule
      BY <1>6, <2>2 DEF Sigint, WorkerThread, WorkerPop, WorkerHandle, WorkerCaught, WorkerSpins, WorkerLeave,
                  SenderThread, vars, StopModule
    <3> QED BY <1>1, <3>1 DEF Control, StopOK
  <2> QED BY <2>1, <2>2
<1>7. CASE \/ Configure \/ CreateModules \/ StartModule \/ StartReceiver \/ StartupFails
           \/ PollNothing \/ (\E m \in Messages : PollReceive(m))
           \/ (\E w \in Workers : TryQueue(w)) \/ (\E k \in Keys : PollTimeout(k))
  <2>1. phase' \notin {"stop", "join", "destroy", "aborted"}
    BY <1>7 DEF Configure, CreateModules, StartModule, StartReceiver, StartupFails, PollNothing,
                PollReceive, TryQueue, PollTimeout
  <2>2. phase' = "exit" => Starting /\ ~StopModule
    BY <1>7 DEF Configure, CreateModules, StartModule, StartReceiver, StartupFails, PollNothing,
                PollReceive, TryQueue, PollTimeout, Failing, Starting, StopModule
  <2> QED BY <1>1, <2>1, <2>2 DEF Control, StartOK, StopOK
<1> QED BY <1>2, <1>3, <1>4, <1>5, <1>6, <1>7 DEF Next, Main, Exited

\* Every step keeps what the invariant says of the program counters.
LEMMA NextControl ==
  ASSUME TypeOK, Control, [Next]_vars
  PROVE  Control'
BY NextStartOK, NextLoopOK, NextStopOK DEF Control

-----------------------------------------------------------------------------
(* Where each message is *)

\* Nothing that matters to the messages has changed.
LEMMA SameTransit ==
  ASSUME Transit, UNCHANGED <<network, receiving, inputQueue, msg, done>>,
         \A w \in Workers : wpc'[w] \in {"busy", "caught"} <=> wpc[w] \in {"busy", "caught"}
  PROVE  Transit'
BY DEF Transit, HandsOK, QueuesOK

\* The receiver takes a message from the network ...
LEMMA ReceiveTransit ==
  ASSUME TypeOK, Transit, NEW m \in Messages, PollReceive(m)
  PROVE  Transit'
<1>1. /\ m \in network /\ network' = network \ {m} /\ receiving' = m
      /\ UNCHANGED <<inputQueue, msg, wpc, done>>
  BY DEF PollReceive, D!Accept, workerVars, engineVars
<1>2. HandsOK'
  BY <1>1 DEF Transit, HandsOK
<1>3. QueuesOK'
  BY <1>1 DEF Transit, QueuesOK
<1> QED BY <1>1, <1>2, <1>3 DEF Transit

\* ... puts it into one queue or gives it up ...
LEMMA TryTransit ==
  ASSUME TypeOK, Transit, NEW w \in Workers, TryQueue(w)
  PROVE  Transit'
<1> USE FlowAssumption
<1>1. UNCHANGED <<network, msg, wpc, done>> /\ receiving \in Messages
  BY DEF TryQueue, D!Push, D!Refuse, workerVars, engineVars, TypeOK
<1>2. receiving' \in {None, receiving}
  BY DEF TryQueue, D!Push, D!Refuse
<1>3. HandsOK' /\ receiving' \notin network' \cup done'
  BY <1>1, <1>2 DEF Transit, HandsOK, TypeOK, C!TypeOK
<1>4. QueuesOK'
  <2>1. CASE D!Refuse(w)
    <3>1. inputQueue' = inputQueue
      BY <2>1 DEF D!Refuse
    <3>2. \A v \in Workers : \A i \in 1 .. Len(inputQueue[v]) : inputQueue[v][i] \in Messages
      BY DEF TypeOK
    <3> QED BY <1>1, <1>2, <3>1, <3>2 DEF Transit, QueuesOK
  <2>2. CASE D!Push(w)
    <3> DEFINE q == inputQueue[w]
    <3>1. q \in Seq(Messages) /\ \A v \in Workers : inputQueue[v] \in Seq(Messages)
      BY DEF TypeOK
    <3>2. /\ receiving' = None /\ inputQueue'[w] = Append(q, receiving)
          /\ \A v \in Workers : v # w => inputQueue'[v] = inputQueue[v]
      BY <2>2 DEF D!Push, TypeOK
    <3>3. /\ Len(inputQueue'[w]) = Len(q) + 1 /\ inputQueue'[w][Len(q) + 1] = receiving
          /\ \A i \in 1 .. Len(q) : inputQueue'[w][i] = q[i]
      BY <1>1, <3>1, <3>2
    <3>4. \A v \in Workers : \A i \in 1 .. Len(inputQueue'[v]) :
            \/ v = w /\ i = Len(q) + 1 /\ inputQueue'[v][i] = receiving
            \/ i \in 1 .. Len(inputQueue[v]) /\ inputQueue'[v][i] = inputQueue[v][i]
      BY <3>1, <3>2, <3>3
    <3>5. \A v \in Workers : \A i \in 1 .. Len(inputQueue[v]) :
            inputQueue[v][i] \in Messages /\ inputQueue[v][i] # receiving
      BY <3>1 DEF Transit, QueuesOK
    <3>6. \A v \in Workers : msg[v] # receiving
      BY <1>1 DEF Transit, HandsOK
    <3> HIDE DEF q
    <3>7. \A v \in Workers : \A i \in 1 .. Len(inputQueue'[v]) :
            /\ inputQueue'[v][i] \notin network \cup done
            /\ inputQueue'[v][i] \in Messages
            /\ \A u \in Workers : inputQueue'[v][i] # msg[u]
      BY <1>1, <3>4, <3>5, <3>6 DEF Transit, QueuesOK
    <3>8. \A v, u \in Workers : \A i \in 1 .. Len(inputQueue'[v]), j \in 1 .. Len(inputQueue'[u]) :
            inputQueue'[u][j] = inputQueue'[v][i] => u = v /\ j = i
      BY <1>1, <3>4, <3>5 DEF Transit, QueuesOK
    <3> QED BY <1>1, <3>2, <3>7, <3>8 DEF QueuesOK
  <2> QED BY <2>1, <2>2 DEF TryQueue
<1> QED BY <1>1, <1>3, <1>4 DEF Transit

\* ... from where one worker takes it ...
LEMMA PopTransit ==
  ASSUME TypeOK, Transit, NEW w \in Workers, WorkerPop(w)
  PROVE  Transit'
<1> USE FlowAssumption
<1> DEFINE q == inputQueue[w]
<1>1. q \in Seq(Messages) /\ q # <<>> /\ \A v \in Workers : inputQueue[v] \in Seq(Messages)
  BY DEF TypeOK, WorkerPop, D!Pop
<1>2. /\ UNCHANGED <<network, receiving, done>>
      /\ inputQueue'[w] = Tail(q) /\ msg'[w] = Head(q) /\ wpc'[w] = "busy"
      /\ \A v \in Workers : v # w =>
           inputQueue'[v] = inputQueue[v] /\ msg'[v] = msg[v] /\ wpc'[v] = wpc[v]
  BY DEF TypeOK, WorkerPop, D!Pop, engineVars
<1>3. /\ 1 \in 1 .. Len(q) /\ Head(q) = q[1] /\ q[1] \in Messages
      /\ \A i \in 1 .. Len(Tail(q)) : i + 1 \in 2 .. Len(q) /\ Tail(q)[i] = q[i + 1]
  BY <1>1
<1>4. HandsOK'
  BY <1>1, <1>2, <1>3 DEF Transit, HandsOK, QueuesOK
<1>5. QueuesOK'
  <2>1. \A v \in Workers : \A i \in 1 .. Len(inputQueue'[v]) :
          \/ v # w /\ i \in 1 .. Len(inputQueue[v]) /\ inputQueue'[v][i] = inputQueue[v][i]
          \/ v = w /\ i + 1 \in 2 .. Len(q) /\ inputQueue'[v][i] = q[i + 1]
    BY <1>2, <1>3
  <2>2. \A v \in Workers : \A i \in 1 .. Len(inputQueue'[v]) :
          \E j \in 1 .. Len(inputQueue[v]) :
             /\ inputQueue'[v][i] = inputQueue[v][j]
             /\ j = IF v = w THEN i + 1 ELSE i
    BY <1>1, <2>1
  <2>3. \A v \in Workers : \A j \in 1 .. Len(inputQueue[v]) :
          (v = w => j # 1) => inputQueue[v][j] # q[1]
    BY <1>3 DEF Transit, QueuesOK
  <2>4. \A v \in Workers : \A i \in 1 .. Len(inputQueue'[v]) :
          /\ inputQueue'[v][i] \notin network' \cup done' \cup {receiving'}
          /\ \A u \in Workers : inputQueue'[v][i] # msg'[u]
    BY <1>1, <1>2, <1>3, <2>2, <2>3 DEF Transit, QueuesOK
  <2>5. \A v, u \in Workers : \A i \in 1 .. Len(inputQueue'[v]), j \in 1 .. Len(inputQueue'[u]) :
          inputQueue'[u][j] = inputQueue'[v][i] => u = v /\ j = i
    BY <1>1, <1>2, <2>2 DEF Transit, QueuesOK
  <2> QED BY <2>4, <2>5 DEF QueuesOK
<1> QED BY <1>2, <1>4, <1>5 DEF Transit

\* ... and handles it once.
LEMMA HandleTransit ==
  ASSUME TypeOK, Transit, NEW w \in Workers, WorkerHandle(w)
  PROVE  Transit'
<1>1. /\ UNCHANGED <<network, receiving, inputQueue>> /\ msg[w] # None /\ done' = done \cup {msg[w]}
      /\ msg'[w] = None /\ wpc'[w] \notin {"busy", "caught"}
      /\ \A v \in Workers : v # w => msg'[v] = msg[v] /\ wpc'[v] = wpc[v]
  BY DEF TypeOK, Transit, HandsOK, WorkerHandle, receiverVars, C!Open, C!Match, C!Clash, C!Replace,
         C!Handle
<1>2. HandsOK'
  <2>1. None \notin network \cup done
    BY FlowAssumption DEF TypeOK, C!TypeOK
  <2>2. \A v \in Workers : v # w => msg[v] # msg[w]
    BY <1>1 DEF Transit, HandsOK
  <2> QED BY <1>1, <2>1, <2>2 DEF Transit, HandsOK
<1>3. QueuesOK'
  BY <1>1, FlowAssumption DEF Transit, QueuesOK, TypeOK
<1> QED BY <1>1, <1>2, <1>3 DEF Transit, HandsOK

\* Every step keeps what the invariant says of the messages under way.
LEMMA NextTransit ==
  ASSUME TypeOK, Control, Transit, [Next]_vars
  PROVE  Transit'
<1>1. ASSUME NEW k \in Keys, PollTimeout(k) PROVE Transit'
  BY <1>1, SameTransit DEF PollTimeout, C!Expire, receiverVars, workerVars
<1>2. CASE SenderThread
  BY <1>2, SameTransit DEF SenderThread, receiverVars, workerVars, engineVars
<1>3. phase = "start" => \A w \in Workers : wpc[w] \notin {"busy", "caught"}
  BY DEF Control, StartOK, Starting
<1>4. ASSUME Quiet PROVE Transit'
  BY <1>4, SameTransit DEF Quiet, receiverVars, engineVars
<1> QED BY <1>1, <1>2, <1>3, <1>4, QuietSteps, ReceiveTransit, TryTransit, PopTransit, HandleTransit
        DEF Next, Main, WorkerThread, Exited

-----------------------------------------------------------------------------
(* Where each record is *)

\* Two records are never sent as the same datagram: fillPlainThriftStructure
\* loses nothing of what the engine put into them.
LEMMA FillPlainInjective ==
  ASSUME NEW x \in C!Records, NEW y \in C!Records, S!FillPlain(x) = S!FillPlain(y)
  PROVE  x = y
<1> DEFINE avps(list) == IF list = None THEN {} ELSE {list}
<1>1. S!FillPlain(x) = [reqAvpList |-> avps(x.req), respAvpList |-> avps(x.resp)]
  BY DEF S!FillPlain
<1>2. S!FillPlain(y) = [reqAvpList |-> avps(y.req), respAvpList |-> avps(y.resp)]
  BY DEF S!FillPlain
<1>3. avps(x.req) = avps(y.req) /\ avps(x.resp) = avps(y.resp)
  <2> HIDE DEF avps
  <2>1. S!FillPlain(x).reqAvpList = avps(x.req) /\ S!FillPlain(x).respAvpList = avps(x.resp)
    BY <1>1
  <2>2. S!FillPlain(y).reqAvpList = avps(y.req) /\ S!FillPlain(y).respAvpList = avps(y.resp)
    BY <1>2
  <2> QED BY <2>1, <2>2
<1>4. x.req = y.req /\ x.resp = y.resp
  BY <1>3
<1> QED BY <1>4 DEF C!Records

\* A record that is sent is one that went out.
LEMMA SentWentOut ==
  ASSUME C!TypeOK, Places, NEW x \in C!Records, S!FillPlain(x) \in sent
  PROVE  x \in WentOut
<1>1. PICK y \in WentOut : S!FillPlain(x) = S!FillPlain(y)
  BY DEF Places
<1>2. y \in C!Records
  BY DEF WentOut, C!TypeOK
<1> QED BY <1>1, <1>2, FillPlainInjective

\* Nothing that matters to the records has changed.
LEMMA SameLedger ==
  ASSUME Ledger,
         UNCHANGED <<reports, refused, failed, sent, outputQueue, msgToSend, thriftStructsSent>>,
         \A at \in {"send", "count"} : spc' = at <=> spc = at
  PROVE  Ledger'
BY DEF Ledger, Places, Counts, InHand, WentOut, S!Queued

\* What a queue holds when something is added to it or taken from it.
LEMMA QueuedAppend ==
  ASSUME NEW A, outputQueue \in Seq(A), NEW x \in A, outputQueue' = Append(outputQueue, x),
         x \notin S!Queued,
         \A i, j \in 1 .. Len(outputQueue) : outputQueue[i] = outputQueue[j] => i = j
  PROVE  /\ S!Queued' = S!Queued \cup {x} /\ Len(outputQueue') = Len(outputQueue) + 1
         /\ \A i, j \in 1 .. Len(outputQueue') : outputQueue'[i] = outputQueue'[j] => i = j
<1> DEFINE q == outputQueue
           n == Len(q)
<1>1. /\ n \in Nat /\ Len(q') = n + 1 /\ q'[n + 1] = x /\ \A i \in 1 .. n : q'[i] = q[i]
      /\ DOMAIN q = 1 .. n /\ DOMAIN q' = 1 .. n + 1
  OBVIOUS
<1>2. 1 .. n + 1 = (1 .. n) \cup {n + 1}
  BY <1>1
<1>3. \A i \in 1 .. n : q[i] # x
  BY <1>1 DEF S!Queued
<1> HIDE DEF n
<1>4. S!Queued' = S!Queued \cup {x}
  BY <1>1, <1>2 DEF S!Queued
<1>5. \A i, j \in 1 .. Len(q') : q'[i] = q'[j] => i = j
  BY <1>1, <1>2, <1>3 DEF n
<1> QED BY <1>1, <1>4, <1>5 DEF n

\* Taking the head of an output queue without duplicates removes that record and no other.
LEMMA QueuedTail ==
  ASSUME NEW A, outputQueue \in Seq(A), outputQueue # <<>>, outputQueue' = Tail(outputQueue),
         \A i, j \in 1 .. Len(outputQueue) : outputQueue[i] = outputQueue[j] => i = j
  PROVE  /\ S!Queued = S!Queued' \cup {Head(outputQueue)} /\ Head(outputQueue) \notin S!Queued'
         /\ Len(outputQueue) = Len(outputQueue') + 1 /\ Head(outputQueue) \in A
         /\ \A i, j \in 1 .. Len(outputQueue') : outputQueue'[i] = outputQueue'[j] => i = j
<1> DEFINE q == outputQueue
           n == Len(q')
<1>1. /\ n \in Nat /\ Len(q) = n + 1 /\ Head(q) = q[1] /\ q[1] \in A
      /\ \A i \in 1 .. n : i + 1 \in 2 .. n + 1 /\ q'[i] = q[i + 1]
      /\ DOMAIN q = 1 .. n + 1 /\ DOMAIN q' = 1 .. n
  OBVIOUS
<1>2. \A i \in 1 .. n + 1 : i = 1 \/ (i - 1 \in 1 .. n /\ q[i] = q'[i - 1])
  BY <1>1
<1> HIDE DEF n
<1>3. S!Queued = S!Queued' \cup {q[1]}
  <2>1. ASSUME NEW i \in DOMAIN q PROVE q[i] \in S!Queued' \cup {q[1]}
    <3>1. i = 1 \/ (i - 1 \in DOMAIN q' /\ q[i] = q'[i - 1])
      BY <1>1, <1>2, <2>1
    <3> QED BY <3>1 DEF S!Queued
  <2>2. S!Queued' \cup {q[1]} \subseteq S!Queued
    BY <1>1 DEF S!Queued
  <2>3. S!Queued \subseteq S!Queued' \cup {q[1]}
    BY <2>1 DEF S!Queued
  <2> QED BY <2>2, <2>3
<1>4. q[1] \notin S!Queued'
  BY <1>1 DEF S!Queued
<1>5. \A i, j \in 1 .. Len(q') : q'[i] = q'[j] => i = j
  BY <1>1 DEF n
<1> QED BY <1>1, <1>3, <1>4, <1>5 DEF n

\* One more element.
LEMMA CardinalityAdd ==
  ASSUME NEW T, IsFiniteSet(T), NEW x, x \notin T
  PROVE  /\ IsFiniteSet(T \cup {x}) /\ Cardinality(T \cup {x}) = Cardinality(T) + 1
         /\ Cardinality(T) \in Nat
BY FS_AddElement, FS_CardinalityType

\* The sender has one record in its hands, or none.
LEMMA HandSize == Cardinality(InHand) = IF spc = "send" THEN 1 ELSE 0
BY FS_Singleton, FS_EmptySet DEF InHand

\* The counters are natural numbers.
LEMMA CountTypes ==
  ASSUME TypeOK, Counts
  PROVE  \A n \in {Cardinality(reports), Cardinality(refused), Len(outputQueue), Cardinality(sent),
                   Cardinality(failed), thriftStructsSent} : n \in Nat
BY FS_CardinalityType DEF TypeOK, S!TypeOK, Counts

\* A new record waits in the queue or is refused.
LEMMA OfferLedger ==
  ASSUME TypeOK, Ledger, NEW x \in C!Records, x \notin reports, reports' = reports \cup {x},
         S!Offer(x)
  PROVE  Ledger'
<1>1. UNCHANGED <<spc, msgToSend, thriftStructsSent, sent, failed>>
  BY DEF S!Offer
<1>2. InHand' = InHand
  BY <1>1 DEF InHand
<1>3. WentOut' = WentOut
  <2>1. S!FillPlain(x) \notin sent
    BY SentWentOut DEF Ledger, WentOut, TypeOK
  <2> QED BY <1>1, <2>1 DEF WentOut
<1>4. x \notin refused \cup S!Queued \cup InHand \cup WentOut \cup failed
  BY DEF Ledger, Places
<1>5. /\ IsFiniteSet(reports') /\ Cardinality(reports') = Cardinality(reports) + 1
  BY CardinalityAdd DEF Ledger, Counts
<1>6. CASE Len(outputQueue) < ThriftCapacity
  <2>1. outputQueue' = Append(outputQueue, x) /\ refused' = refused
    BY <1>6 DEF S!Offer, S!TryPush
  <2>2. /\ S!Queued' = S!Queued \cup {x} /\ Len(outputQueue') = Len(outputQueue) + 1
        /\ \A i, j \in 1 .. Len(outputQueue') : outputQueue'[i] = outputQueue'[j] => i = j
    BY <1>4, <2>1, QueuedAppend DEF TypeOK, S!TypeOK, Ledger, Places
  <2>3. Places'
    BY <1>1, <1>2, <1>3, <1>4, <2>1, <2>2 DEF Ledger, Places
  <2>4. Counts'
    BY <1>1, <1>2, <1>5, <2>1, <2>2, CountTypes, HandSize DEF Ledger, Counts
  <2> QED BY <2>3, <2>4 DEF Ledger
<1>7. CASE ~(Len(outputQueue) < ThriftCapacity)
  <2>1. outputQueue' = outputQueue /\ refused' = refused \cup {x} /\ S!Queued' = S!Queued
    BY <1>7 DEF S!Offer, S!TryPush, S!Queued
  <2>2. Places'
    BY <1>1, <1>2, <1>3, <1>4, <2>1 DEF Ledger, Places
  <2>3. IsFiniteSet(refused') /\ Cardinality(refused') = Cardinality(refused) + 1
    BY <1>4, <2>1, CardinalityAdd DEF Ledger, Counts
  <2>4. Counts'
    BY <1>1, <1>2, <1>5, <2>1, <2>3, CountTypes, HandSize DEF Ledger, Counts
  <2> QED BY <2>2, <2>4 DEF Ledger
<1> QED BY <1>6, <1>7

\* The sender's thread moves a record from one place to the next.
LEMMA SenderLedger ==
  ASSUME TypeOK, Ledger, SenderThread
  PROVE  Ledger'
<1> DEFINE x == msgToSend
<1>1. reports' = reports
  BY DEF SenderThread, engineVars
<1>2. CASE S!Pop
  <2>1. /\ UNCHANGED <<sent, failed, refused, thriftStructsSent>> /\ outputQueue # <<>>
        /\ outputQueue' = Tail(outputQueue) /\ msgToSend' = Head(outputQueue)
        /\ InHand = {} /\ InHand' = {Head(outputQueue)} /\ spc' = "send" /\ spc = "loop"
    BY <1>2 DEF S!Pop, InHand
  <2>2. /\ S!Queued = S!Queued' \cup {Head(outputQueue)} /\ Head(outputQueue) \notin S!Queued'
        /\ Len(outputQueue) = Len(outputQueue') + 1 /\ Head(outputQueue) \in C!Records
        /\ \A i, j \in 1 .. Len(outputQueue') : outputQueue'[i] = outputQueue'[j] => i = j
    BY <2>1, QueuedTail DEF TypeOK, S!TypeOK, Ledger, Places
  <2>3. WentOut' = WentOut
    BY <1>1, <2>1 DEF WentOut
  <2>4. Places'
    BY <1>1, <2>1, <2>2, <2>3 DEF Ledger, Places
  <2>5. Cardinality(InHand) = 0 /\ Cardinality(InHand') = 1
    BY <2>1, FS_Singleton, FS_EmptySet
  <2>6. Len(outputQueue') \in Nat
    BY <2>1 DEF TypeOK, S!TypeOK
  <2>7. Counts'
    BY <1>1, <2>1, <2>2, <2>5, <2>6, CountTypes DEF Ledger, Counts
  <2> QED BY <2>4, <2>7 DEF Ledger
<1>3. CASE S!Send
  <2>1. /\ UNCHANGED <<outputQueue, failed, refused, thriftStructsSent, msgToSend>>
        /\ sent' = sent \cup {S!FillPlain(x)} /\ spc = "send" /\ spc' = "count"
        /\ InHand = {x} /\ InHand' = {} /\ S!Queued' = S!Queued
    BY <1>3 DEF S!Send, InHand, S!Queued
  <2>2. x \in C!Records /\ x \in reports /\ x \notin WentOut
    BY <2>1 DEF Ledger, Places
  <2>3. S!FillPlain(x) \notin sent
    BY <2>2, SentWentOut DEF Ledger, TypeOK
  <2>4. WentOut' = WentOut \cup {x}
    BY <1>1, <2>1, <2>2, FillPlainInjective DEF WentOut, TypeOK, C!TypeOK
  <2>5. Places'
    BY <1>1, <2>1, <2>2, <2>4 DEF Ledger, Places
  <2>6. Cardinality(InHand) = 1 /\ Cardinality(InHand') = 0
    BY <2>1, FS_Singleton, FS_EmptySet
  <2>7. IsFiniteSet(sent') /\ Cardinality(sent') = Cardinality(sent) + 1
    BY <2>1, <2>3, CardinalityAdd DEF Ledger, Counts
  <2>8. Counts'
    BY <1>1, <2>1, <2>6, <2>7, CountTypes DEF Ledger, Counts
  <2> QED BY <2>5, <2>8 DEF Ledger
<1>4. CASE S!SendFailed
  <2>1. /\ UNCHANGED <<outputQueue, sent, refused, thriftStructsSent>>
        /\ failed' = failed \cup {x} /\ spc = "send" /\ spc' = "loop"
        /\ InHand = {x} /\ InHand' = {} /\ S!Queued' = S!Queued
    BY <1>4 DEF S!SendFailed, InHand, S!Queued
  <2>2. WentOut' = WentOut
    BY <1>1, <2>1 DEF WentOut
  <2>3. x \notin refused \cup WentOut \cup failed \cup S!Queued
    BY <2>1 DEF Ledger, Places
  <2>4. Places'
    BY <1>1, <2>1, <2>2, <2>3 DEF Ledger, Places
  <2>5. Cardinality(InHand) = 1 /\ Cardinality(InHand') = 0
    BY <2>1, FS_Singleton, FS_EmptySet
  <2>6. IsFiniteSet(failed') /\ Cardinality(failed') = Cardinality(failed) + 1
    BY <2>1, <2>3, CardinalityAdd DEF Ledger, Counts
  <2>7. Counts'
    BY <1>1, <2>1, <2>5, <2>6, CountTypes DEF Ledger, Counts
  <2> QED BY <2>4, <2>7 DEF Ledger
<1>5. CASE S!Count
  <2>1. /\ UNCHANGED <<outputQueue, sent, refused, failed, InHand, S!Queued>>
        /\ thriftStructsSent' = thriftStructsSent + 1 /\ spc = "count" /\ spc' = "loop"
    BY <1>5 DEF S!Count, InHand, S!Queued
  <2>2. WentOut' = WentOut
    BY <1>1, <2>1 DEF WentOut
  <2>3. Places'
    BY <1>1, <2>1, <2>2 DEF Ledger, Places
  <2>4. Counts'
    BY <1>1, <2>1, CountTypes DEF Ledger, Counts
  <2> QED BY <2>3, <2>4 DEF Ledger
<1>6. CASE S!Leave
  BY <1>1, <1>6, SameLedger DEF S!Leave
<1> QED BY <1>2, <1>3, <1>4, <1>5, <1>6 DEF SenderThread, S!SendThriftStructures

\* A step that reports something reports one record, which it offers.
LEMMA ReportedLedger ==
  ASSUME TypeOK, C!TypeOK', Ledger, OfferReported, NEW r, reports' \in {reports, reports \cup {r}}
  PROVE  Ledger'
<1>1. CASE reports' = reports
  BY <1>1, SameLedger DEF OfferReported, senderVars
<1>2. CASE reports' # reports
  <2>1. PICK x \in reports' \ reports : S!Offer(x)
    BY <1>2 DEF OfferReported
  <2>2. reports' = reports \cup {x} /\ x \in C!Records
    BY <1>2, <2>1 DEF C!TypeOK
  <2> QED BY <2>1, <2>2, OfferLedger
<1> QED BY <1>1, <1>2

\* Every step keeps the ledger that accounts for each record.
LEMMA NextLedger ==
  ASSUME TypeOK, C!TypeOK', Control, Ledger, [Next]_vars
  PROVE  Ledger'
<1>1. ASSUME NEW k \in Keys, PollTimeout(k) PROVE Ledger'
  BY <1>1, ReportedLedger DEF PollTimeout, C!Expire
<1>2. ASSUME NEW w \in Workers, WorkerHandle(w) PROVE Ledger'
  <2>1. reports' = reports \cup {} \/ \E r : reports' = reports \cup {r}
    BY <1>2 DEF WorkerHandle, C!Open, C!Match, C!Clash, C!Replace, C!Handle
  <2>2. OfferReported
    BY <1>2 DEF WorkerHandle
  <2>3. CASE reports' = reports \cup {}
    BY <2>2, <2>3, ReportedLedger
  <2>4. ASSUME NEW r, reports' = reports \cup {r} PROVE Ledger'
    BY <2>2, <2>4, ReportedLedger
  <2> QED BY <2>1, <2>3, <2>4
<1>3. ASSUME \/ (\E m \in Messages : PollReceive(m))
             \/ (\E w \in Workers : TryQueue(w) \/ WorkerPop(w))
      PROVE  Ledger'
  BY <1>3, SameLedger DEF PollReceive, TryQueue, WorkerPop, engineVars, senderVars
<1>4. ASSUME Quiet PROVE Ledger'
  BY <1>4, SameLedger DEF Quiet, engineVars
<1>5. phase = "start" => \A w \in Workers : wpc[w] \notin {"busy", "caught"}
  BY DEF Control, StartOK, Starting
<1> QED BY <1>1, <1>2, <1>3, <1>4, <1>5, QuietSteps, SenderLedger DEF Next, Main, WorkerThread, Exited

-----------------------------------------------------------------------------
(* The invariant *)

IInv == TypeOK /\ P!CInv /\ Control /\ Transit /\ Ledger

\* The inductive invariant holds at first.
LEMMA InitIInv == Init => IInv
<1> SUFFICES ASSUME Init PROVE IInv
  OBVIOUS
<1> USE SizeAssumption, FlowAssumption DEF Init, C!Init, D!Init, S!Init
<1>1. P!CInv /\ C!TypeOK
  <2>1. P!CInv
    BY SameEngine, P!InitCInv
  <2> QED BY <2>1 DEF P!CInv, P!TypeOK, P!Records, C!TypeOK, C!Records
<1>2. TypeOK
  <2>1. S!TypeOK
    <3>1. outputQueue \in Seq(C!Records) /\ Len(outputQueue) <= ThriftCapacity
      OBVIOUS
    <3>2. refused \subseteq C!Records /\ failed \subseteq C!Records /\ sent \subseteq {S!FillPlain(x) : x \in C!Records}
      OBVIOUS
    <3>3. /\ spc \in {"absent", "loop", "send", "count", "stopped"}
          /\ msgToSend \in C!Records \cup {None} /\ senderStop \in BOOLEAN /\ thriftStructsSent \in Nat
      OBVIOUS
    <3> QED BY <3>1, <3>2, <3>3 DEF S!TypeOK
  <2>2. Len(Destruction) = 6
    BY DEF Destruction
  <2>3. inputQueue \in [Workers -> Seq(Messages)] /\ \A w \in Workers : Len(inputQueue[w]) <= QueueCapacity
    OBVIOUS
  <2>4. phase = "configure" /\ receiving = None /\ tried = {} /\ module = 0 /\ gone = 0
    BY DEF Sender
  <2>5. module \in 0 .. NumWorkers + 1 /\ gone \in 0 .. Len(Destruction)
    BY <2>2, <2>4
  <2>6. /\ stopThread \in [Workers -> BOOLEAN] /\ msg \in [Workers -> Messages \cup {None}]
        /\ wpc \in [Workers -> {"absent", "loop", "busy", "caught", "stopped"}]
        /\ network \subseteq Messages /\ isShutdownStarted \in BOOLEAN
    OBVIOUS
  <2> HIDE DEF Init, D!Init, S!Init, C!Init
  <2> QED BY <1>1, <2>1, <2>3, <2>4, <2>5, <2>6 DEF TypeOK
<1>3. Control
  BY DEF Control, StartOK, LoopOK, StopOK, Starting, Sender
<1>4. Transit
  BY DEF Transit, HandsOK, QueuesOK
<1>5. Places
  BY DEF Places, InHand, WentOut, S!Queued
<1>6. Counts
  BY FS_EmptySet DEF Counts, InHand
<1> QED BY <1>1, <1>2, <1>3, <1>4, <1>5, <1>6 DEF IInv, Ledger

\* Every step keeps the inductive invariant.
LEMMA NextIInv == IInv /\ [Next]_vars => IInv'
<1> SUFFICES ASSUME IInv, [Next]_vars PROVE IInv'
  OBVIOUS
<1>1. P!CInv' /\ C!TypeOK'
  BY EngineCInv DEF IInv, Control
<1> QED BY <1>1, NextTypeOK, NextControl, NextTransit, NextLedger DEF IInv

\* The invariant holds in every reachable state.
THEOREM Induction == Spec => []IInv
BY InitIInv, NextIInv, PTL DEF Spec

\* Every variable holds a value of its type: no queue grows over its capacity.
THEOREM TypeCorrect == Spec => []TypeOK
<1>1. IInv => TypeOK
  BY DEF IInv
<1> QED BY <1>1, Induction, PTL

\* A start-up that fails loses no message, though threads run: they find nothing.
THEOREM StartLosesNothing == Spec => []FailedStartTakesNothing
<1>1. IInv => FailedStartTakesNothing
  BY DEF IInv, Control, StartOK, Starting, FailedStartTakesNothing
<1> QED BY <1>1, Induction, PTL

\* Whenever SIGINT comes, main destroys nothing before every thread has returned,
\* and the hash table is empty before the io_service of its timers goes.
THEOREM DestroysAfterJoins == Spec => []JoinedAndCleared
<1>1. ASSUME IInv PROVE JoinedAndCleared
  <2>1. gone # 0 => \A i \in Modules : Returned(i)
    BY <1>1 DEF IInv, TypeOK, Control, StartOK, LoopOK, StopOK, Starting, Modules, Returned, Sender
  <2>2. gone \in 0 .. 6
    BY <1>1 DEF IInv, TypeOK, Destruction
  <2>3. "m_io" \in {Destruction[i] : i \in 1 .. gone} => gone >= 4
    BY <2>2 DEF Destruction
  <2>4. gone >= 4 => "m_hashTable" \in {Destruction[i] : i \in 1 .. gone}
    <3>1. Destruction[3] = "m_hashTable"
      BY DEF Destruction
    <3>2. gone >= 4 => 3 \in 1 .. gone
      BY <2>2
    <3> QED BY <3>1, <3>2
  <2>5. gone = 0 => {Destruction[i] : i \in 1 .. gone} = {}
    OBVIOUS
  <2> QED BY <2>1, <2>3, <2>4, <2>5 DEF JoinedAndCleared
<1> QED BY <1>1, Induction, PTL

\* stopModules stops the sender last: then nobody is left to offer it anything.
THEOREM SenderStoppedLast == Spec => NothingAfterSenderStop
<1>1. ASSUME IInv, [Next]_vars, senderStop PROVE UNCHANGED <<pending, reports, inputQueue>>
  <2>1. /\ phase \in {"join", "destroy", "exit"}
        /\ \A w \in Workers : wpc[w] = "stopped"
    BY <1>1, SizeAssumption DEF IInv, TypeOK, Control, StartOK, LoopOK, StopOK, Starting, Sender, Workers
  <2>2. ~(\E w \in Workers : WorkerThread(w))
    BY <2>1 DEF WorkerThread, WorkerPop, WorkerHandle, WorkerCaught, WorkerSpins, WorkerThrows, WorkerLeave
  <2>3. /\ ~StopModule /\ \A m \in Messages : ~PollReceive(m)
        /\ \A w \in Workers : ~TryQueue(w)
        /\ \A k \in Keys : ~PollTimeout(k)
    BY <2>1 DEF StopModule, PollReceive, TryQueue, PollTimeout
  <2> QED BY <1>1, <2>2, <2>3 DEF Next, Main, Exited, Sigint, Configure, CreateModules, StartModule,
             StartReceiver, StartupFails, CheckShutdown, PollNothing, JoinModule, Destroy, SenderThread,
             vars, engineVars, receiverVars
<1> QED BY <1>1, Induction, PTL DEF Spec, NothingAfterSenderStop

\* The receiver hands each message to one worker, and the engine gets it once.
THEOREM OneWorkerOnce == Spec => []MessageOnce
<1>1. ASSUME IInv, NEW m \in Messages
      PROVE  LET queued == {p \in Workers \X (1 .. QueueCapacity) :
                              p[2] <= Len(inputQueue[p[1]]) /\ inputQueue[p[1]][p[2]] = m}
                 inHand == {<<w, 0>> : w \in {w \in Workers : msg[w] = m}}
             IN /\ Cardinality(queued \cup inHand) <= 1
                /\ queued \cup inHand # {} => m \notin network \cup {receiving} \cup done
                /\ m \in network => m \notin {receiving} \cup done
                /\ receiving \notin done
  <2> DEFINE queued == {p \in Workers \X (1 .. QueueCapacity) :
                          p[2] <= Len(inputQueue[p[1]]) /\ inputQueue[p[1]][p[2]] = m}
             inHand == {<<w, 0>> : w \in {w \in Workers : msg[w] = m}}
  <2>1. \A w \in Workers : Len(inputQueue[w]) \in Nat
    BY <1>1 DEF IInv, TypeOK
  <2>2. \A p \in queued :
          /\ p = <<p[1], p[2]>> /\ p[1] \in Workers /\ p[2] \in 1 .. Len(inputQueue[p[1]])
          /\ inputQueue[p[1]][p[2]] = m
    BY <2>1, SizeAssumption
  <2>3. \A p \in inHand : \E w \in Workers : p = <<w, 0>> /\ msg[w] = m
    OBVIOUS
  <2>4. m # None
    BY FlowAssumption
  <2> HIDE DEF queued, inHand
  <2>5. \A p, q \in queued : p = q
    <3> SUFFICES ASSUME NEW p \in queued, NEW q \in queued PROVE p = q
      OBVIOUS
    <3>1. p[1] = q[1] /\ p[2] = q[2]
      BY <1>1, <2>2 DEF IInv, Transit, QueuesOK
    <3> QED BY <2>2, <3>1
  <2>6. \A p, q \in inHand : p = q
    BY <1>1, <2>3, <2>4 DEF IInv, Transit, HandsOK
  <2>7. queued = {} \/ inHand = {}
    BY <1>1, <2>2, <2>3 DEF IInv, Transit, QueuesOK
  <2>8. Cardinality(queued \cup inHand) <= 1
    <3>1. CASE queued \cup inHand = {}
      BY <3>1, FS_EmptySet
    <3>2. CASE queued \cup inHand # {}
      <4>1. PICK p : p \in queued \cup inHand
        BY <3>2
      <4>2. queued \cup inHand = {p}
        BY <2>5, <2>6, <2>7, <4>1
      <4>3. Cardinality({p}) = 1
        BY FS_Singleton
      <4> QED BY <4>2, <4>3
    <3> QED BY <3>1, <3>2
  <2>9. queued \cup inHand # {} => m \notin network \cup {receiving} \cup done
    <3>1. queued # {} => m \notin network \cup {receiving} \cup done
      BY <1>1, <2>2 DEF IInv, Transit, QueuesOK
    <3>2. inHand # {} => m \notin network \cup {receiving} \cup done
      BY <1>1, <2>3, <2>4 DEF IInv, Transit, HandsOK
    <3> QED BY <3>1, <3>2
  <2>10. (m \in network => m \notin {receiving} \cup done) /\ receiving \notin done
    BY <1>1 DEF IInv, Transit
  <2> QED BY <2>8, <2>9, <2>10 DEF queued, inHand
<1>2. IInv => MessageOnce
  BY <1>1 DEF MessageOnce
<1> QED BY <1>2, Induction, PTL

\* No record is lost without a trace, or counted in two places.
THEOREM RecordsAccounted == Spec => []Accounted
<1>1. IInv => Accounted
  BY DEF IInv, Ledger, Places, Counts, InHand, WentOut, Accounted
<1> QED BY <1>1, Induction, PTL

\* The sender's counter is the number of records it sent.
THEOREM SenderCountsExactly == Spec => []SentCountExact
<1>1. ASSUME IInv PROVE SentCountExact
  <2>1. thriftStructsSent \in Nat
    BY <1>1 DEF IInv, TypeOK, S!TypeOK
  <2>2. spc \in {"loop", "stopped"} => thriftStructsSent + 0 = Cardinality(sent)
    BY <1>1 DEF IInv, Ledger, Counts
  <2>3. S!Cardinality(sent) = Cardinality(sent)
    BY DEF S!Cardinality, Cardinality
  <2> QED BY <2>1, <2>2, <2>3 DEF SentCountExact, S!CountExact
<1> QED BY <1>1, Induction, PTL

-----------------------------------------------------------------------------
(* Each message from the hash table to the socket *)

\* A datagram carries the messages of the record it was made of.
LEMMA FillPlainCarries ==
  ASSUME NEW x \in C!Records
  PROVE  Carried(S!FillPlain(x)) = P!Members(x)
<1> DEFINE avps(list) == IF list = None THEN {} ELSE {list}
<1>1. S!FillPlain(x) = [reqAvpList |-> avps(x.req), respAvpList |-> avps(x.resp)]
  BY DEF S!FillPlain
<1>2. \A list : avps(list) = {list} \ {None}
  OBVIOUS
<1> HIDE DEF avps
<1>3. Carried(S!FillPlain(x)) = avps(x.req) \cup avps(x.resp)
  BY <1>1 DEF Carried
<1> QED BY <1>2, <1>3 DEF P!Members

\* What the engine hands over once leaves the program once: the attributes of a
\* message are in one datagram at most, and then neither wait nor are lost.
THEOREM SendsOnce == Spec => []SentOnce
<1>1. ASSUME IInv, NEW plain \in sent
      PROVE  /\ Carried(plain) \subseteq done
             /\ \A y \in sent : plain # y => Carried(plain) \cap Carried(y) = {}
             /\ \A k \in Keys : pending[k] \notin Carried(plain)
             /\ \A y \in S!Queued \cup refused \cup failed : Carried(plain) \cap C!Members(y) = {}
  <2>1. WentOut \subseteq reports /\ reports \subseteq C!Records
    BY <1>1 DEF IInv, TypeOK, C!TypeOK, WentOut
  <2>2. \A y \in sent : \E x \in WentOut : y = S!FillPlain(x)
    BY <1>1 DEF IInv, Ledger, Places
  <2>3. PICK x \in WentOut : plain = S!FillPlain(x)
    BY <2>2
  <2>4. \A y \in WentOut : Carried(S!FillPlain(y)) = P!Members(y)
    BY <2>1, FillPlainCarries
  <2>5. /\ \A y, z \in reports : y # z => P!Members(y) \cap P!Members(z) = {}
        /\ \A y \in reports, k \in Keys : pending[k] \notin P!Members(y)
        /\ \A y \in reports : P!Members(y) \subseteq done
    BY <1>1 DEF IInv, P!CInv, P!ReportedOnce, P!MembersHandled
  <2>6. S!Queued \cup refused \cup failed \subseteq reports \ WentOut
    BY <1>1 DEF IInv, Ledger, Places
  <2>7. \A y : C!Members(y) = P!Members(y)
    BY DEF C!Members, P!Members
  <2>8. ASSUME NEW y \in sent, plain # y PROVE Carried(plain) \cap Carried(y) = {}
    <3>1. PICK z \in WentOut : y = S!FillPlain(z)
      BY <2>2
    <3> QED BY <2>1, <2>3, <2>4, <2>5, <2>8, <3>1
  <2> QED BY <2>1, <2>3, <2>4, <2>5, <2>6, <2>7, <2>8
<1>2. IInv => SentOnce
  BY <1>1 DEF SentOnce
<1> QED BY <1>2, Induction, PTL
=============================================================================
