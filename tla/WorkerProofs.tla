---------------------------- MODULE WorkerProofs ----------------------------
(***************************************************************************)
(* Proofs about Worker for any number of workers, messages and flow keys,  *)
(* any capacities, and both values of PromptInsert.                        *)
(***************************************************************************)
EXTENDS WorkerInvariant, TLAPS

\* try_push keeps the type and the capacity of the sender's queue.
LEMMA TryPushType ==
  ASSUME TypeOK, NEW r \in Messages, TryPush(r)
  PROVE  /\ outputQueue' \in Seq(Messages) /\ Len(outputQueue') <= ThriftCapacity
         /\ offered' \in [Messages -> Nat]
BY CapacityAssumption DEF TypeOK, TryPush

\* Destroying records leaves each timer in one of its states.
LEMMA DestroyType ==
  ASSUME TypeOK, DestroyUnreferenced
  PROVE  timer' \in [Messages -> {"idle", "armed", "expired", "aborted", "done"}]
BY DEF TypeOK, DestroyUnreferenced

\* The layer holds when the program starts.
LEMMA InitIInv == Init => IInv
BY KeyAssumption, DistinctAssumption, CapacityAssumption
   DEF Init, IInv, TypeOK, LocalsOK, AccessorOK, EntriesOK, Pcs, MessageOrNone

\* An accessor is free only when its entry is not null: Worker.cpp:91 assigns
\* the record before it lets go of the accessor that insert returned.
LEMMA FreeNotNull ==
  ASSUME IInv, NEW k \in Keys, holder[k] = None
  PROVE  hashTable[k] # Null
BY DistinctAssumption DEF IInv, AccessorOK, EntriesOK

\* The key of the message a worker handles.
LEMMA KeyType ==
  ASSUME IInv, NEW w \in Workers, wpc[w] \notin {"pop", "stopped"}
  PROVE  msg[w] \in Messages /\ Key(w) \in Keys
BY KeyAssumption DEF IInv, TypeOK, LocalsOK, Key

\* Every step of handleRadiusMessage keeps the first layer.
LEMMA WorkerStepIInv ==
  ASSUME IInv, NEW w \in Workers, HandleRadiusMessage(w)
  PROVE  IInv'
<1> USE KeyAssumption, DistinctAssumption
    DEF IInv, Key, Goto, notWorker, tableVars, recordVars, outputVars, mainVars, queueVars, workerVars,
        Acquire, Release, EraseEntry, OpenLists, FillLists, StartTimer, CancelTimer
<1>1. CASE Pop(w)
  <2>1. TypeOK'
    <3>1. inputQueue[w] \in Seq(Messages) /\ inputQueue[w] # <<>>
      BY <1>1 DEF Pop, TypeOK
    <3>2. /\ Head(inputQueue[w]) \in Messages
          /\ Tail(inputQueue[w]) \in Seq(Messages)
          /\ Len(Tail(inputQueue[w])) <= Len(inputQueue[w])
      BY <3>1
    <3> QED BY <1>1, <3>2, CapacityAssumption DEF Pop, TypeOK, Pcs, MessageOrNone
  <2>2. LocalsOK'
    BY <1>1 DEF Pop, TypeOK, LocalsOK, AccessorOK, EntriesOK, Pcs, MessageOrNone
  <2>3. AccessorOK'
    BY <1>1 DEF Pop, TypeOK, LocalsOK, AccessorOK, Pcs, MessageOrNone
  <2>4. EntriesOK'
    BY <1>1 DEF Pop, TypeOK, LocalsOK, AccessorOK, EntriesOK, Pcs, MessageOrNone
  <2> QED BY <2>1, <2>2, <2>3, <2>4
<1>2. CASE Leave(w)
  <2>1. TypeOK'
    BY <1>2 DEF Leave, TypeOK, LocalsOK, Pcs, MessageOrNone
  <2>2. LocalsOK'
    BY <1>2 DEF Leave, TypeOK, LocalsOK, AccessorOK, EntriesOK, Pcs, MessageOrNone
  <2>3. AccessorOK'
    BY <1>2 DEF Leave, TypeOK, LocalsOK, AccessorOK, Pcs, MessageOrNone
  <2>4. EntriesOK'
    BY <1>2 DEF Leave, TypeOK, LocalsOK, AccessorOK, EntriesOK, Pcs, MessageOrNone
  <2> QED BY <2>1, <2>2, <2>3, <2>4
<1>3. CASE Parse(w)
  <2>1. TypeOK'
    BY <1>3 DEF Parse, TypeOK, LocalsOK, Pcs, MessageOrNone
  <2>2. LocalsOK'
    BY <1>3 DEF Parse, TypeOK, LocalsOK, AccessorOK, EntriesOK, Pcs, MessageOrNone
  <2>3. AccessorOK'
    BY <1>3 DEF Parse, TypeOK, LocalsOK, AccessorOK, Pcs, MessageOrNone
  <2>4. EntriesOK'
    BY <1>3 DEF Parse, TypeOK, LocalsOK, AccessorOK, EntriesOK, Pcs, MessageOrNone
  <2> QED BY <2>1, <2>2, <2>3, <2>4
<1>4. CASE Find(w)
  <2>1. msg[w] \in Messages /\ KeyOf[msg[w]] \in Keys
    BY <1>4, KeyType DEF Find
  <2>2. CASE hashTable[Key(w)] = None
    <3>1. TypeOK'
      BY <1>4, <2>2 DEF Find, TypeOK, Pcs, MessageOrNone
    <3>2. LocalsOK'
      BY <1>4, <2>1, <2>2 DEF Find, TypeOK, LocalsOK, Pcs
    <3>3. AccessorOK'
      BY <1>4, <2>2 DEF Find, TypeOK, AccessorOK, Pcs
    <3>4. EntriesOK'
      BY <1>4, <2>2 DEF Find, TypeOK, EntriesOK, Pcs
    <3> QED BY <3>1, <3>2, <3>3, <3>4
  <2>3. CASE hashTable[Key(w)] # None
    <3>1. hashTable[Key(w)] \in Messages
      BY <1>4, <2>1, <2>3, FreeNotNull DEF Find, TypeOK, MessageOrNone
    <3>2. KeyOf[hashTable[Key(w)]] = Key(w)
      BY <2>1, <3>1 DEF EntriesOK
    <3>3. /\ wpc[w] = "find" /\ holder[Key(w)] = None
          /\ wpc' = [wpc EXCEPT ![w] = "fill"]
          /\ holder' = [holder EXCEPT ![Key(w)] = w]
          /\ thrift' = [thrift EXCEPT ![w] = hashTable[Key(w)]]
          /\ UNCHANGED <<notWorker, inputQueue, msg, hashTable, recordVars, timer, outputVars>>
      BY <1>4, <2>3 DEF Find
    <3>4. TypeOK'
      BY <3>1, <3>3 DEF TypeOK, Pcs, MessageOrNone
    <3>5. LocalsOK'
      BY <2>1, <3>1, <3>2, <3>3 DEF TypeOK, LocalsOK, Pcs
    <3>6. AccessorOK'
      BY <2>1, <3>3 DEF TypeOK, LocalsOK, AccessorOK, Pcs
    <3>7. EntriesOK'
      BY <3>3 DEF TypeOK, EntriesOK, Pcs
    <3> QED BY <3>4, <3>5, <3>6, <3>7
  <2> QED BY <2>2, <2>3
<1>5. CASE Fill(w)
  <2>1. TypeOK'
    BY <1>5 DEF Fill, TypeOK, LocalsOK, Pcs, MessageOrNone
  <2>2. LocalsOK'
    BY <1>5 DEF Fill, TypeOK, LocalsOK, AccessorOK, EntriesOK, Pcs, MessageOrNone
  <2>3. AccessorOK'
    BY <1>5 DEF Fill, TypeOK, LocalsOK, AccessorOK, Pcs, MessageOrNone
  <2>4. EntriesOK'
    BY <1>5 DEF Fill, TypeOK, LocalsOK, AccessorOK, EntriesOK, Pcs, MessageOrNone
  <2> QED BY <2>1, <2>2, <2>3, <2>4
<1>6. CASE Push(w)
  <2>1. TypeOK'
    BY <1>6, TryPushType DEF Push, TypeOK, LocalsOK, Pcs, MessageOrNone
  <2>2. LocalsOK'
    BY <1>6 DEF Push, TypeOK, LocalsOK, AccessorOK, EntriesOK, Pcs, MessageOrNone
  <2>3. AccessorOK'
    BY <1>6 DEF Push, TypeOK, LocalsOK, AccessorOK, Pcs, MessageOrNone
  <2>4. EntriesOK'
    BY <1>6 DEF Push, TypeOK, LocalsOK, AccessorOK, EntriesOK, Pcs, MessageOrNone
  <2> QED BY <2>1, <2>2, <2>3, <2>4
<1>7. CASE Erase(w)
  <2>1. TypeOK'
    BY <1>7 DEF Erase, TypeOK, LocalsOK, Pcs, MessageOrNone
  <2>2. LocalsOK'
    BY <1>7 DEF Erase, TypeOK, LocalsOK, AccessorOK, EntriesOK, Pcs, MessageOrNone
  <2>3. AccessorOK'
    BY <1>7 DEF Erase, TypeOK, LocalsOK, AccessorOK, Pcs, MessageOrNone
  <2>4. EntriesOK'
    BY <1>7 DEF Erase, TypeOK, LocalsOK, AccessorOK, EntriesOK, Pcs, MessageOrNone
  <2> QED BY <2>1, <2>2, <2>3, <2>4
<1>8. CASE Arm(w)
  <2>1. TypeOK'
    BY <1>8 DEF Arm, TypeOK, LocalsOK, Pcs, MessageOrNone
  <2>2. LocalsOK'
    BY <1>8 DEF Arm, TypeOK, LocalsOK, AccessorOK, EntriesOK, Pcs, MessageOrNone
  <2>3. AccessorOK'
    BY <1>8 DEF Arm, TypeOK, LocalsOK, AccessorOK, Pcs, MessageOrNone
  <2>4. EntriesOK'
    BY <1>8 DEF Arm, TypeOK, LocalsOK, AccessorOK, EntriesOK, Pcs, MessageOrNone
  <2> QED BY <2>1, <2>2, <2>3, <2>4
<1>9. CASE Insert(w)
  <2>1. msg[w] \in Messages /\ Key(w) \in Keys
    BY <1>9, KeyType DEF Insert
  <2>2. /\ wpc[w] = "insert" /\ holder[Key(w)] = None
        /\ wpc' = [wpc EXCEPT ![w] = "assign"]
        /\ holder' = [holder EXCEPT ![Key(w)] = w]
        /\ hashTable' \in {hashTable, [hashTable EXCEPT ![Key(w)] = Null]}
        /\ UNCHANGED <<notWorker, inputQueue, msg, thrift, recordVars, timer, outputVars>>
    BY <1>9, <2>1 DEF Insert, TypeOK
  <2>3. TypeOK'
    BY <2>2 DEF TypeOK, Pcs, MessageOrNone
  <2>4. LocalsOK'
    BY <2>1, <2>2 DEF TypeOK, LocalsOK, Pcs
  <2>5. AccessorOK'
    BY <2>1, <2>2 DEF TypeOK, LocalsOK, AccessorOK, Pcs
  <2>6. EntriesOK'
    <3> SUFFICES ASSUME NEW k \in Keys
                 PROVE  /\ hashTable'[k] \in Messages => KeyOf[hashTable'[k]] = k
                        /\ hashTable'[k] = Null =>
                             /\ holder'[k] \in Workers
                             /\ wpc'[holder'[k]] = "assign" /\ KeyOf[msg'[holder'[k]]] = k
      BY DEF EntriesOK
    <3>1. CASE k = Key(w)
      BY <2>1, <2>2, <3>1 DEF TypeOK, EntriesOK, Pcs
    <3>2. CASE k # Key(w)
      BY <2>1, <2>2, <3>2 DEF TypeOK, EntriesOK, Pcs
    <3> QED BY <3>1, <3>2
  <2> QED BY <2>3, <2>4, <2>5, <2>6
<1>10. CASE Assign(w)
  <2>1. TypeOK'
    BY <1>10, DestroyType DEF Assign, TypeOK, LocalsOK, Pcs, MessageOrNone
  <2>2. LocalsOK'
    BY <1>10 DEF Assign, TypeOK, LocalsOK, AccessorOK, EntriesOK, Pcs, MessageOrNone
  <2>3. AccessorOK'
    BY <1>10 DEF Assign, TypeOK, LocalsOK, AccessorOK, Pcs, MessageOrNone
  <2>4. EntriesOK'
    BY <1>10 DEF Assign, TypeOK, LocalsOK, AccessorOK, EntriesOK, Pcs, MessageOrNone
  <2> QED BY <2>1, <2>2, <2>3, <2>4
<1>11. CASE EndIteration(w)
  <2>1. TypeOK'
    BY <1>11, DestroyType DEF EndIteration, TypeOK, LocalsOK, Pcs, MessageOrNone
  <2>2. LocalsOK'
    BY <1>11 DEF EndIteration, TypeOK, LocalsOK, AccessorOK, EntriesOK, Pcs, MessageOrNone
  <2>3. AccessorOK'
    BY <1>11 DEF EndIteration, TypeOK, LocalsOK, AccessorOK, Pcs, MessageOrNone
  <2>4. EntriesOK'
    BY <1>11 DEF EndIteration, TypeOK, LocalsOK, AccessorOK, EntriesOK, Pcs, MessageOrNone
  <2> QED BY <2>1, <2>2, <2>3, <2>4
<1>12. CASE ParseThrows(w)
  <2>1. TypeOK'
    BY <1>12 DEF ParseThrows, TypeOK, LocalsOK, Pcs, MessageOrNone
  <2>2. LocalsOK'
    BY <1>12 DEF ParseThrows, TypeOK, LocalsOK, AccessorOK, EntriesOK, Pcs, MessageOrNone
  <2>3. AccessorOK'
    BY <1>12 DEF ParseThrows, TypeOK, LocalsOK, AccessorOK, Pcs, MessageOrNone
  <2>4. EntriesOK'
    BY <1>12 DEF ParseThrows, TypeOK, LocalsOK, AccessorOK, EntriesOK, Pcs, MessageOrNone
  <2> QED BY <2>1, <2>2, <2>3, <2>4
<1> QED BY <1>1, <1>2, <1>3, <1>4, <1>5, <1>6, <1>7, <1>8, <1>9, <1>10, <1>11, <1>12
       DEF HandleRadiusMessage

\* A step that leaves the workers, the table and the handler's locals alone
\* can only disturb the types.
LEMMA FrameIInv ==
  ASSUME IInv, TypeOK', UNCHANGED <<workerVars, tableVars, mpc, fired, flushing>>
  PROVE  IInv'
BY DEF IInv, LocalsOK, AccessorOK, EntriesOK, Key, workerVars, tableVars

\* Every step of handleTimeout keeps the first layer.
LEMMA TimeoutStepIInv ==
  ASSUME IInv, HandleTimeout
  PROVE  IInv'
<1> USE DEF IInv, notMain, queueVars, tableVars, workerVars, recordVars, outputVars, mainVars,
            Acquire, EraseEntry
<1>1. ASSUME NEW r \in Messages, TimeoutAborted(r) PROVE IInv'
  <2>1. TypeOK'
    BY <1>1 DEF TimeoutAborted, TypeOK
  <2> QED BY <1>1, <2>1, FrameIInv DEF TimeoutAborted
<1>2. ASSUME NEW r \in Messages, TimeoutRun(r) PROVE IInv'
  <2>1. TypeOK'
    BY <1>2 DEF TimeoutRun, TypeOK, MessageOrNone
  <2>2. LocalsOK' /\ AccessorOK' /\ EntriesOK'
    BY <1>2 DEF TimeoutRun, LocalsOK, AccessorOK, EntriesOK, Key
  <2> QED BY <2>1, <2>2
<1>3. CASE TimeoutFind
  <2>1. fired \in Messages /\ KeyOf[fired] \in Keys
    BY <1>3, KeyAssumption DEF TimeoutFind, LocalsOK
  <2>2. TypeOK'
    BY <1>3 DEF TimeoutFind, TypeOK, MessageOrNone
  <2>3. LocalsOK'
    BY <1>3, <2>1 DEF TimeoutFind, LocalsOK, Key
  <2>4. CASE hashTable[KeyOf[fired]] \in Messages
    <3>1. /\ mpc = "find" /\ mpc' = "push"
          /\ holder[KeyOf[fired]] = None
          /\ holder' = [holder EXCEPT ![KeyOf[fired]] = Main]
          /\ UNCHANGED <<wpc, msg, hashTable, fired>>
      BY <1>3, <2>4 DEF TimeoutFind
    <3>2. AccessorOK'
      BY <2>1, <3>1, DistinctAssumption DEF TypeOK, AccessorOK, Key
    <3>3. EntriesOK'
      BY <2>1, <3>1, DistinctAssumption DEF TypeOK, EntriesOK, Key
    <3> QED BY <2>2, <2>3, <3>2, <3>3
  <2>5. CASE hashTable[KeyOf[fired]] \notin Messages
    <3>1. mpc' = "poll" /\ UNCHANGED <<wpc, msg, holder, hashTable>>
      BY <1>3, <2>5 DEF TimeoutFind
    <3> QED BY <2>2, <2>3, <3>1 DEF AccessorOK, EntriesOK, Key
  <2> QED BY <2>2, <2>3, <2>4, <2>5
<1>4. CASE TimeoutPush
  <2>1. TypeOK'
    BY <1>4, TryPushType DEF TimeoutPush, TypeOK, LocalsOK
  <2>2. LocalsOK' /\ AccessorOK' /\ EntriesOK'
    BY <1>4 DEF TimeoutPush, LocalsOK, AccessorOK, EntriesOK, Key
  <2> QED BY <2>1, <2>2
<1>5. CASE TimeoutErase
  <2>1. KeyOf[fired] \in Keys /\ holder[KeyOf[fired]] = Main
    BY <1>5, KeyAssumption DEF TimeoutErase, LocalsOK, AccessorOK
  <2>2. TypeOK'
    BY <1>5 DEF TimeoutErase, TypeOK, MessageOrNone
  <2>3. LocalsOK'
    BY <1>5 DEF TimeoutErase, LocalsOK, Key
  <2>4. AccessorOK'
    BY <1>5, <2>1, DistinctAssumption DEF TimeoutErase, TypeOK, AccessorOK, Key
  <2>5. EntriesOK'
    BY <1>5, <2>1, DistinctAssumption DEF TimeoutErase, TypeOK, EntriesOK, Key
  <2> QED BY <2>2, <2>3, <2>4, <2>5
<1>6. CASE TimeoutCount
  <2>1. TypeOK'
    BY <1>6, DestroyType DEF TimeoutCount, TypeOK, MessageOrNone
  <2>2. LocalsOK' /\ AccessorOK' /\ EntriesOK'
    BY <1>6 DEF TimeoutCount, LocalsOK, AccessorOK, EntriesOK, Key
  <2> QED BY <2>1, <2>2
<1> QED BY <1>1, <1>2, <1>3, <1>4, <1>5, <1>6 DEF HandleTimeout

\* So does the expiry of a timer.
LEMMA ExpireIInv ==
  ASSUME IInv, NEW r \in Messages, Expire(r)
  PROVE  IInv'
<1>1. TypeOK'
  BY DEF Expire, IInv, TypeOK, notMain, queueVars, tableVars, workerVars, recordVars, outputVars,
         mainVars
<1> QED BY <1>1, FrameIInv DEF Expire, notMain, tableVars, workerVars, mainVars

\* So do the steps of the receiver, of the sender and of stopModules.
LEMMA EnvironmentStepIInv ==
  ASSUME IInv, Environment
  PROVE  IInv'
<1> USE DEF IInv, notMain, queueVars, tableVars, workerVars, recordVars, outputVars, mainVars
<1>1. ASSUME NEW m \in Messages, NEW w \in Workers, Receive(m, w) PROVE IInv'
  <2>1. Append(inputQueue[w], m) \in Seq(Messages)
        /\ Len(Append(inputQueue[w], m)) = Len(inputQueue[w]) + 1
    BY DEF TypeOK
  <2>2. TypeOK'
    BY <1>1, <2>1, CapacityAssumption DEF Receive, TypeOK
  <2> QED BY <1>1, <2>2, FrameIInv DEF Receive
<1>2. CASE SenderTake
  <2>1. /\ Head(outputQueue) \in Messages
        /\ Tail(outputQueue) \in Seq(Messages)
        /\ Len(Tail(outputQueue)) <= Len(outputQueue)
    BY <1>2 DEF SenderTake, TypeOK
  <2>2. TypeOK'
    BY <1>2, <2>1, CapacityAssumption DEF SenderTake, TypeOK, MessageOrNone
  <2> QED BY <1>2, <2>2, FrameIInv DEF SenderTake
<1>3. CASE SenderDrop
  <2>1. TypeOK'
    BY <1>3, DestroyType DEF SenderDrop, TypeOK, MessageOrNone
  <2> QED BY <1>3, <2>1, FrameIInv DEF SenderDrop
<1>4. CASE Shutdown
  <2>1. TypeOK'
    BY <1>4 DEF Shutdown, TypeOK
  <2>2. LocalsOK' /\ AccessorOK' /\ EntriesOK'
    BY <1>4 DEF Shutdown, LocalsOK, AccessorOK, EntriesOK, Key
  <2> QED BY <2>1, <2>2
<1>5. ASSUME NEW w \in Workers, Stop(w) PROVE IInv'
  <2>1. TypeOK'
    BY <1>5 DEF Stop, TypeOK
  <2> QED BY <1>5, <2>1, FrameIInv DEF Stop
<1> QED BY <1>1, <1>2, <1>3, <1>4, <1>5 DEF Environment

\* Together: the first layer is inductive.
LEMMA NextIInv == IInv /\ [Next]_vars => IInv'
<1> SUFFICES ASSUME IInv, [Next]_vars PROVE IInv'
  OBVIOUS
<1>1. CASE UNCHANGED vars
  BY <1>1 DEF vars, IInv, TypeOK, LocalsOK, AccessorOK, EntriesOK, Key, queueVars, workerVars,
              tableVars, recordVars, outputVars, mainVars
<1> QED BY <1>1, WorkerStepIInv, TimeoutStepIInv, ExpireIInv, EnvironmentStepIInv
       DEF Next, Step, Terminated

\* The inductive invariant holds at every step.
THEOREM Induction == Spec => []IInv
BY InitIInv, NextIInv, PTL DEF Spec

\* Every variable keeps the type of its C++ counterpart and both queues stay
\* within their capacities, for any number of threads and any capacities.
THEOREM TypeCorrect == Spec => []TypeOK
<1>1. IInv => TypeOK
  BY DEF IInv
<1> QED BY <1>1, Induction, PTL

\* No thread ever gets the accessor of an entry whose record is still null
\* (Worker.cpp:91-92), and a worker that found a record found one of its flow.
THEOREM NeverNull == Spec => []NoNullExposed
<1>1. IInv => NoNullExposed
  BY FreeNotNull DEF IInv, LocalsOK, NoNullExposed
<1> QED BY <1>1, Induction, PTL
=============================================================================
