----------------------- MODULE WorkerRefinementProofs -----------------------
(***************************************************************************)
(* Worker implements Correlation: MInv, the third layer of the inductive   *)
(* invariant, and the step of Correlation that each action maps to.        *)
(***************************************************************************)
EXTENDS WorkerRecordProofs, FiniteSetTheorems

\* The layer holds when the program starts.
LEMMA InitMInv == Init => MInv /\ CountOK
<1> SUFFICES ASSUME Init PROVE MInv /\ CountOK
  OBVIOUS
<1>1. MInv
  BY DistinctAssumption DEF Init, MInv, IdleOK, MatchOK, SoleOK
<1>2. UnmatchedRecords = {}
  BY DEF Init, UnmatchedRecords
<1>3. CountOK
  BY <1>2, FS_EmptySet DEF Init, CountOK
<1> QED BY <1>1, <1>3

\* The timers, the sender, the receiver and stop disturb nothing here.
LEMMA FrameMInv ==
  ASSUME MInv, UNCHANGED <<workerVars, hashTable, recordVars, offered, mpc, flushing>>
  PROVE  MInv'
BY DEF MInv, IdleOK, MatchOK, SoleOK, Filled, Own, Key, workerVars, recordVars

\* The lists of a record in a worker's hands are changed by that worker only:
\* another one would need its accessor, or would write a record of its own that
\* is in no entry yet.
LEMMA HeldUntouched ==
  ASSUME IInv, RInv, NEW w \in Workers, wpc[w] = "push",
         NEW v \in Workers, v # w, HandleRadiusMessage(v)
  PROVE  /\ reqList'[thrift[w]] = reqList[thrift[w]]
         /\ respList'[thrift[w]] = respList[thrift[w]]
<1>1. /\ thrift[w] \in Messages /\ KeyOf[thrift[w]] = Key(w) /\ holder[Key(w)] = w
      /\ \A m \in Messages : Outside(m) => m # thrift[w]
  BY HeldFacts
<1>2. CASE Fill(v)
  <2>1. KeyOf[thrift[v]] = Key(v) /\ holder[Key(v)] = v /\ thrift[v] \in Messages
    BY <1>2, HeldFacts DEF Fill
  <2>2. thrift[v] # thrift[w]
    BY <1>1, <2>1
  <2> QED BY <1>1, <1>2, <2>1, <2>2 DEF Fill, FillLists, IInv, TypeOK
<1>3. CASE Arm(v)
  <2>1. msg[v] \in Messages /\ Outside(msg[v])
    BY <1>3, KeyType DEF Arm, RInv, FreshOK
  <2>2. msg[v] # thrift[w]
    BY <1>1, <2>1
  <2> QED BY <1>1, <1>3, <2>1, <2>2 DEF Arm, OpenLists, IInv, TypeOK
<1>4. CASE ~Fill(v) /\ ~Arm(v)
  BY <1>4 DEF HandleRadiusMessage, Pop, Leave, Parse, ParseThrows, Find, Push, Erase, Insert,
              Assign,
              EndIteration, recordVars
<1> QED BY <1>2, <1>3, <1>4

\* A worker's step changes its own locals only, and no counter goes down.
LEMMA WorkerFrame ==
  ASSUME IInv, RInv, NEW w \in Workers, HandleRadiusMessage(w)
  PROVE  /\ \A v \in Workers : v # w =>
              wpc'[v] = wpc[v] /\ msg'[v] = msg[v] /\ thrift'[v] = thrift[v]
         /\ \A r \in Messages : offered'[r] >= offered[r]
         /\ UNCHANGED mainVars
<1>1. \A v \in Workers : v # w =>
        wpc'[v] = wpc[v] /\ msg'[v] = msg[v] /\ thrift'[v] = thrift[v]
  BY DEF IInv, TypeOK, HandleRadiusMessage, Pop, Leave, Parse, ParseThrows, Find, Fill, Push,
         Erase, Arm,
         Insert, Assign, EndIteration, Goto
<1>2. \A r \in Messages : offered'[r] >= offered[r]
  <2>1. CASE Push(w)
    BY <2>1, HeldFacts DEF Push, TryPush, IInv, TypeOK
  <2>2. CASE ~Push(w)
    <3>1. offered' = offered
      BY <2>2 DEF HandleRadiusMessage, Pop, Leave, Parse, ParseThrows, Find, Fill, Erase, Arm,
                  Insert, Assign,
             EndIteration, outputVars
    <3> QED BY <3>1 DEF IInv, TypeOK
  <2> QED BY <2>1, <2>2
<1>3. UNCHANGED mainVars
  BY DEF HandleRadiusMessage, Pop, Leave, Parse, ParseThrows, Find, Fill, Push, Erase, Arm,
         Insert, Assign,
         EndIteration, notWorker
<1> QED BY <1>1, <1>2, <1>3

\* Every step of handleRadiusMessage keeps the third layer.
LEMMA WorkerStepMInv ==
  ASSUME IInv, RInv, MInv, NEW w \in Workers, HandleRadiusMessage(w)
  PROVE  MInv'
<1> USE DistinctAssumption
<1>1. IdleOK'
  <2>1. wpc'[w] \in {"pop", "stopped"} => msg'[w] = None
    BY DEF MInv, IdleOK, IInv, TypeOK, HandleRadiusMessage, Pop, Leave, Parse, ParseThrows, Find,
           Fill, Push,
           Erase, Arm, Insert, Assign, EndIteration, Goto
  <2> QED BY <2>1, WorkerFrame DEF MInv, IdleOK
<1>2. ASSUME NEW v \in Workers, wpc'[v] = "push" PROVE Filled(thrift[v], msg[v])' 
  <2>1. CASE v = w
    <3>1. Fill(w)
      BY <1>2, <2>1 DEF IInv, TypeOK, HandleRadiusMessage, Pop, Leave, Parse, ParseThrows, Find,
                        Fill, Push,
             Erase, Arm, Insert, Assign, EndIteration, Goto
    <3>2. /\ thrift[w] \in Messages /\ msg[w] \in Messages /\ Own(thrift[w])
      BY <3>1, HeldFacts DEF Fill, RInv, TableOK, WorkerAt
    <3>3. msg' = msg /\ thrift' = thrift /\ FillLists(thrift[w], msg[w])
      BY <3>1 DEF Fill
    <3> QED BY <2>1, <3>2, <3>3 DEF Filled, Own, FillLists, IInv, TypeOK
  <2>2. CASE v # w
    <3>1. wpc[v] = "push" /\ thrift'[v] = thrift[v] /\ msg'[v] = msg[v]
      BY <1>2, <2>2, WorkerFrame
    <3>2. Filled(thrift[v], msg[v])
      BY <3>1 DEF MInv, MatchOK
    <3> QED BY <2>2, <3>1, <3>2, HeldUntouched DEF Filled, Own
  <2> QED BY <2>1, <2>2
<1>3. ASSUME NEW v \in Workers, wpc'[v] = "erase" PROVE offered'[thrift'[v]] > 0
  <2>1. CASE v = w
    <3>1. Push(w)
      BY <1>3, <2>1 DEF IInv, TypeOK, HandleRadiusMessage, Pop, Leave, Parse, ParseThrows, Find,
                        Fill, Push,
             Erase, Arm, Insert, Assign, EndIteration, Goto
    <3> QED BY <2>1, <3>1, HeldFacts DEF Push, TryPush, IInv, TypeOK
  <2>2. CASE v # w
    <3>1. wpc[v] = "erase" /\ thrift'[v] = thrift[v] /\ thrift[v] \in Messages
      BY <1>3, <2>2, WorkerFrame DEF IInv, LocalsOK
    <3>2. offered[thrift[v]] > 0 /\ offered'[thrift[v]] >= offered[thrift[v]]
      BY <3>1, WorkerFrame DEF MInv, MatchOK
    <3>3. offered[thrift[v]] \in Nat /\ offered'[thrift[v]] \in Nat
      BY <3>1, WorkerStepIInv DEF IInv, TypeOK
    <3> QED BY <3>1, <3>2, <3>3
  <2> QED BY <2>1, <2>2
<1>4. mpc' = "erase" => offered'[flushing'] > 0
  <2> SUFFICES ASSUME mpc' = "erase" PROVE offered'[flushing'] > 0
    OBVIOUS
  <2>1. mpc = "erase" /\ flushing' = flushing /\ flushing \in Messages
    BY WorkerFrame DEF mainVars, IInv, LocalsOK
  <2>2. offered[flushing] > 0 /\ offered'[flushing] >= offered[flushing]
    BY <2>1, WorkerFrame DEF MInv, MatchOK
  <2>3. offered[flushing] \in Nat /\ offered'[flushing] \in Nat
    BY <2>1, WorkerStepIInv DEF IInv, TypeOK
  <2> QED BY <2>1, <2>2, <2>3
<1>5. MatchOK'
  BY <1>2, <1>3, <1>4 DEF MatchOK
<1>6. SoleOK'
  <2> SUFFICES ASSUME NEW v \in Workers, Workers = {v}
               PROVE  /\ wpc'[v] \in {"arm", "insert"} => hashTable'[Key(v)'] = None
                      /\ wpc'[v] = "assign" => hashTable'[Key(v)'] = Null
    BY DEF SoleOK
  <2>1. v = w
    OBVIOUS
  <2>2. wpc[w] \notin {"pop", "stopped"} => Key(w) \in Keys
    BY KeyType
  <2> QED BY <2>1, <2>2
      DEF MInv, SoleOK, IInv, TypeOK, HandleRadiusMessage, Pop, Leave, Parse, ParseThrows, Find,
          Fill, Push,
          Erase, Arm, Insert, Assign, EndIteration, Goto, Key, tableVars
<1> QED BY <1>1, <1>5, <1>6 DEF MInv

\* So does every step of handleTimeout: while it holds an accessor, no worker is
\* about to assign that entry.
LEMMA TimeoutStepMInv ==
  ASSUME IInv, RInv, MInv, HandleTimeout
  PROVE  MInv'
<1> USE DistinctAssumption DEF notMain
<1>1. ASSUME NEW r \in Messages, TimeoutAborted(r) \/ TimeoutRun(r) PROVE MInv'
  BY <1>1 DEF TimeoutAborted, TimeoutRun, MInv, IdleOK, MatchOK, SoleOK, Filled, Own, Key,
              workerVars, recordVars, tableVars, outputVars, mainVars
<1>2. CASE TimeoutFind
  BY <1>2 DEF TimeoutFind, MInv, IdleOK, MatchOK, SoleOK, Filled, Own, Key,
              workerVars, recordVars, outputVars
<1>3. CASE TimeoutPush
  <2>1. /\ flushing \in Messages /\ offered \in [Messages -> Nat]
        /\ offered' = [offered EXCEPT ![flushing] = @ + 1]
        /\ UNCHANGED <<workerVars, recordVars, tableVars, flushing>>
    BY <1>3, FlushingFacts DEF TimeoutPush, TryPush, IInv, TypeOK
  <2>2. \A r \in Messages : offered[r] > 0 => offered'[r] > 0
    BY <2>1
  <2>3. \A w \in Workers : wpc[w] = "erase" => thrift[w] \in Messages
    BY DEF IInv, LocalsOK
  <2>4. MatchOK'
    BY <2>1, <2>2, <2>3 DEF MInv, MatchOK, Filled, Own, workerVars, recordVars
  <2> QED BY <2>1, <2>4 DEF MInv, IdleOK, SoleOK, Key, workerVars, tableVars
<1>4. CASE TimeoutErase
  <2>1. /\ KeyOf[fired] \in Keys /\ holder[KeyOf[fired]] = Main
        /\ hashTable' = [hashTable EXCEPT ![KeyOf[fired]] = None]
        /\ mpc' = "count" /\ UNCHANGED <<workerVars, recordVars, outputVars>>
    BY <1>4, FlushingFacts DEF TimeoutErase, EraseEntry
  <2>2. \A w \in Workers : wpc[w] = "assign" => Key(w) # KeyOf[fired]
    BY <2>1 DEF IInv, AccessorOK
  <2>3. \A w \in Workers : wpc[w] \in {"arm", "insert", "assign"} => Key(w) \in Keys
    BY KeyType
  <2>4. SoleOK'
    BY <2>1, <2>2, <2>3 DEF MInv, SoleOK, IInv, TypeOK, Key, workerVars
  <2> QED BY <2>1, <2>4 DEF MInv, IdleOK, MatchOK, Filled, Own, workerVars, recordVars, outputVars
<1>5. CASE TimeoutCount
  BY <1>5 DEF TimeoutCount, MInv, IdleOK, MatchOK, SoleOK, Filled, Own, Key,
              workerVars, recordVars, tableVars, outputVars
<1> QED BY <1>1, <1>2, <1>3, <1>4, <1>5 DEF HandleTimeout

\* Together with the neighbours' steps.
LEMMA NextMInv == IInv /\ RInv /\ MInv /\ [Next]_vars => MInv'
<1> SUFFICES ASSUME IInv, RInv, MInv, [Next]_vars PROVE MInv'
  OBVIOUS
<1>1. ASSUME (Environment /\ ~Shutdown) \/ (\E r \in Messages : Expire(r)) PROVE MInv'
  BY <1>1, FrameMInv DEF Environment, Receive, SenderTake, SenderDrop, Stop, Expire, notMain,
                         queueVars, tableVars, outputVars, mainVars
<1>2. CASE Shutdown
  BY <1>2 DEF Shutdown, MInv, IdleOK, MatchOK, SoleOK, Filled, Own, Key,
              notMain, workerVars, recordVars, tableVars, outputVars
<1>3. CASE UNCHANGED vars
  BY <1>3, FrameMInv DEF vars, tableVars, outputVars, mainVars
<1> QED BY <1>1, <1>2, <1>3, WorkerStepMInv, TimeoutStepMInv DEF Next, Step, Environment, Terminated

-----------------------------------------------------------------------------
(* The counter of timeouts *)

\* A record once offered with one list stays so, and a step offers at most one.
LEMMA UnmatchedGrows ==
  ASSUME Inductive, [Next]_vars
  PROVE  /\ UnmatchedRecords \subseteq UnmatchedRecords'
         /\ \E r : UnmatchedRecords' \subseteq UnmatchedRecords \cup {r}
<1>1. ASSUME UNCHANGED offered PROVE UnmatchedRecords' = UnmatchedRecords
  BY <1>1, FrozenStep DEF UnmatchedRecords, OneSided
<1>2. ASSUME NEW x \in Messages, TryPush(x)
      PROVE  /\ UnmatchedRecords \subseteq UnmatchedRecords'
             /\ UnmatchedRecords' \subseteq UnmatchedRecords \cup {x}
  <2>1. \A r \in Messages : /\ offered[r] > 0 => offered'[r] > 0
                            /\ r # x => offered'[r] = offered[r]
    BY <1>2 DEF TryPush, Inductive, IInv, TypeOK
  <2> QED BY <2>1, FrozenStep DEF UnmatchedRecords, OneSided
<1>3. ASSUME NEW w \in Workers, Push(w) PROVE TryPush(thrift[w]) /\ thrift[w] \in Messages
  BY <1>3, HeldFacts DEF Push, Inductive
<1>4. ASSUME TimeoutPush PROVE TryPush(flushing) /\ flushing \in Messages
  BY <1>4, FlushingFacts DEF TimeoutPush, Inductive
<1>5. ASSUME NEW w \in Workers, HandleRadiusMessage(w), ~Push(w) PROVE UNCHANGED offered
  BY <1>5 DEF HandleRadiusMessage, Pop, Leave, Parse, ParseThrows, Find, Fill, Erase, Arm, Insert,
              Assign,
              EndIteration, outputVars
<1>6. ASSUME HandleTimeout, ~TimeoutPush PROVE UNCHANGED offered
  BY <1>6 DEF HandleTimeout, TimeoutAborted, TimeoutRun, TimeoutFind, TimeoutErase, TimeoutCount,
              outputVars
<1>7. ASSUME Environment \/ (\E r \in Messages : Expire(r)) PROVE UNCHANGED offered
  BY <1>7 DEF Environment, Receive, SenderTake, SenderDrop, Shutdown, Stop, Expire, outputVars
<1>8. CASE UNCHANGED vars
  BY <1>1, <1>8 DEF vars, outputVars
<1> QED BY <1>1, <1>2, <1>3, <1>4, <1>5, <1>6, <1>7, <1>8 DEF Next, Step, Terminated

\* A timeout hands over a record that was not offered and has one list only,
\* before it counts it.
LEMMA TimeoutPushUnmatched ==
  ASSUME Inductive, TimeoutPush
  PROVE  \E r : r \notin UnmatchedRecords /\ r \in UnmatchedRecords'
<1>1. /\ flushing \in Messages /\ offered[flushing] = 0 /\ Own(flushing)
      /\ offered' = [offered EXCEPT ![flushing] = @ + 1] /\ UNCHANGED recordVars
  BY FlushingFacts, DistinctAssumption
     DEF TimeoutPush, TryPush, Inductive, RInv, TableOK, WorkerAt, notMain
<1>2. offered'[flushing] > 0
  BY <1>1 DEF Inductive, IInv, TypeOK
<1>3. (reqList'[flushing] = None) # (respList'[flushing] = None)
  BY <1>1, DistinctAssumption DEF Own, recordVars
<1> QED BY <1>1, <1>2, <1>3 DEF UnmatchedRecords, OneSided

\* Every step keeps the bound of the counter of unmatched requests by the records
\* handed over with one list only.
LEMMA NextCountOK ==
  ASSUME Inductive, CountOK, [Next]_vars
  PROVE  CountOK'
<1> DEFINE U == UnmatchedRecords
           Due == IF mpc \in {"erase", "count"} THEN 1 ELSE 0
<1>1. PICK r : U \subseteq U' /\ U' \subseteq U \cup {r}
  BY UnmatchedGrows
<1>2. IsFiniteSet(U) /\ IsFiniteSet(U \cup {r})
  BY FS_AddElement DEF CountOK
<1>3. IsFiniteSet(U')
  BY <1>1, <1>2, FS_Subset
<1>4. Cardinality(U) \in Nat /\ Cardinality(U') \in Nat /\ Cardinality(U) <= Cardinality(U')
  BY <1>1, <1>2, <1>3, FS_Subset, FS_CardinalityType
<1>5. CASE TimeoutPush
  <2>1. Cardinality(U) # Cardinality(U')
    BY <1>1, <1>3, <1>5, FS_Subset, TimeoutPushUnmatched
  <2>2. Cardinality(U) + 1 <= Cardinality(U')
    BY <1>4, <2>1
  <2> QED BY <1>3, <1>4, <1>5, <2>2 DEF CountOK, TimeoutPush, Inductive, IInv, TypeOK
<1>6. CASE ~TimeoutPush
  <2>1. unmatchedReqsNum' + Due' <= unmatchedReqsNum + Due
    BY <1>6 DEF Next, Step, HandleRadiusMessage, Pop, Leave, Parse, ParseThrows, Find, Fill, Push,
                Erase, Arm, Insert,
                Assign, EndIteration, HandleTimeout, TimeoutAborted, TimeoutRun, TimeoutFind,
                TimeoutErase, TimeoutCount, Environment, Receive, SenderTake, SenderDrop, Shutdown,
                Stop, Expire, Terminated, notWorker, mainVars, vars, Inductive, IInv, TypeOK
  <2>2. unmatchedReqsNum \in Nat /\ unmatchedReqsNum' \in Nat /\ Due \in {0, 1} /\ Due' \in {0, 1}
    BY NextIInv DEF Inductive, IInv, TypeOK
  <2>3. unmatchedReqsNum + Due <= Cardinality(U)
    BY DEF CountOK
  <2>4. unmatchedReqsNum' + Due' <= Cardinality(U')
    <3>1. \A a, b, c, d, e, f \in Nat : c + d <= a + b /\ a + b <= e /\ e <= f => c + d <= f
      OBVIOUS
    <3>2. {Due, Due'} \subseteq Nat
      BY <2>2
    <3> HIDE DEF U, Due
    <3> QED BY <1>4, <2>1, <2>2, <2>3, <3>1, <3>2
  <2> QED BY <1>3, <2>4 DEF CountOK
<1> QED BY <1>5, <1>6

-----------------------------------------------------------------------------
(* The refinement mapping *)

\* A message that no worker pops or puts down changes its state in Correlation
\* only when its worker gets to the erase or to the end of the iteration.
LEMMA DoneFrame ==
  ASSUME UNCHANGED <<arriving, inputQueue, msg>>,
         \A w \in Workers : msg[w] \in Messages =>
            (wpc[w] \in {"erase", "end"} <=> wpc'[w] \in {"erase", "end"})
  PROVE  doneBar' = doneBar
BY DEF doneBar, Taken

\* The step that settles a message adds it, and it alone, to the finished ones.
LEMMA DoneAdds ==
  ASSUME Inductive, NEW w \in Workers, wpc[w] \in {"push", "assign"}, NEW label \in {"erase",
  "end"},
         wpc' = [wpc EXCEPT ![w] = label], UNCHANGED <<arriving, inputQueue, msg>>
  PROVE  msg[w] \in Messages /\ msg[w] \notin doneBar /\ doneBar' = doneBar \cup {msg[w]}
<1>1. msg[w] \in Messages /\ ~Unread(msg[w])
  BY KeyType DEF Inductive, RInv, OnceOK
<1>2. Taken(msg[w])
  <2>1. \A v \in Workers : DOMAIN inputQueue[v] = 1 .. Len(inputQueue[v])
    BY DEF Inductive, IInv, TypeOK
  <2> QED BY <1>1, <2>1 DEF Taken, Unread, Queued
<1>3. \A v \in Workers : v # w => msg[v] # msg[w]
  BY <1>1, DistinctAssumption DEF Inductive, RInv, OnceOK
<1>4. \A m \in Messages : Taken(m)' <=> Taken(m)
  BY DEF Taken
<1>5. \A v \in Workers : wpc'[v] = IF v = w THEN label ELSE wpc[v]
  BY DEF Inductive, IInv, TypeOK
<1> QED BY <1>1, <1>2, <1>3, <1>4, <1>5 DEF doneBar

\* The records handed over change only with a try_push.
LEMMA ReportsFrame ==
  ASSUME Inductive, [Next]_vars, UNCHANGED offered
  PROVE  reportsBar' = reportsBar
BY FrozenStep DEF reportsBar

\* A try_push of record r hands over r with the lists it has then.
LEMMA ReportsAdd ==
  ASSUME Inductive, [Next]_vars, NEW r \in Messages, TryPush(r), UNCHANGED recordVars
  PROVE  reportsBar' = reportsBar \cup {[req |-> reqList[r], resp |-> respList[r]]}
<1>1. \A x \in Messages : offered'[x] > 0 <=> (offered[x] > 0 \/ x = r)
  BY DEF TryPush, Inductive, IInv, TypeOK
<1> QED BY <1>1 DEF reportsBar, recordVars

\* ... and takes it out of the table, in which its key alone has it.
LEMMA PendingRemove ==
  ASSUME Inductive, NEW k \in Keys, NEW r \in Messages, hashTable[k] = r, TryPush(r),
  offered[r] = 0,
         UNCHANGED hashTable
  PROVE  /\ pendingBar[k] = r
         /\ pendingBar' = [pendingBar EXCEPT ![k] = None]
<1>1. \A x \in Messages : offered'[x] = IF x = r THEN 1 ELSE offered[x]
  BY DEF TryPush, Inductive, IInv, TypeOK
<1>2. \A l \in Keys : hashTable[l] = r => l = k
  BY DEF Inductive, IInv, EntriesOK
<1>3. pendingBar[k] = r
  BY DEF pendingBar
<1>4. ASSUME NEW l \in Keys PROVE pendingBar'[l] = IF l = k THEN None ELSE pendingBar[l]
  BY <1>1, <1>2 DEF pendingBar
<1> QED BY <1>3, <1>4 DEF pendingBar

\* An entry whose record was offered counts as gone already.
LEMMA PendingErase ==
  ASSUME Inductive, NEW k \in Keys, hashTable[k] \in Messages, offered[hashTable[k]] > 0,
         hashTable' = [hashTable EXCEPT ![k] = None], UNCHANGED offered
  PROVE  pendingBar' = pendingBar
BY DistinctAssumption DEF pendingBar, Inductive, IInv, TypeOK

\* Initially nothing waits, nothing was handed over and nothing is done.
LEMMA InitMaps == Init => C!Init
<1> SUFFICES ASSUME Init PROVE C!Init
  OBVIOUS
<1>1. pendingBar = [k \in Keys |-> None]
  BY DistinctAssumption DEF Init, pendingBar
<1>2. reportsBar = {}
  BY DEF Init, reportsBar
<1>3. doneBar = {}
  BY DEF Init, doneBar, Taken
<1> QED BY <1>1, <1>2, <1>3 DEF C!Init

\* Worker.cpp:73: the record given to the sender is that of Match or of Clash.
LEMMA PushMaps ==
  ASSUME Inductive, MInv, [Next]_vars, NEW w \in Workers, Push(w)
  PROVE  C!Match(msg[w]) \/ C!Clash(msg[w])
<1> DEFINE m == msg[w]
           r == thrift[w]
           k == KeyOf[m]
<1>1. /\ r \in Messages /\ m \in Messages /\ k \in Keys /\ hashTable[k] = r /\ offered[r] = 0
  BY HeldFacts DEF Push, Inductive, Key
<1>2. TryPush(r) /\ UNCHANGED <<hashTable, recordVars, arriving, inputQueue, msg>>
  BY DEF Push, notWorker, tableVars
<1>3. pendingBar[k] = r /\ pendingBar' = [pendingBar EXCEPT ![k] = None]
  BY <1>1, <1>2, PendingRemove
<1>4. reportsBar' = reportsBar \cup {[req |-> reqList[r], resp |-> respList[r]]}
  BY <1>1, <1>2, ReportsAdd
<1>5. m \notin doneBar /\ doneBar' = doneBar \cup {m}
  BY <1>2, DoneAdds DEF Push, Goto
<1>6. Filled(r, m)
  BY DEF Push, MInv, MatchOK
<1>7. r # None
  BY <1>1, DistinctAssumption
<1>8. CASE C!SameKind(r, m)
  <2>1. [req |-> reqList[r], resp |-> respList[r]] = C!Alone(r)
    BY <1>6, <1>8 DEF Filled, Own, C!SameKind, C!Alone, C!Pair
  <2>2. C!Handle(m, None, {C!Alone(r)})
    BY <1>3, <1>4, <1>5, <2>1 DEF C!Handle
  <2> QED BY <1>3, <1>7, <1>8, <2>2 DEF C!Clash, C!Waiting
<1>9. CASE ~C!SameKind(r, m)
  <2>1. [req |-> reqList[r], resp |-> respList[r]] = C!Pair(r, m)
    BY <1>6, <1>9 DEF Filled, C!SameKind, C!Pair
  <2>2. C!Handle(m, None, {C!Pair(r, m)})
    BY <1>3, <1>4, <1>5, <2>1 DEF C!Handle
  <2> QED BY <1>3, <1>7, <1>9, <2>2 DEF C!Match, C!Waiting
<1> QED BY <1>8, <1>9

\* Worker.cpp:92: the assignment opens an entry or replaces a record in it.
LEMMA AssignMaps ==
  ASSUME Inductive, MInv, [Next]_vars, NEW w \in Workers, Assign(w)
  PROVE  /\ C!Open(msg[w]) \/ C!Replace(msg[w])
         /\ Workers = {w} => C!Open(msg[w])
<1> DEFINE m == msg[w]
           k == KeyOf[m]
<1>1. /\ m \in Messages /\ k \in Keys /\ Key(w) = k /\ thrift[w] = m
      /\ offered[m] = 0 /\ holder[k] = w
  BY KeyType DEF Assign, Inductive, IInv, LocalsOK, AccessorOK, RInv, FreshOK, Outside, Key
<1>2. /\ hashTable' = [hashTable EXCEPT ![k] = m]
      /\ UNCHANGED <<offered, arriving, inputQueue, msg>>
  BY <1>1 DEF Assign, outputVars, notWorker
<1>3. pendingBar' = [pendingBar EXCEPT ![k] = m]
  BY <1>1, <1>2 DEF pendingBar, Inductive, IInv, TypeOK
<1>4. reportsBar' = reportsBar
  BY <1>2, ReportsFrame
<1>5. m \notin doneBar /\ doneBar' = doneBar \cup {m}
  BY <1>2, DoneAdds DEF Assign, Goto
<1>6. C!Handle(m, m, {})
  BY <1>3, <1>4, <1>5 DEF C!Handle
<1>7. Workers = {w} => pendingBar[k] = None
  BY <1>1, DistinctAssumption DEF Assign, MInv, SoleOK, pendingBar
<1> QED BY <1>6, <1>7 DEF C!Open, C!Replace, C!Waiting

\* Worker.cpp:115: the timeout handler hands over what waits under its key.
LEMMA TimeoutPushMaps ==
  ASSUME Inductive, [Next]_vars, TimeoutPush
  PROVE  C!Expire(KeyOf[fired])
<1> DEFINE r == flushing
           k == KeyOf[fired]
<1>1. /\ r \in Messages /\ k \in Keys /\ hashTable[k] = r /\ offered[r] = 0 /\ Own(r)
  BY FlushingFacts, DistinctAssumption DEF TimeoutPush, Inductive, RInv, TableOK, WorkerAt
<1>2. TryPush(r) /\ UNCHANGED <<hashTable, recordVars, queueVars, workerVars>>
  BY DEF TimeoutPush, notMain, tableVars
<1>3. pendingBar[k] = r /\ pendingBar' = [pendingBar EXCEPT ![k] = None]
  BY <1>1, <1>2, PendingRemove
<1>4. [req |-> reqList[r], resp |-> respList[r]] = C!Alone(r)
  BY <1>1 DEF Own, C!Alone, C!Pair
<1>5. reportsBar' = reportsBar \cup {C!Alone(r)}
  BY <1>1, <1>2, <1>4, ReportsAdd
<1>6. doneBar' = doneBar
  BY <1>2, DoneFrame DEF queueVars, workerVars
<1> QED BY <1>1, <1>3, <1>5, <1>6, DistinctAssumption DEF C!Expire

\* Taking a message from a queue, and putting it down, is no step of Correlation.
LEMMA PopDone ==
  ASSUME Inductive, MInv, NEW w \in Workers, Pop(w)
  PROVE  doneBar' = doneBar
<1> DEFINE h == Head(inputQueue[w])
<1>1. /\ inputQueue \in [Workers -> Seq(Messages)] /\ inputQueue[w] # <<>> /\ h \in Messages
      /\ inputQueue' = [inputQueue EXCEPT ![w] = Tail(@)]
      /\ msg' = [msg EXCEPT ![w] = h] /\ wpc' = [wpc EXCEPT ![w] = "parse"]
      /\ UNCHANGED arriving
  BY DEF Pop, Goto, notWorker, Inductive, IInv, TypeOK
<1>2. msg[w] = None
  BY DEF Pop, MInv, IdleOK
<1>3. \A v \in Workers : /\ wpc'[v] = (IF v = w THEN "parse" ELSE wpc[v])
                         /\ msg'[v] = (IF v = w THEN h ELSE msg[v])
  BY <1>1 DEF Inductive, IInv, TypeOK
<1>4. \A m \in Messages : m # h => (Taken(m)' <=> Taken(m))
  <2> SUFFICES ASSUME NEW m \in Messages, m # h PROVE Taken(m)' <=> Taken(m)
    OBVIOUS
  <2>1. (\A i \in DOMAIN Tail(inputQueue[w]) : Tail(inputQueue[w])[i] # m)
          <=> (\A i \in DOMAIN inputQueue[w] : inputQueue[w][i] # m)
    <3> DEFINE q == inputQueue[w]
    <3>1. /\ q \in Seq(Messages) /\ q # <<>> /\ q[1] = h
          /\ DOMAIN q = 1 .. Len(q) /\ DOMAIN Tail(q) = 1 .. Len(q) - 1
          /\ \A i \in 1 .. Len(q) - 1 : Tail(q)[i] = q[i + 1]
          /\ Len(q) \in Nat
      BY <1>1
    <3>2. ASSUME NEW i \in DOMAIN q, q[i] = m PROVE i - 1 \in DOMAIN Tail(q) /\ Tail(q)[i - 1] = m
      BY <3>1, <3>2
    <3>3. ASSUME NEW i \in DOMAIN Tail(q), Tail(q)[i] = m PROVE i + 1 \in DOMAIN q /\ q[i + 1] = m
      BY <3>1, <3>3
    <3> QED BY <3>2, <3>3
  <2> QED BY <1>1, <2>1 DEF Taken
<1>5. h \notin doneBar
  <2>1. 1 \in DOMAIN inputQueue[w] /\ inputQueue[w][1] = h
    BY <1>1
  <2> QED BY <2>1 DEF doneBar, Taken
<1>6. h \notin doneBar'
  BY <1>3 DEF doneBar
<1>7. ASSUME NEW m \in Messages, m # h PROVE m \in doneBar' <=> m \in doneBar
  BY <1>2, <1>3, <1>4, <1>7, DistinctAssumption DEF doneBar
<1> QED BY <1>5, <1>6, <1>7 DEF doneBar

\* The end of an iteration finishes no further message.
LEMMA EndDone ==
  ASSUME Inductive, NEW w \in Workers, EndIteration(w)
  PROVE  doneBar' = doneBar
<1>1. \A v \in Workers : /\ wpc'[v] = (IF v = w THEN "pop" ELSE wpc[v])
                         /\ msg'[v] = (IF v = w THEN None ELSE msg[v])
  BY DEF EndIteration, Goto, Inductive, IInv, TypeOK
<1>2. wpc[w] = "end" /\ UNCHANGED <<arriving, inputQueue>>
  BY DEF EndIteration, notWorker
<1> QED BY <1>1, <1>2, DistinctAssumption DEF doneBar, Taken

\* So is the arrival of a message: it moves from one place before the workers to
\* another.
LEMMA ReceiveDone ==
  ASSUME Inductive, NEW m \in Messages, NEW w \in Workers, Receive(m, w)
  PROVE  doneBar' = doneBar
<1>1. /\ inputQueue \in [Workers -> Seq(Messages)] /\ m \in arriving /\ arriving' = arriving \ {m}
      /\ inputQueue' = [inputQueue EXCEPT ![w] = Append(@, m)]
      /\ UNCHANGED <<msg, wpc>>
  BY DEF Receive, workerVars, Inductive, IInv, TypeOK
<1>2. ASSUME NEW n \in Messages PROVE Taken(n)' <=> Taken(n)
  <2> DEFINE q == inputQueue[w]
             l == Len(q) + 1
  <2>1. /\ q \in Seq(Messages) /\ DOMAIN q = 1 .. Len(q) /\ Len(q) \in Nat
        /\ DOMAIN Append(q, m) = 1 .. l /\ Append(q, m)[l] = m
        /\ \A i \in 1 .. Len(q) : Append(q, m)[i] = q[i]
    BY <1>1
  <2>2. inputQueue'[w] = Append(q, m) /\ \A v \in Workers : v # w => inputQueue'[v] = inputQueue[v]
    BY <1>1
  <2>3. CASE n = m
    <3>1. l \in DOMAIN inputQueue'[w] /\ inputQueue'[w][l] = m
      BY <2>1, <2>2
    <3> QED BY <1>1, <2>3, <3>1 DEF Taken
  <2>4. CASE n # m
    <3>1. (\A i \in DOMAIN Append(q, m) : Append(q, m)[i] # n) <=> (\A i \in DOMAIN q : q[i] # n)
      BY <2>1, <2>4
    <3>2. n \in arriving' <=> n \in arriving
      BY <1>1, <2>4
    <3> QED BY <2>2, <3>1, <3>2 DEF Taken
  <2> QED BY <2>3, <2>4
<1> QED BY <1>1, <1>2 DEF doneBar

\* What depends on the table and on the history of try_push.
LEMMA PendingFrame ==
  ASSUME UNCHANGED <<hashTable, offered>>
  PROVE  pendingBar' = pendingBar
BY DEF pendingBar

\* All other steps of a worker stutter.
LEMMA WorkerStutters ==
  ASSUME Inductive, MInv, [Next]_vars, NEW w \in Workers, HandleRadiusMessage(w), ~Push(w),
  ~Assign(w)
  PROVE  UNCHANGED C!vars
<1>1. UNCHANGED offered
  BY DEF HandleRadiusMessage, Pop, Leave, Parse, ParseThrows, Find, Fill, Erase, Arm, Insert,
         EndIteration,
         outputVars
<1>2. reportsBar' = reportsBar
  BY <1>1, ReportsFrame
<1>3. doneBar' = doneBar
  <2>1. CASE Pop(w) \/ EndIteration(w)
    BY <2>1, PopDone, EndDone
  <2>2. CASE ~Pop(w) /\ ~EndIteration(w)
    <3>1. msg[w] \in Messages => (wpc[w] \in {"erase", "end"} <=> wpc'[w] \in {"erase", "end"})
      BY <2>2, DistinctAssumption
         DEF HandleRadiusMessage, Leave, Parse, ParseThrows, Find, Fill, Erase, Arm, Insert, Goto,
             Inductive, IInv, TypeOK
    <3>2. UNCHANGED <<arriving, inputQueue, msg>>
      BY <2>2 DEF HandleRadiusMessage, Leave, Parse, ParseThrows, Find, Fill, Erase, Arm, Insert,
                  notWorker
    <3> QED BY <3>1, <3>2, DoneFrame, WorkerFrame DEF Inductive
  <2> QED BY <2>1, <2>2
<1>4. pendingBar' = pendingBar
  <2>1. CASE Erase(w)
    <3>1. /\ hashTable[Key(w)] = thrift[w] /\ thrift[w] \in Messages /\ Key(w) \in Keys
          /\ offered[thrift[w]] > 0 /\ hashTable' = [hashTable EXCEPT ![Key(w)] = None]
      BY <2>1, KeyType DEF Erase, EraseEntry, Inductive, IInv, LocalsOK, RInv, HeldOK, MInv, MatchOK
    <3> QED BY <1>1, <3>1, PendingErase
  <2>2. CASE Insert(w)
    <3>1. \A k \in Keys : hashTable'[k] \in Messages \/ hashTable[k] \in Messages
                            => hashTable'[k] = hashTable[k]
      BY <2>2, KeyType, DistinctAssumption DEF Insert, Inductive, IInv, TypeOK
    <3> QED BY <1>1, <3>1 DEF pendingBar
  <2>3. CASE ~Erase(w) /\ ~Insert(w)
    BY <1>1, <2>3, PendingFrame
       DEF HandleRadiusMessage, Pop, Leave, Parse, ParseThrows, Find, Fill, Arm, EndIteration,
           tableVars
  <2> QED BY <2>1, <2>2, <2>3
<1> QED BY <1>2, <1>3, <1>4 DEF C!vars

\* So do those of the timeout handler ...
LEMMA TimeoutStutters ==
  ASSUME Inductive, MInv, [Next]_vars, HandleTimeout, ~TimeoutPush
  PROVE  UNCHANGED C!vars
<1>1. UNCHANGED <<offered, arriving, inputQueue, msg, wpc>>
  BY DEF HandleTimeout, TimeoutAborted, TimeoutRun, TimeoutFind, TimeoutErase, TimeoutCount,
         outputVars, notMain, queueVars, workerVars
<1>2. reportsBar' = reportsBar
  BY <1>1, ReportsFrame
<1>3. doneBar' = doneBar
  BY <1>1, DoneFrame
<1>4. pendingBar' = pendingBar
  <2>1. CASE TimeoutErase
    <3>1. /\ flushing \in Messages /\ KeyOf[fired] \in Keys /\ hashTable[KeyOf[fired]] = flushing
          /\ offered[flushing] > 0 /\ hashTable' = [hashTable EXCEPT ![KeyOf[fired]] = None]
      BY <2>1, FlushingFacts DEF TimeoutErase, EraseEntry, Inductive, MInv, MatchOK
    <3> QED BY <1>1, <3>1, PendingErase
  <2>2. CASE ~TimeoutErase
    BY <1>1, <2>2, PendingFrame
       DEF HandleTimeout, TimeoutAborted, TimeoutRun, TimeoutFind, TimeoutCount, tableVars
  <2> QED BY <2>1, <2>2
<1> QED BY <1>2, <1>3, <1>4 DEF C!vars

\* ... of the timers and of the neighbours.
LEMMA NeighbourStutters ==
  ASSUME Inductive, [Next]_vars, Environment \/ \E r \in Messages : Expire(r)
  PROVE  UNCHANGED C!vars
<1>1. UNCHANGED <<hashTable, offered, wpc>>
  BY DEF Environment, Receive, SenderTake, SenderDrop, Shutdown, Stop, Expire, tableVars,
         outputVars, workerVars, notMain
<1>2. reportsBar' = reportsBar /\ pendingBar' = pendingBar
  BY <1>1, ReportsFrame, PendingFrame
<1>3. doneBar' = doneBar
  <2>1. ASSUME NEW m \in Messages, NEW w \in Workers, Receive(m, w) PROVE doneBar' = doneBar
    BY <2>1, ReceiveDone
  <2>2. ASSUME SenderTake \/ SenderDrop \/ Shutdown \/ (\E w \in Workers : Stop(w))
                 \/ \E r \in Messages : Expire(r)
        PROVE  doneBar' = doneBar
    BY <1>1, <2>2, DoneFrame
       DEF SenderTake, SenderDrop, Shutdown, Stop, Expire, queueVars, workerVars, notMain
  <2> QED BY <2>1, <2>2 DEF Environment
<1> QED BY <1>2, <1>3 DEF C!vars

\* Every step is a step of Correlation or none, and with one worker never Replace.
LEMMA StepMaps ==
  ASSUME Inductive, MInv, [Next]_vars
  PROVE  /\ [C!Next]_(C!vars)
         /\ \A w : Workers = {w} => [C!StrictNext]_(C!vars)
<1>1. ASSUME NEW w \in Workers, Push(w)
      PROVE  \E m \in Messages : C!Match(m) \/ C!Clash(m)
  BY <1>1, PushMaps, KeyType DEF Push, Inductive
<1>2. ASSUME NEW w \in Workers, Assign(w)
      PROVE  \E m \in Messages : (C!Open(m) \/ C!Replace(m)) /\ (Workers = {w} => C!Open(m))
  BY <1>2, AssignMaps, KeyType DEF Assign, Inductive
<1>3. ASSUME TimeoutPush PROVE \E k \in Keys : C!Expire(k)
  BY <1>3, TimeoutPushMaps, FlushingFacts DEF TimeoutPush, Inductive
<1>4. CASE UNCHANGED vars
  <2>1. UNCHANGED <<hashTable, offered, arriving, inputQueue, msg, wpc>>
    BY <1>4 DEF vars, tableVars, outputVars, queueVars, workerVars
  <2>2. UNCHANGED C!vars
    BY <2>1, ReportsFrame, PendingFrame, DoneFrame DEF C!vars
  <2> QED BY <2>2
<1>5. CASE \E w \in Workers : HandleRadiusMessage(w) /\ ~Push(w) /\ ~Assign(w)
  BY <1>5, WorkerStutters
<1>6. CASE \E w \in Workers : Push(w)
  BY <1>1, <1>6 DEF C!Next, C!StrictNext
<1>7. CASE \E w \in Workers : Assign(w)
  BY <1>2, <1>7 DEF C!Next, C!StrictNext
<1>8. CASE HandleTimeout
  BY <1>3, <1>8, TimeoutStutters DEF C!Next, C!StrictNext
<1>9. CASE Environment \/ \E r \in Messages : Expire(r)
  BY <1>9, NeighbourStutters
<1> QED BY <1>4, <1>5, <1>6, <1>7, <1>8, <1>9 DEF Next, Step, Terminated

\* All three layers and the count of timeouts hold at every step.
THEOREM MappingInduction == Spec => [](MInv /\ CountOK)
<1>1. Inductive => IInv /\ RInv
  BY DEF Inductive
<1>2. Inductive /\ MInv /\ CountOK /\ [Next]_vars => MInv' /\ CountOK'
  BY <1>1, NextMInv, NextCountOK
<1> QED BY <1>2, InitMInv, RecordInduction, PTL DEF Spec

\* Whatever the interleaving of workers, timers and timeout handlers, each
\* message takes effect in one step and each record leaves in one: the engine
\* of Worker.cpp implements Correlation.
THEOREM EngineRefinesCorrelation == Spec => ImplementsCorrelation
<1>1. Inductive /\ MInv /\ [Next]_vars => [C!Next]_(C!vars)
  BY StepMaps
<1> QED BY <1>1, InitMaps, RecordInduction, MappingInduction, PTL
        DEF Spec, ImplementsCorrelation, C!Spec

\* One worker never replaces an entry: only between another's find and its
\* insert can a record get there.
THEOREM SoleEngineIsStrict ==
  ASSUME NEW w, Workers = {w}
  PROVE  Spec => ImplementsStrictCorrelation
<1>1. Inductive /\ MInv /\ [Next]_vars => [C!StrictNext]_(C!vars)
  BY StepMaps
<1> QED BY <1>1, InitMaps, RecordInduction, MappingInduction, PTL
        DEF Spec, ImplementsStrictCorrelation, C!StrictSpec

\* The number of timeouts that stopModules prints (RadiusEventHandler.cpp:99) never
\* exceeds that of the records that left with one list.
THEOREM TimeoutsSound == Spec => []UnmatchedSound
<1>1. Inductive /\ CountOK => UnmatchedSound
  <2> SUFFICES ASSUME Inductive, CountOK PROVE UnmatchedSound
    OBVIOUS
  <2>1. Cardinality(UnmatchedRecords) \in Nat
    BY FS_CardinalityType DEF CountOK
  <2>2. unmatchedReqsNum \in Nat
    BY DEF Inductive, IInv, TypeOK
  <2>3. unmatchedReqsNum + (IF mpc = "count" THEN 1 ELSE 0) <= Cardinality(UnmatchedRecords)
    BY <2>1, <2>2 DEF CountOK
  <2> QED BY <2>3 DEF UnmatchedSound, UnmatchedRecords
<1> QED BY <1>1, RecordInduction, MappingInduction, PTL

-----------------------------------------------------------------------------
(* What the engine inherits from Correlation *)

P == INSTANCE CorrelationProofs WITH pending <- pendingBar, reports <- reportsBar, done <- doneBar

\* The attributes of one message leave in one record only, and not while the
\* message still waits in the table, however the threads interleave.
COROLLARY MessagesLeaveOnce == Spec => []C!ReportedOnce
<1>1. C!Init => P!CInv
  BY P!InitCInv, KeyAssumption, DistinctAssumption DEF C!Init, P!Init
<1>2. P!CInv /\ [C!Next]_(C!vars) => P!CInv'
  <2>1. C!Next => P!Next
    BY DEF C!Next, C!Replace, C!StrictNext, C!Open, C!Match, C!Clash, C!Expire, C!Handle,
           C!Waiting, C!SameKind, C!Alone, C!Pair, P!Next, P!Replace, P!StrictNext, P!Open,
           P!Match, P!Clash, P!Expire, P!Handle, P!Waiting, P!SameKind, P!Alone, P!Pair
  <2>2. UNCHANGED C!vars => UNCHANGED P!vars
    BY DEF C!vars, P!vars
  <2> QED BY <2>1, <2>2, P!NextCInv, KeyAssumption, DistinctAssumption
<1>3. P!CInv => C!ReportedOnce
  BY DEF P!CInv, P!ReportedOnce, P!Members, C!ReportedOnce, C!Members
<1> QED BY <1>1, <1>2, <1>3, EngineRefinesCorrelation, PTL DEF ImplementsCorrelation, C!Spec

\* README.md:2 for one worker: a message it has handled waits, was given to the
\* sender's queue, or met a message of its own kind and flow.
THEOREM SoleEngineKeeps ==
  ASSUME NEW w, Workers = {w}
  PROVE  Spec => []OnlyDuplicatesDiscarded
<1>1. C!Init => P!SInv
  BY P!InitSInv, KeyAssumption, DistinctAssumption DEF C!Init, P!Init
<1>2. P!SInv /\ [C!StrictNext]_(C!vars) => P!SInv'
  <2>1. C!StrictNext => P!StrictNext
    BY DEF C!StrictNext, C!Open, C!Match, C!Clash, C!Expire, C!Handle, C!Waiting, C!SameKind,
           C!Alone,
           C!Pair, P!StrictNext, P!Open, P!Match, P!Clash, P!Expire, P!Handle, P!Waiting,
           P!SameKind,
           P!Alone, P!Pair
  <2>2. UNCHANGED C!vars => UNCHANGED P!vars
    BY DEF C!vars, P!vars
  <2> QED BY <2>1, <2>2, P!StrictNextSInv, KeyAssumption, DistinctAssumption
<1>3. P!SInv => OnlyDuplicatesDiscarded
  BY DEF P!SInv, P!OnlyDuplicatesDiscarded, OnlyDuplicatesDiscarded, C!OnlyDuplicatesDiscarded,
         C!Waiting, C!SameKind, C!Alone, C!Pair, C!Members,
         P!Waiting, P!SameKind, P!Alone, P!Pair, P!Members
<1> QED BY <1>1, <1>2, <1>3, SoleEngineIsStrict, PTL DEF ImplementsStrictCorrelation, C!StrictSpec
=============================================================================
