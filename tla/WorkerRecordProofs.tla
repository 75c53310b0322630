------------------------- MODULE WorkerRecordProofs -------------------------
(***************************************************************************)
(* Proofs about the records of Worker: RInv, the second layer of the       *)
(* inductive invariant, and the properties of the records that follow.     *)
(***************************************************************************)
EXTENDS WorkerProofs

\* The layer holds when the program starts.
LEMMA InitRInv == Init => RInv
BY KeyAssumption, DistinctAssumption
   DEF Init, RInv, OnceOK, FreshOK, HeldOK, TableOK, ListsOK, OfferedOnce, Unread, Queued, Outside,
       Blank

\* OnceOK depends on the input side only.
LEMMA OnceFrame ==
  ASSUME OnceOK, UNCHANGED <<arriving, inputQueue, msg>>
  PROVE  OnceOK'
BY DEF OnceOK, Unread, Queued

\* ListsOK and OfferedOnce depend on the lists and the history of try_push.
LEMMA ListsFrame ==
  ASSUME ListsOK, OfferedOnce, UNCHANGED <<recordVars, offered>>
  PROVE  ListsOK' /\ OfferedOnce'
BY DEF ListsOK, OfferedOnce, recordVars

\* The steps of the timers, of the sender and of stop disturb nothing here.
LEMMA FrameRInv ==
  ASSUME RInv, UNCHANGED <<arriving, inputQueue, workerVars, tableVars, recordVars, offered, mpc,
                           fired, flushing>>
  PROVE  RInv'
BY OnceFrame, ListsFrame
   DEF RInv, FreshOK, HeldOK, TableOK, Unread, Queued, Outside, Blank, Own, WorkerAt, Key,
       workerVars, tableVars, recordVars

\* What a worker knows of the record it took from the table, until it pushes it.
LEMMA HeldFacts ==
  ASSUME IInv, RInv, NEW w \in Workers, wpc[w] \in {"fill", "push"}
  PROVE  /\ thrift[w] \in Messages /\ msg[w] \in Messages
         /\ Key(w) \in Keys /\ KeyOf[thrift[w]] = Key(w)
         /\ hashTable[Key(w)] = thrift[w] /\ holder[Key(w)] = w
         /\ \A k \in Keys : hashTable[k] = thrift[w] => k = Key(w)
         /\ offered[thrift[w]] = 0
         /\ \A m \in Messages : Outside(m) => m # thrift[w]
<1>1. /\ thrift[w] \in Messages /\ msg[w] \in Messages
      /\ Key(w) \in Keys /\ KeyOf[thrift[w]] = Key(w)
      /\ hashTable[Key(w)] = thrift[w] /\ holder[Key(w)] = w
  BY KeyType DEF IInv, LocalsOK, AccessorOK, RInv, HeldOK
<1>2. \A k \in Keys : hashTable[k] = thrift[w] => k = Key(w)
  BY <1>1 DEF IInv, EntriesOK
<1>3. offered[thrift[w]] = 0
  BY <1>1, DistinctAssumption DEF RInv, TableOK, WorkerAt
<1>4. \A m \in Messages : Outside(m) => m # thrift[w]
  BY <1>1 DEF Outside
<1> QED BY <1>1, <1>2, <1>3, <1>4

\* Every step of handleRadiusMessage keeps the second layer.
LEMMA WorkerStepRInv ==
  ASSUME IInv, IInv', RInv, NEW w \in Workers, HandleRadiusMessage(w)
  PROVE  RInv'
<1> USE KeyAssumption, DistinctAssumption
    DEF IInv, RInv, Goto, notWorker, tableVars, recordVars, outputVars, mainVars,
        Acquire, Release, EraseEntry, OpenLists, FillLists, StartTimer, CancelTimer
<1>1. CASE Pop(w)
  <2>1. OnceOK'
    <3>1. /\ inputQueue[w] \in Seq(Messages) /\ inputQueue[w] # <<>>
          /\ inputQueue' = [inputQueue EXCEPT ![w] = Tail(@)]
          /\ msg' = [msg EXCEPT ![w] = Head(inputQueue[w])]
          /\ arriving' = arriving
      BY <1>1 DEF Pop, TypeOK
    <3>2. /\ Len(inputQueue[w]) >= 1 /\ Len(Tail(inputQueue[w])) = Len(inputQueue[w]) - 1
          /\ Head(inputQueue[w]) = inputQueue[w][1]
          /\ \A i \in 1 .. Len(Tail(inputQueue[w])) : Tail(inputQueue[w])[i] = inputQueue[w][i + 1]
      BY <3>1
    <3> DEFINE Old(v, i) == IF v = w THEN i + 1 ELSE i
    <3>3. ASSUME NEW v \in Workers, NEW i \in 1 .. Len(inputQueue'[v])
          PROVE  /\ Old(v, i) \in 1 .. Len(inputQueue[v])
                 /\ inputQueue'[v][i] = inputQueue[v][Old(v, i)]
      <4>1. inputQueue[v] \in Seq(Messages) /\ inputQueue \in [Workers -> Seq(Messages)]
        BY DEF TypeOK
      <4>2. CASE v = w
        <5>1. inputQueue'[v] = Tail(inputQueue[w])
          BY <3>1, <4>1, <4>2
        <5>2. i + 1 \in 1 .. Len(inputQueue[w]) /\ Tail(inputQueue[w])[i] = inputQueue[w][i + 1]
          <6>1. i \in 1 .. Len(Tail(inputQueue[w]))
            BY <4>2, <5>1
          <6> QED BY <3>1, <3>2, <6>1
        <5> QED BY <4>2, <5>1, <5>2
      <4>3. CASE v # w
        BY <3>1, <4>1, <4>3
      <4> QED BY <4>2, <4>3
    <3>4. \A v \in Workers : \A i \in 1 .. Len(inputQueue'[v]) : inputQueue'[v][i] \notin arriving'
      BY <3>1, <3>3 DEF OnceOK
    <3>5. ASSUME NEW v \in Workers, NEW u \in Workers,
                 NEW i \in 1 .. Len(inputQueue'[v]), NEW j \in 1 .. Len(inputQueue'[u]),
                 inputQueue'[v][i] = inputQueue'[u][j]
          PROVE  v = u /\ i = j
      <4>1. /\ Old(v, i) \in 1 .. Len(inputQueue[v])
            /\ Old(u, j) \in 1 .. Len(inputQueue[u])
            /\ inputQueue[v][Old(v, i)] = inputQueue[u][Old(u, j)]
        BY <3>3, <3>5
      <4>2. v = u /\ Old(v, i) = Old(u, j)
        BY <4>1 DEF OnceOK
      <4> QED BY <4>2
    <3>6. \A m : Unread(m)' => Unread(m) /\ m # inputQueue[w][1]
      <4> SUFFICES ASSUME NEW m, Unread(m)' PROVE Unread(m) /\ m # inputQueue[w][1]
        OBVIOUS
      <4>1. CASE m \in arriving'
        BY <3>1, <3>2, <4>1 DEF Unread, OnceOK
      <4>2. CASE Queued(m)'
        <5>1. PICK v \in Workers : \E i \in 1 .. Len(inputQueue'[v]) : inputQueue'[v][i] = m
          BY <4>2 DEF Queued
        <5>2. PICK i \in 1 .. Len(inputQueue'[v]) : inputQueue'[v][i] = m
          BY <5>1
        <5>3. Old(v, i) \in 1 .. Len(inputQueue[v]) /\ inputQueue[v][Old(v, i)] = m
          BY <3>3, <5>2
        <5>4. inputQueue[w][1] = m => v = w /\ Old(v, i) = 1
          BY <3>2, <5>3 DEF OnceOK
        <5> QED BY <5>3, <5>4 DEF Unread, Queued
      <4> QED BY <4>1, <4>2 DEF Unread
    <3>7. Unread(inputQueue[w][1]) /\ inputQueue[w][1] \in Messages
      BY <3>1, <3>2 DEF Unread, Queued
    <3>8. msg'[w] = inputQueue[w][1] /\ \A v \in Workers : v # w => msg'[v] = msg[v]
      BY <3>1, <3>2 DEF TypeOK
    <3>9. \A v \in Workers, m \in Messages : Unread(m)' => msg'[v] # m
      BY <3>6, <3>8 DEF OnceOK
    <3>10. \A v, u \in Workers : msg'[v] = msg'[u] /\ msg'[v] # None => v = u
      BY <3>7, <3>8 DEF OnceOK
    <3> QED BY <3>4, <3>5, <3>9, <3>10 DEF OnceOK
  <2>2. FreshOK'
    BY <1>1 DEF Pop, TypeOK, FreshOK, LocalsOK, Unread, Queued, Outside, Blank, Own, Pcs
  <2>3. HeldOK'
    BY <1>1 DEF Pop, TypeOK, LocalsOK, AccessorOK, HeldOK, Key, Pcs
  <2>4. TableOK'
    BY <1>1 DEF Pop, TypeOK, LocalsOK, AccessorOK, TableOK, Key, Own, WorkerAt, Pcs
  <2>5. ListsOK' /\ OfferedOnce'
    BY <1>1, ListsFrame DEF Pop
  <2> QED BY <2>1, <2>2, <2>3, <2>4, <2>5
<1>2. CASE Leave(w)
  <2>1. OnceOK'
    BY <1>2, OnceFrame DEF Leave
  <2>2. FreshOK'
    BY <1>2 DEF Leave, TypeOK, FreshOK, LocalsOK, Unread, Queued, Outside, Blank, Own, Pcs
  <2>3. HeldOK'
    BY <1>2 DEF Leave, TypeOK, LocalsOK, AccessorOK, HeldOK, Key, Pcs
  <2>4. TableOK'
    BY <1>2 DEF Leave, TypeOK, LocalsOK, AccessorOK, TableOK, Key, Own, WorkerAt, Pcs
  <2>5. ListsOK' /\ OfferedOnce'
    BY <1>2, ListsFrame DEF Leave
  <2> QED BY <2>1, <2>2, <2>3, <2>4, <2>5
<1>3. CASE Parse(w)
  <2>1. OnceOK'
    BY <1>3, OnceFrame DEF Parse
  <2>2. FreshOK'
    <3>1. \A v \in Workers : wpc'[v] \in {"parse", "find", "arm"} => wpc[v] \in {"parse", "find", "arm"}
      BY <1>3 DEF Parse, TypeOK
    <3>2. \A v \in Workers : wpc'[v] \in {"insert", "assign"} => wpc[v] \in {"insert", "assign"}
      BY <1>3 DEF Parse, TypeOK
    <3>3. UNCHANGED <<arriving, inputQueue, msg, hashTable, offered, reqList, respList>>
      BY <1>3 DEF Parse
    <3> QED BY <3>1, <3>2, <3>3 DEF FreshOK, Unread, Queued, Outside, Blank, Own
  <2>3. HeldOK'
    BY <1>3 DEF Parse, TypeOK, LocalsOK, AccessorOK, HeldOK, Key, Pcs
  <2>4. TableOK'
    BY <1>3 DEF Parse, TypeOK, LocalsOK, AccessorOK, TableOK, Key, Own, WorkerAt, Pcs
  <2>5. ListsOK' /\ OfferedOnce'
    BY <1>3, ListsFrame DEF Parse
  <2> QED BY <2>1, <2>2, <2>3, <2>4, <2>5
<1>4. CASE Find(w)
  <2>1. OnceOK'
    BY <1>4, OnceFrame DEF Find
  <2>2. FreshOK'
    BY <1>4 DEF Find, TypeOK, FreshOK, LocalsOK, Unread, Queued, Outside, Blank, Own, Pcs
  <2>3. HeldOK'
    BY <1>4 DEF Find, TypeOK, LocalsOK, AccessorOK, HeldOK, Key, Pcs
  <2>4. TableOK'
    <3>1. Key(w) \in Keys
      BY <1>4, KeyType DEF Find
    <3>2. /\ wpc[w] = "find" /\ holder[Key(w)] = None
          /\ \/ wpc' = [wpc EXCEPT ![w] = "arm"] /\ holder' = holder
             \/ /\ wpc' = [wpc EXCEPT ![w] = "fill"]
                /\ holder' = [holder EXCEPT ![Key(w)] = w]
          /\ UNCHANGED <<msg, hashTable, recordVars, offered, mpc, fired>>
      BY <1>4 DEF Find
    <3>3. \A k \in Keys : \A pcs \in {{"erase"}, {"push", "erase"}} :
             WorkerAt(k, pcs) => WorkerAt(k, pcs)'
      <4> SUFFICES ASSUME NEW k \in Keys, NEW pcs \in {{"erase"}, {"push", "erase"}},
                          WorkerAt(k, pcs)
                   PROVE  WorkerAt(k, pcs)'
        OBVIOUS
      <4>1. holder[k] \in Workers /\ wpc[holder[k]] \in {"push", "erase"}
        BY DEF WorkerAt
      <4>2. k # Key(w) /\ holder[k] # w
        BY <3>2, <4>1
      <4>3. holder'[k] = holder[k] /\ wpc'[holder[k]] = wpc[holder[k]]
        BY <3>1, <3>2, <4>1, <4>2 DEF TypeOK
      <4> QED BY <3>2, <4>3 DEF WorkerAt, Key
    <3>4. \A k \in Keys : holder[k] = Main => holder'[k] = Main
      BY <3>1, <3>2 DEF TypeOK
    <3> QED BY <3>2, <3>3, <3>4 DEF TableOK, Own
  <2>5. ListsOK' /\ OfferedOnce'
    BY <1>4, ListsFrame DEF Find
  <2> QED BY <2>1, <2>2, <2>3, <2>4, <2>5
<1>5. CASE Fill(w)
  <2> DEFINE r == thrift[w]
  <2>1. /\ \/ UNCHANGED recordVars
           \/ /\ msg[w] \in Requests /\ respList[r] # None /\ respList' = respList
              /\ reqList' = [reqList EXCEPT ![r] = msg[w]]
           \/ /\ msg[w] \notin Requests /\ reqList[r] # None /\ reqList' = reqList
              /\ respList' = [respList EXCEPT ![r] = msg[w]]
        /\ wpc[w] = "fill" /\ wpc' = [wpc EXCEPT ![w] = "push"]
        /\ UNCHANGED <<arriving, inputQueue, msg, thrift, hashTable, holder, offered, mpc, fired,
                       flushing>>
    BY <1>5 DEF Fill
  <2>2. /\ r \in Messages /\ msg[w] \in Messages /\ Key(w) \in Keys /\ KeyOf[r] = Key(w)
        /\ hashTable[Key(w)] = r /\ holder[Key(w)] = w
        /\ \A k \in Keys : hashTable[k] = r => k = Key(w)
        /\ offered[r] = 0
        /\ \A m \in Messages : Outside(m) => m # r
    BY <2>1, HeldFacts
  <2>3. Own(r)
    BY <2>1, <2>2 DEF TableOK, WorkerAt
  <2>4. \A m \in Messages : m # r => reqList'[m] = reqList[m] /\ respList'[m] = respList[m]
    BY <2>1 DEF TypeOK
  <2>5. r \in {reqList'[r], respList'[r]}
    BY <2>1, <2>2, <2>3 DEF TypeOK, Own
  <2>6. OnceOK'
    BY <2>1, OnceFrame
  <2>7. FreshOK'
    <3>1. \A m \in Messages : Outside(m)' <=> Outside(m)
      BY <2>1 DEF Outside
    <3>2. \A m \in Messages : Outside(m) => (Blank(m)' <=> Blank(m)) /\ (Own(m)' <=> Own(m))
      BY <2>2, <2>4 DEF Blank, Own
    <3>3. \A m \in Messages : Unread(m)' <=> Unread(m)
      BY <2>1 DEF Unread, Queued
    <3>4. \A v \in Workers : wpc'[v] \in {"parse", "find", "arm", "insert", "assign"} =>
             wpc[v] = wpc'[v] /\ msg'[v] = msg[v]
      BY <2>1 DEF TypeOK
    <3> QED BY <3>1, <3>2, <3>3, <3>4 DEF FreshOK
  <2>8. HeldOK'
    BY <1>5 DEF Fill, TypeOK, LocalsOK, AccessorOK, HeldOK, Key, Pcs
  <2>9. TableOK'
    <3> SUFFICES ASSUME NEW k \in Keys, NEW t \in Messages, hashTable[k] = t
                 PROVE  /\ \/ offered[t] = 0
                           \/ WorkerAt(k, {"erase"})'
                           \/ holder[k] = Main /\ mpc = "erase" /\ KeyOf[fired] = k
                        /\ Own(t)' \/ WorkerAt(k, {"push", "erase"})'
                        /\ t \in {reqList'[t], respList'[t]}
      BY <2>1 DEF TableOK
    <3>1. CASE k = Key(w)
      <4>1. WorkerAt(k, {"push", "erase"})'
        BY <2>1, <2>2, <3>1 DEF WorkerAt, Key, TypeOK
      <4> QED BY <2>2, <2>5, <3>1, <4>1
    <3>2. CASE k # Key(w)
      <4>1. t # r
        BY <2>2, <3>2
      <4>2. \A pcs \in {{"erase"}, {"push", "erase"}} : WorkerAt(k, pcs) => WorkerAt(k, pcs)'
        BY <2>1, <3>2 DEF WorkerAt, Key, TypeOK
      <4>3. Own(t)' <=> Own(t)
        BY <2>1, <2>4, <4>1 DEF Own
      <4> QED BY <2>4, <4>1, <4>2, <4>3 DEF TableOK
    <3> QED BY <3>1, <3>2
  <2>10. ListsOK' /\ OfferedOnce'
    <3>1. /\ reqList'[r] # None => reqList'[r] \in Requests /\ KeyOf[reqList'[r]] = KeyOf[r]
          /\ respList'[r] # None =>
               respList'[r] \in Messages \ Requests /\ KeyOf[respList'[r]] = KeyOf[r]
      BY <2>1, <2>2 DEF ListsOK, Key, TypeOK, recordVars
    <3> QED BY <2>1, <2>2, <2>4, <3>1 DEF ListsOK, OfferedOnce
  <2> QED BY <2>6, <2>7, <2>8, <2>9, <2>10
<1>6. CASE Push(w)
  <2> DEFINE r == thrift[w]
  <2>1. /\ wpc[w] = "push" /\ wpc' = [wpc EXCEPT ![w] = "erase"]
        /\ offered' = [offered EXCEPT ![r] = @ + 1]
        /\ UNCHANGED <<arriving, inputQueue, msg, thrift, hashTable, holder, reqList, respList, mpc,
                       fired, flushing>>
    BY <1>6 DEF Push, TryPush
  <2>2. /\ r \in Messages /\ msg[w] \in Messages /\ Key(w) \in Keys /\ KeyOf[r] = Key(w)
        /\ hashTable[Key(w)] = r /\ holder[Key(w)] = w
        /\ \A k \in Keys : hashTable[k] = r => k = Key(w)
        /\ offered[r] = 0
        /\ \A m \in Messages : Outside(m) => m # r
    BY <2>1, HeldFacts
  <2>3. offered'[r] = 1 /\ \A m \in Messages : m # r => offered'[m] = offered[m]
    BY <2>1, <2>2 DEF TypeOK
  <2>4. OnceOK'
    BY <2>1, OnceFrame
  <2>5. FreshOK'
    <3>1. \A m \in Messages : Outside(m) => Outside(m)'
      BY <2>1, <2>2, <2>3 DEF Outside
    <3>2. \A m \in Messages : (Blank(m)' <=> Blank(m)) /\ (Own(m)' <=> Own(m))
                             /\ (Unread(m)' <=> Unread(m))
      BY <2>1 DEF Blank, Own, Unread, Queued
    <3>3. \A v \in Workers : wpc'[v] \in {"parse", "find", "arm", "insert", "assign"} =>
             wpc[v] = wpc'[v] /\ msg'[v] = msg[v]
      BY <2>1 DEF TypeOK
    <3> QED BY <3>1, <3>2, <3>3, <2>1 DEF FreshOK
  <2>6. HeldOK'
    BY <1>6 DEF Push, TypeOK, LocalsOK, AccessorOK, HeldOK, Key, Pcs
  <2>7. TableOK'
    <3> SUFFICES ASSUME NEW k \in Keys, NEW t \in Messages, hashTable[k] = t
                 PROVE  /\ \/ offered'[t] = 0
                           \/ WorkerAt(k, {"erase"})'
                           \/ holder[k] = Main /\ mpc = "erase" /\ KeyOf[fired] = k
                        /\ Own(t) \/ WorkerAt(k, {"push", "erase"})'
                        /\ t \in {reqList[t], respList[t]}
      BY <2>1 DEF TableOK, Own
    <3>1. CASE k = Key(w)
      <4>1. WorkerAt(k, {"push", "erase"})' /\ WorkerAt(k, {"erase"})'
        BY <2>1, <2>2, <3>1 DEF WorkerAt, Key, TypeOK
      <4> QED BY <4>1 DEF TableOK
    <3>2. CASE k # Key(w)
      <4>1. t # r
        BY <2>2, <3>2
      <4>2. \A pcs \in {{"erase"}, {"push", "erase"}} : WorkerAt(k, pcs) => WorkerAt(k, pcs)'
        BY <2>1, <3>2 DEF WorkerAt, Key, TypeOK
      <4> QED BY <2>3, <4>1, <4>2 DEF TableOK
    <3> QED BY <3>1, <3>2
  <2>8. r \in {reqList[r], respList[r]}
    BY <2>2 DEF TableOK
  <2>9. ListsOK' /\ OfferedOnce'
    BY <2>1, <2>3, <2>8 DEF ListsOK, OfferedOnce
  <2> QED BY <2>4, <2>5, <2>6, <2>7, <2>9
<1>7. CASE Erase(w)
  <2>1. OnceOK'
    BY <1>7, OnceFrame DEF Erase
  <2>2. FreshOK'
    BY <1>7 DEF Erase, TypeOK, FreshOK, LocalsOK, Unread, Queued, Outside, Blank, Own, Pcs
  <2>3. HeldOK'
    BY <1>7 DEF Erase, TypeOK, LocalsOK, AccessorOK, HeldOK, Key, Pcs
  <2>4. TableOK'
    BY <1>7 DEF Erase, TypeOK, LocalsOK, AccessorOK, TableOK, Key, Own, WorkerAt, Pcs
  <2>5. ListsOK' /\ OfferedOnce'
    BY <1>7, ListsFrame DEF Erase
  <2> QED BY <2>1, <2>2, <2>3, <2>4, <2>5
<1>8. CASE Arm(w)
  <2> DEFINE r == msg[w]
  <2>1. /\ wpc[w] = "arm" /\ wpc' = [wpc EXCEPT ![w] = "insert"]
        /\ reqList' = [reqList EXCEPT ![r] = IF r \in Requests THEN r ELSE @]
        /\ respList' = [respList EXCEPT ![r] = IF r \in Requests THEN @ ELSE r]
        /\ UNCHANGED <<arriving, inputQueue, msg, hashTable, holder, offered, mpc, fired, flushing>>
    BY <1>8 DEF Arm
  <2>2. r \in Messages /\ r # None
    BY <2>1, KeyType
  <2>3. Outside(r) /\ Blank(r)
    BY <2>1, <2>2 DEF FreshOK
  <2>4. \A m \in Messages : m # r => reqList'[m] = reqList[m] /\ respList'[m] = respList[m]
    BY <2>1 DEF TypeOK
  <2>5. Own(r)'
    BY <2>1, <2>2, <2>3 DEF TypeOK, Own, Blank
  <2>6. OnceOK'
    BY <2>1, OnceFrame
  <2>7. FreshOK'
    <3>1. \A m \in Messages : (Outside(m)' <=> Outside(m)) /\ (Unread(m)' <=> Unread(m))
      BY <2>1 DEF Outside, Unread, Queued
    <3>2. \A m \in Messages : m # r => (Blank(m)' <=> Blank(m)) /\ (Own(m)' <=> Own(m))
      BY <2>4 DEF Blank, Own
    <3>3. \A m \in Messages : Unread(m) => m # r
      BY <2>1 DEF OnceOK
    <3>4. \A v \in Workers : v # w => wpc'[v] = wpc[v] /\ (msg[v] = None \/ msg[v] # r)
      BY <2>1, <2>2 DEF TypeOK, OnceOK
    <3>5. wpc'[w] = "insert"
      BY <2>1 DEF TypeOK
    <3> QED BY <2>1, <2>3, <2>5, <3>1, <3>2, <3>3, <3>4, <3>5 DEF FreshOK
  <2>8. HeldOK'
    BY <1>8 DEF Arm, TypeOK, LocalsOK, AccessorOK, HeldOK, Key, Pcs
  <2>9. TableOK'
    BY <1>8 DEF Arm, TypeOK, LocalsOK, AccessorOK, TableOK, Key, Own, WorkerAt, Pcs
  <2>10. ListsOK' /\ OfferedOnce'
    <3>1. /\ offered[r] = 0
          /\ reqList'[r] # None => reqList'[r] = r /\ r \in Requests
          /\ respList'[r] # None => respList'[r] = r /\ r \notin Requests
      BY <2>1, <2>3, <2>5 DEF Outside, Own
    <3> QED BY <2>1, <2>2, <2>4, <3>1 DEF ListsOK, OfferedOnce
  <2> QED BY <2>6, <2>7, <2>8, <2>9, <2>10
<1>9. CASE Insert(w)
  <2>1. OnceOK'
    BY <1>9, OnceFrame DEF Insert
  <2>2. FreshOK'
    BY <1>9 DEF Insert, TypeOK, FreshOK, LocalsOK, Unread, Queued, Outside, Blank, Own, Pcs
  <2>3. HeldOK'
    BY <1>9 DEF Insert, TypeOK, LocalsOK, AccessorOK, HeldOK, Key, Pcs
  <2>4. TableOK'
    BY <1>9 DEF Insert, TypeOK, LocalsOK, AccessorOK, TableOK, Key, Own, WorkerAt, Pcs
  <2>5. ListsOK' /\ OfferedOnce'
    BY <1>9, ListsFrame DEF Insert
  <2> QED BY <2>1, <2>2, <2>3, <2>4, <2>5
<1>10. CASE Assign(w)
  <2> DEFINE r == msg[w]
  <2>1. /\ wpc[w] = "assign" /\ wpc' = [wpc EXCEPT ![w] = "end"]
        /\ hashTable' = [hashTable EXCEPT ![Key(w)] = r]
        /\ holder' = [holder EXCEPT ![Key(w)] = None]
        /\ UNCHANGED <<arriving, inputQueue, msg, offered, reqList, respList, mpc, fired, flushing>>
    BY <1>10 DEF Assign, LocalsOK
  <2>2. r \in Messages /\ r # None /\ Key(w) \in Keys /\ holder[Key(w)] = w
    BY <2>1, KeyType DEF AccessorOK
  <2>3. Outside(r) /\ Own(r)
    BY <2>1, <2>2 DEF FreshOK
  <2>4. OnceOK'
    BY <2>1, OnceFrame
  <2>5. FreshOK'
    <3>1. \A m \in Messages : m # r => (Outside(m) => Outside(m)')
      BY <2>1 DEF Outside, TypeOK
    <3>2. \A m \in Messages : (Blank(m)' <=> Blank(m)) /\ (Own(m)' <=> Own(m))
                             /\ (Unread(m)' <=> Unread(m))
      BY <2>1 DEF Blank, Own, Unread, Queued
    <3>3. \A m \in Messages : Unread(m) => m # r
      BY <2>1 DEF OnceOK
    <3>4. \A v \in Workers : v # w => wpc'[v] = wpc[v] /\ (msg[v] = None \/ msg[v] # r)
      BY <2>1, <2>2 DEF TypeOK, OnceOK
    <3>5. wpc'[w] = "end"
      BY <2>1 DEF TypeOK
    <3> QED BY <2>1, <3>1, <3>2, <3>3, <3>4, <3>5 DEF FreshOK
  <2>6. HeldOK'
    BY <1>10 DEF Assign, TypeOK, LocalsOK, AccessorOK, HeldOK, Key, Pcs
  <2>7. TableOK'
    <3> SUFFICES ASSUME NEW k \in Keys, NEW t \in Messages, hashTable'[k] = t
                 PROVE  /\ \/ offered[t] = 0
                           \/ WorkerAt(k, {"erase"})'
                           \/ holder'[k] = Main /\ mpc = "erase" /\ KeyOf[fired] = k
                        /\ Own(t) \/ WorkerAt(k, {"push", "erase"})'
                        /\ t \in {reqList[t], respList[t]}
      BY <2>1 DEF TableOK, Own
    <3>1. CASE k = Key(w)
      <4>1. t = r
        BY <2>1, <2>2, <3>1 DEF TypeOK
      <4> QED BY <2>3, <4>1 DEF Outside, Own
    <3>2. CASE k # Key(w)
      <4>1. hashTable[k] = t /\ holder'[k] = holder[k]
        BY <2>1, <3>2 DEF TypeOK
      <4>2. \A pcs \in {{"erase"}, {"push", "erase"}} : WorkerAt(k, pcs) => WorkerAt(k, pcs)'
        BY <2>1, <3>2 DEF WorkerAt, Key, TypeOK
      <4> QED BY <4>1, <4>2 DEF TableOK
    <3> QED BY <3>1, <3>2
  <2>8. ListsOK' /\ OfferedOnce'
    BY <1>10, ListsFrame DEF Assign
  <2> QED BY <2>4, <2>5, <2>6, <2>7, <2>8
<1>11. CASE EndIteration(w)
  <2>1. OnceOK'
    <3>1. /\ arriving' = arriving /\ inputQueue' = inputQueue
          /\ msg' = [msg EXCEPT ![w] = None]
      BY <1>11 DEF EndIteration
    <3>2. \A m : Unread(m)' <=> Unread(m)
      BY <3>1 DEF Unread, Queued
    <3>3. \A v \in Workers : msg'[v] \in {msg[v], None} /\ (v # w => msg'[v] = msg[v])
      BY <3>1 DEF TypeOK
    <3>4. msg'[w] = None
      BY <3>1 DEF TypeOK
    <3>5. \A v \in Workers, m \in Messages : Unread(m)' => msg'[v] # m
      BY <3>2, <3>3 DEF OnceOK
    <3>6. \A v, u \in Workers : msg'[v] = msg'[u] /\ msg'[v] # None => v = u
      BY <3>3, <3>4 DEF OnceOK
    <3> QED BY <3>1, <3>5, <3>6 DEF OnceOK
  <2>2. FreshOK'
    BY <1>11 DEF EndIteration, TypeOK, FreshOK, LocalsOK, Unread, Queued, Outside, Blank, Own, Pcs
  <2>3. HeldOK'
    BY <1>11 DEF EndIteration, TypeOK, LocalsOK, AccessorOK, HeldOK, Key, Pcs
  <2>4. TableOK'
    BY <1>11 DEF EndIteration, TypeOK, LocalsOK, AccessorOK, TableOK, Key, Own, WorkerAt, Pcs
  <2>5. ListsOK' /\ OfferedOnce'
    BY <1>11, ListsFrame DEF EndIteration
  <2> QED BY <2>1, <2>2, <2>3, <2>4, <2>5
<1>12. CASE ParseThrows(w)
  <2>1. OnceOK'
    BY <1>12, OnceFrame DEF ParseThrows
  <2>2. FreshOK'
    BY <1>12 DEF ParseThrows, TypeOK, FreshOK, LocalsOK, Unread, Queued, Outside, Blank, Own, Pcs
  <2>3. HeldOK'
    BY <1>12 DEF ParseThrows, TypeOK, LocalsOK, AccessorOK, HeldOK, Key, Pcs
  <2>4. TableOK'
    BY <1>12 DEF ParseThrows, TypeOK, LocalsOK, AccessorOK, TableOK, Key, Own, WorkerAt, Pcs
  <2>5. ListsOK' /\ OfferedOnce'
    BY <1>12, ListsFrame DEF ParseThrows
  <2> QED BY <2>1, <2>2, <2>3, <2>4, <2>5
<1> QED BY <1>1, <1>2, <1>3, <1>4, <1>5, <1>6, <1>7, <1>8, <1>9, <1>10, <1>11, <1>12
       DEF HandleRadiusMessage

\* The timeout handler, like a worker, knows the record it holds.
LEMMA FlushingFacts ==
  ASSUME IInv, RInv, mpc \in {"push", "erase"}
  PROVE  /\ flushing \in Messages /\ fired \in Messages /\ KeyOf[fired] \in Keys
         /\ hashTable[KeyOf[fired]] = flushing /\ holder[KeyOf[fired]] = Main
         /\ \A k \in Keys : hashTable[k] = flushing => k = KeyOf[fired]
         /\ mpc = "push" => offered[flushing] = 0
         /\ \A m \in Messages : Outside(m) => m # flushing
<1>1. /\ flushing \in Messages /\ fired \in Messages /\ KeyOf[fired] \in Keys
      /\ hashTable[KeyOf[fired]] = flushing /\ holder[KeyOf[fired]] = Main
  BY KeyAssumption DEF IInv, LocalsOK, AccessorOK, RInv, HeldOK
<1>2. \A k \in Keys : hashTable[k] = flushing => k = KeyOf[fired]
  BY <1>1 DEF IInv, EntriesOK
<1>3. mpc = "push" => offered[flushing] = 0
  BY <1>1, DistinctAssumption DEF RInv, TableOK, WorkerAt
<1>4. \A m \in Messages : Outside(m) => m # flushing
  BY <1>1 DEF Outside
<1> QED BY <1>1, <1>2, <1>3, <1>4

\* Every step of handleTimeout keeps the second layer.
LEMMA TimeoutStepRInv ==
  ASSUME IInv, IInv', RInv, HandleTimeout
  PROVE  RInv'
<1> USE KeyAssumption, DistinctAssumption
    DEF IInv, RInv, notMain, queueVars, tableVars, workerVars, recordVars, outputVars, mainVars,
        Acquire, EraseEntry
<1>1. ASSUME NEW r \in Messages, TimeoutAborted(r) PROVE RInv'
  BY <1>1, FrameRInv DEF TimeoutAborted
<1>2. ASSUME NEW r \in Messages, TimeoutRun(r) PROVE RInv'
  <2>1. OnceOK' /\ ListsOK' /\ OfferedOnce'
    BY <1>2, OnceFrame, ListsFrame DEF TimeoutRun
  <2>2. FreshOK'
    BY <1>2 DEF TimeoutRun, FreshOK, Unread, Queued, Outside, Blank, Own
  <2>3. HeldOK'
    BY <1>2 DEF TimeoutRun, HeldOK, Key
  <2>4. TableOK'
    BY <1>2 DEF TimeoutRun, TableOK, Own, WorkerAt, Key
  <2> QED BY <2>1, <2>2, <2>3, <2>4
<1>3. CASE TimeoutFind
  <2>1. OnceOK' /\ ListsOK' /\ OfferedOnce'
    BY <1>3, OnceFrame, ListsFrame DEF TimeoutFind
  <2>2. FreshOK'
    BY <1>3 DEF TimeoutFind, FreshOK, Unread, Queued, Outside, Blank, Own
  <2>3. HeldOK'
    BY <1>3 DEF TimeoutFind, HeldOK, Key
  <2>4. TableOK'
    <3>1. /\ mpc = "find" /\ holder[KeyOf[fired]] = None
          /\ \A k \in Keys : k # KeyOf[fired] => holder'[k] = holder[k]
          /\ UNCHANGED <<wpc, msg, hashTable, reqList, respList, offered>>
      BY <1>3 DEF TimeoutFind, TypeOK
    <3>2. \A k \in Keys : \A pcs \in {{"erase"}, {"push", "erase"}} :
             WorkerAt(k, pcs) => WorkerAt(k, pcs)'
      BY <3>1 DEF WorkerAt, Key
    <3> QED BY <3>1, <3>2 DEF TableOK, Own
  <2> QED BY <2>1, <2>2, <2>3, <2>4
<1>4. CASE TimeoutPush
  <2> DEFINE r == flushing
  <2>1. /\ mpc = "push" /\ mpc' = "erase"
        /\ offered' = [offered EXCEPT ![r] = @ + 1]
        /\ UNCHANGED <<arriving, inputQueue, workerVars, tableVars, reqList, respList, fired, flushing>>
    BY <1>4 DEF TimeoutPush, TryPush
  <2>2. /\ r \in Messages /\ KeyOf[fired] \in Keys
        /\ hashTable[KeyOf[fired]] = r /\ holder[KeyOf[fired]] = Main
        /\ \A k \in Keys : hashTable[k] = r => k = KeyOf[fired]
        /\ offered[r] = 0
        /\ \A m \in Messages : Outside(m) => m # r
    BY <2>1, FlushingFacts
  <2>3. offered'[r] = 1 /\ \A m \in Messages : m # r => offered'[m] = offered[m]
    BY <2>1, <2>2 DEF TypeOK
  <2>4. OnceOK'
    BY <2>1, OnceFrame
  <2>5. FreshOK'
    <3>1. \A m \in Messages : Outside(m) => Outside(m)'
      BY <2>1, <2>2, <2>3 DEF Outside
    <3>2. \A m \in Messages : (Blank(m)' <=> Blank(m)) /\ (Own(m)' <=> Own(m))
                             /\ (Unread(m)' <=> Unread(m))
      BY <2>1 DEF Blank, Own, Unread, Queued
    <3> QED BY <3>1, <3>2, <2>1 DEF FreshOK
  <2>6. HeldOK'
    BY <2>1 DEF HeldOK, Key
  <2>7. TableOK'
    <3>1. \A k \in Keys, t \in Messages : hashTable[k] = t =>
             \/ offered'[t] = offered[t]
             \/ holder[k] = Main /\ k = KeyOf[fired]
      BY <2>2, <2>3
    <3>2. \A k \in Keys : \A pcs : WorkerAt(k, pcs)' <=> WorkerAt(k, pcs)
      BY <2>1 DEF WorkerAt, Key
    <3> QED BY <2>1, <3>1, <3>2 DEF TableOK, Own
  <2>8. r \in {reqList[r], respList[r]}
    BY <2>2 DEF TableOK
  <2>9. ListsOK' /\ OfferedOnce'
    BY <2>1, <2>3, <2>8 DEF ListsOK, OfferedOnce
  <2> QED BY <2>4, <2>5, <2>6, <2>7, <2>9
<1>5. CASE TimeoutErase
  <2>1. /\ mpc = "erase" /\ mpc' = "count"
        /\ hashTable' = [hashTable EXCEPT ![KeyOf[fired]] = None]
        /\ holder' = [holder EXCEPT ![KeyOf[fired]] = None]
        /\ UNCHANGED <<arriving, inputQueue, workerVars, reqList, respList, offered, fired, flushing>>
    BY <1>5 DEF TimeoutErase
  <2>2. KeyOf[fired] \in Keys /\ holder[KeyOf[fired]] = Main
    BY <2>1, FlushingFacts
  <2>3. OnceOK' /\ ListsOK' /\ OfferedOnce'
    BY <2>1, OnceFrame, ListsFrame
  <2>4. FreshOK'
    <3>1. \A m \in Messages : Outside(m) => Outside(m)'
      BY <2>1 DEF Outside, TypeOK
    <3>2. \A m \in Messages : (Blank(m)' <=> Blank(m)) /\ (Own(m)' <=> Own(m))
                             /\ (Unread(m)' <=> Unread(m))
      BY <2>1 DEF Blank, Own, Unread, Queued
    <3> QED BY <3>1, <3>2, <2>1 DEF FreshOK
  <2>5. HeldOK'
    <3>1. \A w \in Workers : wpc[w] \in {"fill", "push", "erase"} => Key(w) # KeyOf[fired]
      BY <2>2 DEF AccessorOK
    <3>2. \A w \in Workers : wpc[w] \in {"fill", "push", "erase"} => Key(w) \in Keys
      BY KeyType
    <3>3. \A k \in Keys : k # KeyOf[fired] => hashTable'[k] = hashTable[k]
      BY <2>1 DEF TypeOK
    <3> QED BY <2>1, <3>1, <3>2, <3>3 DEF HeldOK, Key
  <2>6. TableOK'
    <3> SUFFICES ASSUME NEW k \in Keys, NEW t \in Messages, hashTable'[k] = t
                 PROVE  /\ \/ offered[t] = 0
                           \/ WorkerAt(k, {"erase"})'
                        /\ Own(t) \/ WorkerAt(k, {"push", "erase"})'
                        /\ t \in {reqList[t], respList[t]}
      BY <2>1 DEF TableOK, Own
    <3>1. k # KeyOf[fired] /\ hashTable[k] = t /\ holder'[k] = holder[k]
      BY <2>1 DEF TypeOK
    <3>2. \A pcs : WorkerAt(k, pcs) => WorkerAt(k, pcs)'
      BY <2>1, <3>1 DEF WorkerAt, Key
    <3> QED BY <3>1, <3>2 DEF TableOK
  <2> QED BY <2>3, <2>4, <2>5, <2>6
<1>6. CASE TimeoutCount
  <2>1. OnceOK' /\ ListsOK' /\ OfferedOnce'
    BY <1>6, OnceFrame, ListsFrame DEF TimeoutCount
  <2>2. FreshOK'
    BY <1>6 DEF TimeoutCount, FreshOK, Unread, Queued, Outside, Blank, Own
  <2>3. HeldOK'
    BY <1>6 DEF TimeoutCount, HeldOK, Key
  <2>4. TableOK'
    BY <1>6 DEF TimeoutCount, TableOK, Own, WorkerAt, Key
  <2> QED BY <2>1, <2>2, <2>3, <2>4
<1> QED BY <1>1, <1>2, <1>3, <1>4, <1>5, <1>6 DEF HandleTimeout

\* So do the steps of the receiver, of the sender, of stopModules and the timers.
LEMMA NeighbourStepRInv ==
  ASSUME IInv, IInv', RInv, Environment \/ \E r \in Messages : Expire(r)
  PROVE  RInv'
<1> USE DEF IInv, RInv, notMain, queueVars, tableVars, workerVars, recordVars, outputVars, mainVars
<1>1. ASSUME NEW m \in Messages, NEW w \in Workers, Receive(m, w) PROVE RInv'
  <2>1. /\ m \in arriving /\ arriving' = arriving \ {m}
        /\ inputQueue' = [inputQueue EXCEPT ![w] = Append(@, m)]
        /\ UNCHANGED <<workerVars, tableVars, recordVars, offered, mainVars>>
    BY <1>1 DEF Receive
  <2>2. /\ inputQueue[w] \in Seq(Messages) /\ inputQueue \in [Workers -> Seq(Messages)]
    BY DEF TypeOK
  <2>3. ASSUME NEW v \in Workers, NEW i \in 1 .. Len(inputQueue'[v])
        PROVE  \/ i \in 1 .. Len(inputQueue[v]) /\ inputQueue'[v][i] = inputQueue[v][i]
               \/ v = w /\ i = Len(inputQueue[w]) + 1 /\ inputQueue'[v][i] = m
    <3>1. CASE v = w
      <4>1. inputQueue'[v] = Append(inputQueue[w], m)
        BY <2>1, <2>2, <3>1
      <4>2. i \in 1 .. Len(Append(inputQueue[w], m))
        BY <4>1
      <4> QED BY <2>2, <3>1, <4>1, <4>2
    <3>2. CASE v # w
      BY <2>1, <2>2, <3>2
    <3> QED BY <3>1, <3>2
  <2>4. \A n : Unread(n)' => Unread(n)
    <3> SUFFICES ASSUME NEW n, Unread(n)' PROVE Unread(n)
      OBVIOUS
    <3>1. CASE n \in arriving'
      BY <2>1, <3>1 DEF Unread
    <3>2. CASE Queued(n)'
      <4>1. PICK v \in Workers : \E i \in 1 .. Len(inputQueue'[v]) : inputQueue'[v][i] = n
        BY <3>2 DEF Queued
      <4>2. PICK i \in 1 .. Len(inputQueue'[v]) : inputQueue'[v][i] = n
        BY <4>1
      <4> QED BY <2>1, <2>3, <4>2 DEF Unread, Queued
    <3> QED BY <3>1, <3>2 DEF Unread
  <2>5. OnceOK'
    <3>1. \A v \in Workers : \A i \in 1 .. Len(inputQueue'[v]) : inputQueue'[v][i] \notin arriving'
      BY <2>1, <2>3 DEF OnceOK
    <3>2. ASSUME NEW v \in Workers, NEW u \in Workers,
                 NEW i \in 1 .. Len(inputQueue'[v]), NEW j \in 1 .. Len(inputQueue'[u]),
                 inputQueue'[v][i] = inputQueue'[u][j]
          PROVE  v = u /\ i = j
      BY <2>1, <2>3, <3>2 DEF OnceOK
    <3>3. \A v \in Workers, n \in Messages : Unread(n)' => msg'[v] # n
      BY <2>1, <2>4 DEF OnceOK
    <3>4. \A v, u \in Workers : msg'[v] = msg'[u] /\ msg'[v] # None => v = u
      BY <2>1 DEF OnceOK
    <3> QED BY <3>1, <3>2, <3>3, <3>4 DEF OnceOK
  <2>6. FreshOK'
    <3>1. \A n \in Messages : (Outside(n)' <=> Outside(n)) /\ (Blank(n)' <=> Blank(n))
                             /\ (Own(n)' <=> Own(n))
      BY <2>1 DEF Outside, Blank, Own
    <3> QED BY <2>1, <2>4, <3>1 DEF FreshOK
  <2>7. HeldOK' /\ TableOK'
    BY <2>1 DEF HeldOK, TableOK, Own, WorkerAt, Key
  <2>8. ListsOK' /\ OfferedOnce'
    BY <2>1, ListsFrame
  <2> QED BY <2>5, <2>6, <2>7, <2>8
<1>2. CASE SenderTake
  BY <1>2, FrameRInv DEF SenderTake
<1>3. CASE SenderDrop
  BY <1>3, FrameRInv DEF SenderDrop
<1>4. CASE Shutdown
  <2>1. OnceOK' /\ ListsOK' /\ OfferedOnce'
    BY <1>4, OnceFrame, ListsFrame DEF Shutdown
  <2>2. FreshOK'
    BY <1>4 DEF Shutdown, FreshOK, Unread, Queued, Outside, Blank, Own
  <2>3. HeldOK' /\ TableOK'
    BY <1>4 DEF Shutdown, HeldOK, TableOK, Own, WorkerAt, Key
  <2> QED BY <2>1, <2>2, <2>3
<1>5. ASSUME NEW w \in Workers, Stop(w) PROVE RInv'
  BY <1>5, FrameRInv DEF Stop
<1>6. ASSUME NEW r \in Messages, Expire(r) PROVE RInv'
  BY <1>6, FrameRInv DEF Expire
<1> QED BY <1>1, <1>2, <1>3, <1>4, <1>5, <1>6 DEF Environment

\* Together: the second layer is inductive, given the first before and after.
LEMMA NextRInv == IInv /\ IInv' /\ RInv /\ [Next]_vars => RInv'
<1> SUFFICES ASSUME IInv, IInv', RInv, [Next]_vars PROVE RInv'
  OBVIOUS
<1>1. CASE UNCHANGED vars
  BY <1>1, FrameRInv DEF vars, queueVars, outputVars, mainVars
<1> QED BY <1>1, WorkerStepRInv, TimeoutStepRInv, NeighbourStepRInv DEF Next, Step, Terminated

\* Both layers of the inductive invariant hold at every step.
THEOREM RecordInduction == Spec => []Inductive
<1>1. Spec => []RInv
  BY InitRInv, NextRInv, Induction, PTL DEF Spec
<1> QED BY <1>1, Induction, PTL DEF Inductive

\* No interleaving of a worker that matches a record (Worker.cpp:73) with a
\* timeout handler that flushes it (Worker.cpp:115) gives it to the sender twice.
THEOREM NoDoubleReport == Spec => []OfferedOnce
<1>1. Inductive => OfferedOnce
  BY DEF Inductive, RInv
<1> QED BY <1>1, RecordInduction, PTL

\* What waits in the hash table holds one list, that of the message it was
\* created for: a timeout never reports a complete pair as unmatched.
THEOREM WaitingIncomplete == Spec => []WaitingOneSided
<1>1. Inductive => WaitingOneSided
  <2> SUFFICES ASSUME Inductive, NEW k \in Keys, holder[k] = None, hashTable[k] # None
               PROVE  LET r == hashTable[k] IN
                      /\ KeyOf[r] = k /\ OneSided(r)
                      /\ r \in {reqList[r], respList[r]}
    BY DEF WaitingOneSided
  <2>1. hashTable[k] \in Messages
    BY FreeNotNull DEF Inductive, IInv, TypeOK, MessageOrNone
  <2>2. KeyOf[hashTable[k]] = k
    BY <2>1 DEF Inductive, IInv, EntriesOK
  <2>3. Own(hashTable[k])
    BY <2>1, DistinctAssumption DEF Inductive, RInv, TableOK, WorkerAt
  <2> QED BY <2>1, <2>2, <2>3, DistinctAssumption DEF Own, OneSided
<1> QED BY <1>1, RecordInduction, PTL

\* What reaches the sender is built from messages of one flow, at most one
\* request and at most one response, each in the list of its kind.
THEOREM PairsOfOneFlow == Spec => []ReportsPaired
<1>1. Inductive => ReportsPaired
  BY DistinctAssumption DEF Inductive, RInv, ListsOK, ReportsPaired
<1> QED BY <1>1, RecordInduction, PTL

\* No step writes the lists of a record that was given to try_push.
LEMMA FrozenStep ==
  ASSUME Inductive, [Next]_vars, NEW r \in Messages, offered[r] > 0
  PROVE  reqList'[r] = reqList[r] /\ respList'[r] = respList[r]
<1> USE DEF Inductive
<1>1. ASSUME NEW w \in Workers, Fill(w)
      PROVE  reqList'[r] = reqList[r] /\ respList'[r] = respList[r]
  <2>1. offered[thrift[w]] = 0
    BY <1>1, HeldFacts DEF Fill
  <2> QED BY <1>1, <2>1 DEF Fill, FillLists, IInv, TypeOK
<1>2. ASSUME NEW w \in Workers, Arm(w)
      PROVE  reqList'[r] = reqList[r] /\ respList'[r] = respList[r]
  <2>1. msg[w] \in Messages
    BY <1>2, KeyType DEF Arm
  <2>2. offered[msg[w]] = 0
    BY <1>2, <2>1 DEF Arm, RInv, FreshOK, Outside
  <2> QED BY <1>2, <2>2 DEF Arm, OpenLists, IInv, TypeOK
<1>3. ASSUME NEW w \in Workers, HandleRadiusMessage(w), ~Fill(w), ~Arm(w)
      PROVE  UNCHANGED recordVars
  BY <1>3 DEF HandleRadiusMessage, Pop, Leave, Parse, ParseThrows, Find, Push, Erase, Insert, Assign,
              EndIteration
<1>4. (HandleTimeout \/ Environment \/ Terminated \/ \E t \in Messages : Expire(t))
        => UNCHANGED recordVars
  BY DEF HandleTimeout, TimeoutAborted, TimeoutRun, TimeoutFind, TimeoutPush, TimeoutErase,
         TimeoutCount, Environment, Receive, SenderTake, SenderDrop, Shutdown, Stop, Terminated,
         Expire, notMain, vars
<1>5. UNCHANGED vars => UNCHANGED recordVars
  BY DEF vars
<1> QED BY <1>1, <1>2, <1>3, <1>4, <1>5 DEF Next, Step, recordVars

\* Once a record was given to try_push no thread writes its lists, so the
\* sender reads them without a lock (ThriftSender.cpp:110-126).
THEOREM NoWriteAfterPublish == Spec => OfferedFrozen
<1>1. Inductive /\ [Next]_vars =>
        [\A r \in Messages : offered[r] > 0 =>
           reqList'[r] = reqList[r] /\ respList'[r] = respList[r]]_vars
  BY FrozenStep
<1> QED BY <1>1, RecordInduction, PTL DEF Spec, OfferedFrozen

-----------------------------------------------------------------------------
(* The timers of the entries that wait *)

\* A record that an entry or a worker refers to is not destroyed, so its timer
\* stays as it is.
LEMMA DestroyPending ==
  ASSUME TypeOK, DestroyUnreferenced, NEW r \in Messages,
         (\E k \in Keys : hashTable'[k] = r) \/ (\E w \in Workers : thrift'[w] = r)
  PROVE  timer'[r] = timer[r]
BY DEF TypeOK, DestroyUnreferenced, Referenced

\* Every step of handleRadiusMessage keeps the timers of the entries.
LEMMA WorkerStepTimerOK ==
  ASSUME Inductive, TimerOK, NEW w \in Workers, HandleRadiusMessage(w)
  PROVE  TimerOK'
<1> USE DistinctAssumption DEF Inductive, Goto, notWorker, tableVars, recordVars, outputVars, mainVars
<1>1. CASE Pop(w) \/ Leave(w) \/ Parse(w) \/ ParseThrows(w) \/ Find(w)
  <2>1. UNCHANGED <<hashTable, timer, mpc, fired>>
    BY <1>1 DEF Pop, Leave, Parse, ParseThrows, Find
  <2>2. \A v \in Workers : wpc'[v] \in {"insert", "assign", "push", "erase"} =>
          v # w /\ wpc'[v] = wpc[v] /\ msg'[v] = msg[v] /\ thrift'[v] = thrift[v]
    BY <1>1 DEF Pop, Leave, Parse, ParseThrows, Find, IInv, TypeOK
  <2>3. \A k \in Keys : WorkerAt(k, {"push", "erase"}) => WorkerAt(k, {"push", "erase"})'
    <3> SUFFICES ASSUME NEW k \in Keys, WorkerAt(k, {"push", "erase"})
                 PROVE  WorkerAt(k, {"push", "erase"})'
      OBVIOUS
    <3>1. holder'[k] = holder[k]
      BY <1>1, KeyType DEF Pop, Leave, Parse, ParseThrows, Find, Acquire, IInv, TypeOK, WorkerAt
    <3>2. holder[k] \in Workers /\ holder[k] # w
      BY <1>1 DEF Pop, Leave, Parse, ParseThrows, Find, WorkerAt
    <3>3. wpc'[holder[k]] = wpc[holder[k]] /\ msg'[holder[k]] = msg[holder[k]]
      BY <1>1, <3>2 DEF Pop, Leave, Parse, ParseThrows, Find, IInv, TypeOK
    <3> QED BY <3>1, <3>2, <3>3 DEF WorkerAt, Key
  <2> QED BY <2>1, <2>2, <2>3 DEF TimerOK, TimeoutPending, HandlerAt, Key
<1>2. CASE EndIteration(w)
  <2>1. UNCHANGED <<hashTable, holder, mpc, fired>>
    BY <1>2 DEF EndIteration
  <2>2. \A v \in Workers : /\ v # w => wpc'[v] = wpc[v] /\ msg'[v] = msg[v] /\ thrift'[v] = thrift[v]
                           /\ wpc[w] = "end" /\ wpc'[w] = "pop"
    BY <1>2 DEF EndIteration, IInv, TypeOK
  <2>3. \A v \in Workers : wpc'[v] \in {"insert", "assign"} =>
          v # w /\ thrift[v] \in Messages /\ timer'[thrift[v]] = timer[thrift[v]]
    <3> SUFFICES ASSUME NEW v \in Workers, wpc'[v] \in {"insert", "assign"}
                 PROVE  v # w /\ thrift[v] \in Messages /\ timer'[thrift[v]] = timer[thrift[v]]
      OBVIOUS
    <3>1. v # w /\ wpc[v] = wpc'[v] /\ thrift'[v] = thrift[v] /\ thrift[v] \in Messages
      BY <2>2, KeyType DEF IInv, LocalsOK
    <3> QED BY <1>2, <3>1, DestroyPending DEF EndIteration, IInv
  <2>4. \A k \in Keys : hashTable[k] \in Messages => timer'[hashTable[k]] = timer[hashTable[k]]
    BY <1>2, <2>1, DestroyPending DEF EndIteration, IInv
  <2>5. \A k \in Keys : WorkerAt(k, {"push", "erase"}) => WorkerAt(k, {"push", "erase"})'
    BY <2>1, <2>2 DEF WorkerAt, Key
  <2> QED BY <2>1, <2>2, <2>3, <2>4, <2>5 DEF TimerOK, TimeoutPending, HandlerAt, Key
<1>3. CASE Fill(w)
  <2>1. /\ thrift[w] \in Messages /\ Key(w) \in Keys /\ holder[Key(w)] = w
        /\ hashTable[Key(w)] = thrift[w]
        /\ \A k \in Keys : hashTable[k] = thrift[w] => k = Key(w)
        /\ \A m \in Messages : Outside(m) => m # thrift[w]
    BY <1>3, HeldFacts DEF Fill
  <2>2. \A v \in Workers : wpc[v] \in {"insert", "assign"} =>
          thrift[v] \in Messages /\ thrift[v] # thrift[w]
    BY <2>1, KeyType DEF IInv, LocalsOK, RInv, FreshOK
  <2>3. /\ \A r \in Messages : r # thrift[w] => timer'[r] = timer[r]
        /\ \A v \in Workers : wpc'[v] = (IF v = w THEN "push" ELSE wpc[v])
        /\ UNCHANGED <<msg, thrift, hashTable, holder, mpc, fired>>
    BY <1>3 DEF Fill, CancelTimer, IInv, TypeOK
  <2>4. WorkerAt(Key(w), {"push", "erase"})'
    BY <2>1, <2>3 DEF WorkerAt, Key
  <2>5. \A k \in Keys : WorkerAt(k, {"push", "erase"}) => WorkerAt(k, {"push", "erase"})'
    BY <1>3, <2>3 DEF WorkerAt, Key
  <2> QED BY <1>3, <2>1, <2>2, <2>3, <2>4, <2>5 DEF Fill, TimerOK, TimeoutPending, HandlerAt, Key
<1>4. CASE Push(w)
  <2>1. /\ \A v \in Workers : wpc'[v] = (IF v = w THEN "erase" ELSE wpc[v])
        /\ wpc[w] = "push" /\ UNCHANGED <<msg, thrift, hashTable, holder, mpc, fired, timer>>
    BY <1>4 DEF Push, IInv, TypeOK
  <2>2. \A k \in Keys : WorkerAt(k, {"push", "erase"}) => WorkerAt(k, {"push", "erase"})'
    BY <2>1 DEF WorkerAt, Key
  <2> QED BY <2>1, <2>2 DEF TimerOK, TimeoutPending, HandlerAt, Key
<1>5. CASE Erase(w)
  <2>1. /\ \A v \in Workers : wpc'[v] = (IF v = w THEN "end" ELSE wpc[v])
        /\ wpc[w] = "erase" /\ Key(w) \in Keys
        /\ hashTable' = [hashTable EXCEPT ![Key(w)] = None]
        /\ holder' = [holder EXCEPT ![Key(w)] = None]
        /\ UNCHANGED <<msg, thrift, mpc, fired, timer>>
    BY <1>5, KeyType DEF Erase, EraseEntry, IInv, TypeOK
  <2>2. \A k \in Keys : k # Key(w) /\ WorkerAt(k, {"push", "erase"}) => WorkerAt(k, {"push", "erase"})'
    BY <2>1 DEF WorkerAt, Key, IInv, TypeOK
  <2>3. \A k \in Keys : hashTable'[k] \in Messages => k # Key(w) /\ hashTable'[k] = hashTable[k]
    BY <2>1 DEF IInv, TypeOK
  <2> QED BY <2>1, <2>2, <2>3 DEF TimerOK, TimeoutPending, HandlerAt, Key
<1>6. CASE Arm(w)
  <2>1. /\ msg[w] \in Messages /\ Outside(msg[w])
    BY <1>6, KeyType DEF Arm, RInv, FreshOK
  <2>2. /\ \A v \in Workers : /\ wpc'[v] = (IF v = w THEN "insert" ELSE wpc[v])
                              /\ thrift'[v] = (IF v = w THEN msg[w] ELSE thrift[v])
        /\ wpc[w] = "arm"
        /\ timer' = [timer EXCEPT ![msg[w]] = "armed"]
        /\ UNCHANGED <<msg, hashTable, holder, mpc, fired>>
    BY <1>6 DEF Arm, StartTimer, IInv, TypeOK
  <2>3. \A r \in Messages : timer'[r] = timer[r] \/ timer'[r] = "armed"
    BY <2>2 DEF IInv, TypeOK
  <2>4. \A v \in Workers : wpc[v] \in {"insert", "assign"} => thrift[v] \in Messages
    BY KeyType DEF IInv, LocalsOK
  <2>5. \A k \in Keys : WorkerAt(k, {"push", "erase"}) => WorkerAt(k, {"push", "erase"})'
    BY <2>2 DEF WorkerAt, Key
  <2>6. timer'[thrift'[w]] = "armed"
    BY <2>1, <2>2 DEF IInv, TypeOK
  <2> QED BY <2>2, <2>3, <2>4, <2>5, <2>6 DEF TimerOK, TimeoutPending, HandlerAt, Key
<1>7. CASE Insert(w)
  <2>1. /\ \A v \in Workers : wpc'[v] = (IF v = w THEN "assign" ELSE wpc[v])
        /\ wpc[w] = "insert" /\ Key(w) \in Keys /\ holder[Key(w)] = None
        /\ holder' = [holder EXCEPT ![Key(w)] = w]
        /\ UNCHANGED <<msg, thrift, mpc, fired, timer>>
    BY <1>7, KeyType DEF Insert, Acquire, IInv, TypeOK
  <2>2. \A k \in Keys : hashTable'[k] \in Messages => hashTable'[k] = hashTable[k]
    BY <1>7, <2>1 DEF Insert, IInv, TypeOK
  <2>3. \A k \in Keys : WorkerAt(k, {"push", "erase"}) => WorkerAt(k, {"push", "erase"})'
    BY <2>1 DEF WorkerAt, Key, IInv, TypeOK
  <2> QED BY <2>1, <2>2, <2>3 DEF TimerOK, TimeoutPending, HandlerAt, Key
<1>8. CASE Assign(w)
  <2>1. /\ \A v \in Workers : wpc'[v] = (IF v = w THEN "end" ELSE wpc[v])
        /\ wpc[w] = "assign" /\ Key(w) \in Keys /\ holder[Key(w)] = w /\ thrift[w] \in Messages
        /\ hashTable' = [hashTable EXCEPT ![Key(w)] = thrift[w]]
        /\ holder' = [holder EXCEPT ![Key(w)] = None]
        /\ UNCHANGED <<msg, thrift, mpc, fired>>
    BY <1>8, KeyType DEF Assign, Release, IInv, TypeOK, LocalsOK, AccessorOK
  <2>2. \A k \in Keys : hashTable'[k] \in Messages => timer'[hashTable'[k]] = timer[hashTable'[k]]
    BY <1>8, DestroyPending DEF Assign, IInv
  <2>3. \A v \in Workers : wpc[v] \in {"insert", "assign"} =>
          thrift[v] \in Messages /\ timer'[thrift[v]] = timer[thrift[v]]
    <3>1. \A v \in Workers : wpc[v] \in {"insert", "assign"} => thrift[v] \in Messages
      BY KeyType DEF IInv, LocalsOK
    <3> QED BY <1>8, <2>1, <3>1, DestroyPending DEF Assign, IInv
  <2>4. \A k \in Keys : k # Key(w) /\ WorkerAt(k, {"push", "erase"}) => WorkerAt(k, {"push", "erase"})'
    BY <2>1 DEF WorkerAt, Key, IInv, TypeOK
  <2>5. \A k \in Keys : hashTable'[k] = IF k = Key(w) THEN thrift[w] ELSE hashTable[k]
    BY <2>1 DEF IInv, TypeOK
  <2>6. TimeoutPending(thrift[w]) \/ HandlerAt(Key(w), {"find"})
    BY <2>1 DEF TimerOK
  <2> QED BY <2>1, <2>2, <2>3, <2>4, <2>5, <2>6 DEF TimerOK, TimeoutPending, HandlerAt, Key
<1> QED BY <1>1, <1>2, <1>3, <1>4, <1>5, <1>6, <1>7, <1>8 DEF HandleRadiusMessage

\* So does every step of handleTimeout: the wait that it takes up is that of the
\* key it is going to look up.
LEMMA TimeoutStepTimerOK ==
  ASSUME Inductive, TimerOK, HandleTimeout
  PROVE  TimerOK'
<1> USE DistinctAssumption, KeyAssumption
    DEF Inductive, notMain, queueVars, tableVars, workerVars, recordVars, outputVars, mainVars
<1>1. UNCHANGED <<wpc, msg, thrift>>
  BY DEF HandleTimeout, TimeoutAborted, TimeoutRun, TimeoutFind, TimeoutPush, TimeoutErase,
         TimeoutCount
<1>2. \A v \in Workers : wpc[v] \in {"insert", "assign"} =>
        thrift[v] \in Messages /\ KeyOf[thrift[v]] = Key(v) /\ Key(v) \in Keys
  BY KeyType DEF IInv, LocalsOK, Key
<1>3. ASSUME NEW r \in Messages, TimeoutAborted(r) PROVE TimerOK'
  BY <1>1, <1>2, <1>3 DEF TimeoutAborted, TimerOK, TimeoutPending, HandlerAt, WorkerAt, Key, IInv, TypeOK
<1>4. ASSUME NEW r \in Messages, TimeoutRun(r) PROVE TimerOK'
  <2>1. /\ timer' = [timer EXCEPT ![r] = "done"] /\ timer[r] = "expired" /\ mpc = "poll"
        /\ mpc' = "find" /\ fired' = r /\ UNCHANGED <<hashTable, holder>>
    BY <1>4 DEF TimeoutRun
  <2>2. \A x \in Messages : TimeoutPending(x) => TimeoutPending(x)' \/ x = r
    BY <2>1 DEF TimeoutPending, IInv, TypeOK
  <2>3. \A k \in Keys : hashTable[k] = r => KeyOf[r] = k
    BY DEF IInv, EntriesOK
  <2>4. \A v \in Workers : wpc[v] = "insert" => thrift[v] # r
    BY <2>1 DEF TimerOK
  <2>5. \A v \in Workers : wpc[v] = "insert" => timer'[thrift[v]] = "armed"
    BY <1>2, <2>1, <2>4 DEF TimerOK, IInv, TypeOK
  <2>6. \A v \in Workers : wpc[v] = "assign" => TimeoutPending(thrift[v])' \/ HandlerAt(Key(v), {"find"})'
    BY <1>1, <1>2, <2>1, <2>2 DEF TimerOK, HandlerAt, Key
  <2>7. \A k \in Keys : hashTable[k] \in Messages =>
           \/ TimeoutPending(hashTable[k])' \/ WorkerAt(k, {"push", "erase"})
           \/ HandlerAt(k, {"find", "push", "erase"})'
    BY <2>1, <2>2, <2>3 DEF TimerOK, HandlerAt
  <2> QED BY <1>1, <2>1, <2>5, <2>6, <2>7 DEF TimerOK, TimeoutPending, HandlerAt, WorkerAt, Key
<1>5. CASE TimeoutFind
  <2>1. /\ mpc = "find" /\ KeyOf[fired] \in Keys /\ holder[KeyOf[fired]] = None
        /\ UNCHANGED <<hashTable, timer>>
        /\ \/ mpc' = "push" /\ fired' = fired /\ holder' = [holder EXCEPT ![KeyOf[fired]] = Main]
           \/ hashTable[KeyOf[fired]] \notin Messages /\ holder' = holder
    BY <1>5 DEF TimeoutFind, Acquire, IInv, TypeOK, LocalsOK
  <2>2. \A v \in Workers : wpc[v] = "assign" => Key(v) # KeyOf[fired]
    BY <2>1 DEF IInv, AccessorOK
  <2>3. \A k \in Keys : WorkerAt(k, {"push", "erase"}) => WorkerAt(k, {"push", "erase"})'
    BY <1>1, <2>1 DEF WorkerAt, Key, IInv, TypeOK
  <2> QED BY <1>1, <2>1, <2>2, <2>3 DEF TimerOK, TimeoutPending, HandlerAt, Key
<1>6. CASE TimeoutPush
  BY <1>1, <1>6 DEF TimeoutPush, TimerOK, TimeoutPending, HandlerAt, WorkerAt, Key
<1>7. CASE TimeoutErase
  <2>1. /\ mpc = "erase" /\ KeyOf[fired] \in Keys /\ holder[KeyOf[fired]] = Main
        /\ hashTable' = [hashTable EXCEPT ![KeyOf[fired]] = None]
        /\ holder' = [holder EXCEPT ![KeyOf[fired]] = None]
        /\ mpc' = "count" /\ UNCHANGED <<timer, fired>>
    BY <1>7, FlushingFacts DEF TimeoutErase, EraseEntry
  <2>2. \A k \in Keys : WorkerAt(k, {"push", "erase"}) => WorkerAt(k, {"push", "erase"})'
    BY <1>1, <2>1 DEF WorkerAt, Key, IInv, TypeOK
  <2>3. \A k \in Keys : hashTable'[k] \in Messages => k # KeyOf[fired] /\ hashTable'[k] = hashTable[k]
    BY <2>1 DEF IInv, TypeOK
  <2> QED BY <1>1, <2>1, <2>2, <2>3 DEF TimerOK, TimeoutPending, HandlerAt, Key
<1>8. CASE TimeoutCount
  <2>1. UNCHANGED <<hashTable, holder>> /\ mpc = "count"
    BY <1>8 DEF TimeoutCount
  <2>2. \A k \in Keys : hashTable[k] \in Messages => timer'[hashTable[k]] = timer[hashTable[k]]
    BY <1>8, <2>1, DestroyPending DEF TimeoutCount, IInv
  <2>3. \A v \in Workers : wpc[v] \in {"insert", "assign"} => timer'[thrift[v]] = timer[thrift[v]]
    BY <1>1, <1>2, <1>8, DestroyPending DEF TimeoutCount, IInv
  <2> QED BY <1>1, <2>1, <2>2, <2>3 DEF TimerOK, TimeoutPending, HandlerAt, WorkerAt, Key
<1> QED BY <1>3, <1>4, <1>5, <1>6, <1>7, <1>8 DEF HandleTimeout

\* And so do the neighbours and, with PromptInsert, the timers themselves.
LEMMA NeighbourStepTimerOK ==
  ASSUME PromptInsert, Inductive, TimerOK, Environment \/ \E r \in Messages : Expire(r)
  PROVE  TimerOK'
<1> USE DistinctAssumption
    DEF Inductive, notMain, queueVars, tableVars, workerVars, recordVars, outputVars, mainVars
<1>1. UNCHANGED <<wpc, msg, thrift, hashTable, holder, fired>> /\ (mpc' = mpc \/ mpc = "poll")
  BY DEF Environment, Receive, SenderTake, SenderDrop, Shutdown, Stop, Expire
<1>2. \A v \in Workers : wpc[v] \in {"insert", "assign"} => thrift[v] \in Messages
  BY KeyType DEF IInv, LocalsOK
<1>3. /\ \A v \in Workers : wpc[v] = "insert" => timer'[thrift[v]] = timer[thrift[v]]
      /\ \A v \in Workers : wpc[v] = "assign" => (TimeoutPending(thrift[v]) => TimeoutPending(thrift[v])')
      /\ \A k \in Keys : hashTable[k] \in Messages =>
            (TimeoutPending(hashTable[k]) => TimeoutPending(hashTable[k])')
  <2>1. CASE SenderDrop
    BY <1>1, <1>2, <2>1, DestroyPending DEF SenderDrop, TimeoutPending, IInv
  <2>2. CASE \E r \in Messages : Expire(r)
    BY <1>1, <1>2, <2>2 DEF Expire, TimeoutPending, IInv, TypeOK
  <2>3. CASE Environment /\ ~SenderDrop
    <3>1. timer' = timer
      BY <2>3 DEF Environment, Receive, SenderTake, Shutdown, Stop
    <3> QED BY <1>1, <3>1 DEF TimeoutPending
  <2> QED BY <2>1, <2>2, <2>3
<1> QED BY <1>1, <1>3 DEF TimerOK, HandlerAt, WorkerAt, Key

\* If two seconds outlast Worker.cpp:88-91, every entry that waits for a mate has
\* a timer that will flush it, or its timeout handler is about to look it up.
THEOREM EntriesTimed == PromptInsert => (Spec => []TimerCovers)
<1> SUFFICES ASSUME PromptInsert PROVE Spec => []TimerCovers
  OBVIOUS
<1>1. Init => TimerOK
  BY DistinctAssumption DEF Init, TimerOK
<1>2. Inductive /\ TimerOK /\ [Next]_vars => TimerOK'
  <2> SUFFICES ASSUME Inductive, TimerOK, [Next]_vars PROVE TimerOK'
    OBVIOUS
  <2>1. CASE UNCHANGED vars
    BY <2>1 DEF vars, workerVars, tableVars, mainVars, TimerOK, TimeoutPending, HandlerAt, WorkerAt, Key
  <2> QED BY <2>1, WorkerStepTimerOK, TimeoutStepTimerOK, NeighbourStepTimerOK DEF Next, Step, Terminated
<1>3. Inductive /\ TimerOK => TimerCovers
  <2> SUFFICES ASSUME Inductive, TimerOK, NEW k \in Keys, holder[k] = None, hashTable[k] # None
               PROVE  TimeoutPending(hashTable[k]) \/ HandlerAt(k, {"find"})
    BY DEF TimerCovers, TimeoutPending, HandlerAt
  <2>1. hashTable[k] \in Messages
    BY FreeNotNull DEF Inductive, IInv, TypeOK, MessageOrNone
  <2>2. ~WorkerAt(k, {"push", "erase"}) /\ ~HandlerAt(k, {"push", "erase"})
    BY DistinctAssumption DEF Inductive, IInv, AccessorOK, WorkerAt, HandlerAt
  <2> QED BY <2>1, <2>2 DEF TimerOK, HandlerAt
<1> QED BY <1>1, <1>2, <1>3, RecordInduction, PTL DEF Spec
=============================================================================
