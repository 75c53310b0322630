------------------------------- MODULE Worker -------------------------------
(***************************************************************************)
(* The correlation engine of the RADIUS event handler (Worker.cpp): the    *)
(* worker threads that pair accounting requests with their responses in    *)
(* the shared tbb::concurrent_hash_map, the deadline timers of the entries *)
(* that wait for a mate, and the timeout handler that the main thread runs *)
(* from the io_service.                                                    *)
(*                                                                         *)
(* A step is one access to state that another thread can touch.  A step    *)
(* that finds the accessor of its key held by another thread is disabled:  *)
(* tbb spins until the accessor is released.                               *)
(*                                                                         *)
(* A ThriftStruct is named by the message whose handling allocated it, so  *)
(* "record m" is the object created at Worker.cpp:80 for message m.  Two   *)
(* datagrams are two members of Messages even when one retransmits the     *)
(* other.                                                                  *)
(*                                                                         *)
(* TryPushUnbounded, AcquireNothing, ReleaseNothing, EraseNothing,         *)
(* OpenRequestOnly, FillUnchecked, FillRequestOnly and StartNoTimer are    *)
(* faulty variants of the operator after them: no action uses them, they   *)
(* are put in its place to see which property notices.                     *)
(***************************************************************************)
EXTENDS Naturals, Sequences, FiniteSets

CONSTANTS
  Workers,        \* the worker threads (WORKERS_NUMBER of them in the code)
  Messages,       \* datagrams that PacketReceiver accepts
  Requests,       \* those with code AccountingRequest; the others are responses
  Keys,           \* flow keys
  KeyOf,          \* the flow key of each message
  Unparsable,     \* messages on which getAllAvps never returns
  Fatal,          \* messages on which it throws length_error
  QueueCapacity,  \* WORKER_QUEUE_CAPACITY
  ThriftCapacity, \* THRIFT_QUEUE_CAPACITY
  PromptInsert,   \* TRUE: a timer (2 s) never expires before its entry is inserted
  Main,           \* the main thread, as a holder of accessors
  None,           \* no message, no record, no holder, no hash table entry
  Null            \* the null ThriftPtr of an entry that insert() just created

ASSUME KeyAssumption == Requests \subseteq Messages /\ KeyOf \in [Messages -> Keys]
ASSUME CapacityAssumption == QueueCapacity \in Nat /\ ThriftCapacity \in Nat
ASSUME ParseAssumption == Unparsable \cap Fatal = {}
ASSUME PromptAssumption == PromptInsert \in BOOLEAN
ASSUME DistinctAssumption ==
  /\ None \notin Messages /\ Null \notin Messages /\ None # Null
  /\ Main \notin Workers /\ None \notin Workers /\ None # Main

VARIABLES
  arriving,     \* messages that no queue has received yet
  inputQueue,   \* m_inputQueuePtr of each worker
  stopThread,   \* stop_thread of each worker
  wpc,          \* where each worker is in handleRadiusMessage
  msg,          \* its msgPtr
  thrift,       \* its thriftPtr
  hashTable,    \* m_hashTable: the record of each key, Null or None
  holder,       \* the thread that holds the accessor of each key
  reqList,      \* m_reqAvpListPtr of each record: the message it came from
  respList,     \* m_respAvpListPtr of each record
  timer,        \* the asynchronous wait on each record's m_timer
  outputQueue,  \* m_outputQueuePtr, the queue of the ThriftSender
  sending,      \* the record in msgToSendPtr of the ThriftSender
  mpc,          \* where the main thread is
  fired,        \* the record whose timeout handler the main thread runs
  flushing,     \* thriftPtr of that handler
  unmatchedReqsNum, \* m_unmatchedReqsNum
  offered       \* history: how often each record was given to try_push

workerVars == <<wpc, msg, thrift>>
recordVars == <<reqList, respList>>
queueVars  == <<arriving, inputQueue, stopThread>>
tableVars  == <<hashTable, holder>>
outputVars == <<outputQueue, offered>>
mainVars   == <<mpc, fired, flushing, unmatchedReqsNum>>
vars == <<queueVars, workerVars, tableVars, recordVars, timer, outputVars, sending, mainVars>>
notWorker == <<arriving, stopThread, sending, mainVars>>
notMain   == <<queueVars, workerVars, recordVars, sending>>

Init ==
  /\ arriving = Messages
  /\ inputQueue = [w \in Workers |-> <<>>]
  /\ stopThread = [w \in Workers |-> FALSE]
  /\ wpc = [w \in Workers |-> "pop"]
  /\ msg = [w \in Workers |-> None]
  /\ thrift = [w \in Workers |-> None]
  /\ hashTable = [k \in Keys |-> None]
  /\ holder = [k \in Keys |-> None]
  /\ reqList = [r \in Messages |-> None]
  /\ respList = [r \in Messages |-> None]
  /\ timer = [r \in Messages |-> "idle"]
  /\ outputQueue = <<>>
  /\ sending = None
  /\ mpc = "poll" /\ fired = None /\ flushing = None
  /\ unmatchedReqsNum = 0
  /\ offered = [r \in Messages |-> 0]

-----------------------------------------------------------------------------
(* Shared-ownership of the records and the calls that several steps make. *)

\* Some shared_ptr still refers to record r.
Referenced(r) ==
  \/ \E k \in Keys : hashTable[k] = r
  \/ \E w \in Workers : thrift[w] = r
  \/ \E i \in DOMAIN outputQueue : outputQueue[i] = r
  \/ r \in {sending, flushing}

\* A step that drops references destroys every record left without one;
\* the destructor of its deadline_timer aborts a wait still pending.
DestroyUnreferenced ==
  timer' = [r \in Messages |->
              IF timer[r] = "armed" /\ ~Referenced(r)' THEN "aborted" ELSE timer[r]]

\* m_outputQueuePtr->try_push(r), whose result no caller looks at.
TryPushUnbounded(r) ==
  outputQueue' = Append(outputQueue, r) /\ offered' = [offered EXCEPT ![r] = @ + 1]
TryPush(r) ==
  /\ outputQueue' = IF Len(outputQueue) < ThriftCapacity
                    THEN Append(outputQueue, r) ELSE outputQueue
  /\ offered' = [offered EXCEPT ![r] = @ + 1]

\* find and insert return holding the accessor of k; it is given back at the
\* end of its scope, or by erase(accessor), which also removes the entry.
AcquireNothing(k, thread) == UNCHANGED holder
Acquire(k, thread) == holder' = [holder EXCEPT ![k] = thread]
ReleaseNothing(k) == UNCHANGED holder
Release(k) == holder' = [holder EXCEPT ![k] = None]
EraseNothing(k) == UNCHANGED hashTable /\ holder' = [holder EXCEPT ![k] = None]
EraseEntry(k) ==
  hashTable' = [hashTable EXCEPT ![k] = None] /\ holder' = [holder EXCEPT ![k] = None]

\* The list of message m goes into its side of the record m creates ...
OpenRequestOnly(m) ==
  reqList' = [reqList EXCEPT ![m] = IF m \in Requests THEN m ELSE @] /\ UNCHANGED respList
OpenLists(m) ==
  /\ reqList' = [reqList EXCEPT ![m] = IF m \in Requests THEN m ELSE @]
  /\ respList' = [respList EXCEPT ![m] = IF m \in Requests THEN @ ELSE m]

\* ... or into the record r of its mate, if the mate's list is there.  A
\* second message of the same kind is the "Logical error" branch: its list
\* goes nowhere.
FillUnchecked(r, m) == respList' = [respList EXCEPT ![r] = m] /\ UNCHANGED reqList
FillRequestOnly(r, m) ==
  /\ reqList' = IF m \in Requests /\ respList[r] # None THEN [reqList EXCEPT ![r] = m] ELSE reqList
  /\ UNCHANGED respList
FillLists(r, m) ==
  /\ reqList' = IF m \in Requests /\ respList[r] # None
                THEN [reqList EXCEPT ![r] = m] ELSE reqList
  /\ respList' = IF m \notin Requests /\ reqList[r] # None
                 THEN [respList EXCEPT ![r] = m] ELSE respList

\* expires_from_now and async_wait; cancel does not reach a wait that expired.
StartNoTimer(r) == UNCHANGED timer
StartTimer(r) == timer' = [timer EXCEPT ![r] = "armed"]
CancelTimer(r) == timer' = [timer EXCEPT ![r] = IF @ = "armed" THEN "aborted" ELSE @]

Goto(w, label) == wpc' = [wpc EXCEPT ![w] = label]

Key(w) == KeyOf[msg[w]]

-----------------------------------------------------------------------------
(* Worker::handleRadiusMessage *)

\* The loop condition and try_pop: an empty queue only spins.
Pop(w) ==
  /\ wpc[w] = "pop" /\ ~stopThread[w] /\ inputQueue[w] # <<>>
  /\ msg' = [msg EXCEPT ![w] = Head(inputQueue[w])]
  /\ inputQueue' = [inputQueue EXCEPT ![w] = Tail(@)]
  /\ Goto(w, "parse")
  /\ UNCHANGED <<notWorker, thrift, tableVars, recordVars, timer, outputVars>>

\* The loop condition after stop(): the thread function returns.
Leave(w) ==
  /\ wpc[w] = "pop" /\ stopThread[w]
  /\ Goto(w, "stopped")
  /\ UNCHANGED <<notWorker, inputQueue, msg, thrift, tableVars, recordVars, timer, outputVars>>

\* getAllAvps: on an unparsable message its loop repeats without progress.
Parse(w) ==
  /\ wpc[w] = "parse" /\ msg[w] \notin Fatal
  /\ IF msg[w] \in Unparsable THEN UNCHANGED wpc ELSE Goto(w, "find")
  /\ UNCHANGED <<notWorker, inputQueue, msg, thrift, tableVars, recordVars, timer, outputVars>>

\* getAllAvps throws, and nothing in the thread catches it: the process ends.
ParseThrows(w) ==
  /\ wpc[w] = "parse" /\ msg[w] \in Fatal
  /\ Goto(w, "threw")
  /\ UNCHANGED <<notWorker, inputQueue, msg, thrift, tableVars, recordVars, timer, outputVars>>

\* m_hashTable.find(hashTableAccessor, key): a hit returns holding the accessor.
Find(w) ==
  /\ wpc[w] = "find" /\ holder[Key(w)] = None
  /\ IF hashTable[Key(w)] = None
     THEN Goto(w, "arm") /\ UNCHANGED <<holder, thrift>>
     ELSE /\ Acquire(Key(w), w)
          /\ thrift' = [thrift EXCEPT ![w] = hashTable[Key(w)]]
          /\ Goto(w, "fill")
  /\ UNCHANGED <<notWorker, inputQueue, msg, hashTable, recordVars, timer, outputVars>>

\* The mate is there: cancel its timer and add the missing list to it.
Fill(w) ==
  /\ wpc[w] = "fill"
  /\ CancelTimer(thrift[w])
  /\ FillLists(thrift[w], msg[w])
  /\ Goto(w, "push")
  /\ UNCHANGED <<notWorker, inputQueue, msg, thrift, tableVars, outputVars>>

Push(w) ==
  /\ wpc[w] = "push"
  /\ TryPush(thrift[w])
  /\ Goto(w, "erase")
  /\ UNCHANGED <<notWorker, inputQueue, msg, thrift, tableVars, recordVars, timer>>

\* m_hashTable.erase(hashTableAccessor) removes the entry and releases it.
Erase(w) ==
  /\ wpc[w] = "erase"
  /\ EraseEntry(Key(w))
  /\ Goto(w, "end")
  /\ UNCHANGED <<notWorker, inputQueue, msg, thrift, recordVars, timer, outputVars>>

\* No mate: a new record takes the list and its timer starts, before any
\* other thread can find it in the hash table.
Arm(w) ==
  /\ wpc[w] = "arm"
  /\ thrift' = [thrift EXCEPT ![w] = msg[w]]
  /\ OpenLists(msg[w])
  /\ StartTimer(msg[w])
  /\ Goto(w, "insert")
  /\ UNCHANGED <<notWorker, inputQueue, msg, tableVars, outputVars>>

\* m_hashTable.insert(hashTableAccessor, key) also returns the accessor of an
\* entry that another thread inserted since Find; its result is not looked at.
Insert(w) ==
  /\ wpc[w] = "insert" /\ holder[Key(w)] = None
  /\ Acquire(Key(w), w)
  /\ hashTable' = [hashTable EXCEPT ![Key(w)] = IF @ = None THEN Null ELSE @]
  /\ Goto(w, "assign")
  /\ UNCHANGED <<notWorker, inputQueue, msg, thrift, recordVars, timer, outputVars>>

\* hashTableAccessor->second = thriftPtr, then the accessor's scope ends.  A
\* record that the entry held before loses that reference.
Assign(w) ==
  /\ wpc[w] = "assign"
  /\ hashTable' = [hashTable EXCEPT ![Key(w)] = thrift[w]]
  /\ Release(Key(w))
  /\ Goto(w, "end")
  /\ UNCHANGED <<notWorker, inputQueue, msg, thrift, recordVars, outputVars>>
  /\ DestroyUnreferenced

\* The locals of the iteration go out of scope.
EndIteration(w) ==
  /\ wpc[w] = "end"
  /\ msg' = [msg EXCEPT ![w] = None]
  /\ thrift' = [thrift EXCEPT ![w] = None]
  /\ Goto(w, "pop")
  /\ UNCHANGED <<notWorker, inputQueue, tableVars, recordVars, outputVars>>
  /\ DestroyUnreferenced

HandleRadiusMessage(w) ==
  \/ Pop(w) \/ Leave(w) \/ Parse(w) \/ ParseThrows(w) \/ Find(w) \/ Fill(w) \/ Push(w)
  \/ Erase(w) \/ Arm(w) \/ Insert(w) \/ Assign(w) \/ EndIteration(w)

-----------------------------------------------------------------------------
(* The io_service, polled by the main thread one handler at a time. *)

\* The reactor finds the wait of record r expired and queues its handler.
\* PromptInsert is the assumption that 2 s outlast Worker.cpp:88-91.
Expire(r) ==
  /\ mpc = "poll" /\ timer[r] = "armed"
  /\ PromptInsert => \A w \in Workers : ~(wpc[w] = "insert" /\ thrift[w] = r)
  /\ timer' = [timer EXCEPT ![r] = "expired"]
  /\ UNCHANGED <<notMain, tableVars, outputVars, mainVars>>

\* handleTimeout with error::operation_aborted returns at once.
TimeoutAborted(r) ==
  /\ mpc = "poll" /\ timer[r] = "aborted"
  /\ timer' = [timer EXCEPT ![r] = "done"]
  /\ UNCHANGED <<notMain, tableVars, outputVars, mainVars>>

\* poll_one takes up the handler of an expired wait.
TimeoutRun(r) ==
  /\ mpc = "poll" /\ timer[r] = "expired"
  /\ timer' = [timer EXCEPT ![r] = "done"]
  /\ mpc' = "find"
  /\ fired' = r
  /\ UNCHANGED <<notMain, tableVars, outputVars, flushing, unmatchedReqsNum>>

\* find(): whatever record the key has now is the one that will be flushed.
\* An absent entry, or one with a null pointer, ends the handler.
TimeoutFind ==
  LET k == KeyOf[fired] IN
  /\ mpc = "find" /\ holder[k] = None
  /\ IF hashTable[k] \in Messages
     THEN /\ Acquire(k, Main)
          /\ flushing' = hashTable[k]
          /\ mpc' = "push"
          /\ UNCHANGED fired
     ELSE /\ mpc' = "poll" /\ fired' = None
          /\ UNCHANGED <<holder, flushing>>
  /\ UNCHANGED <<notMain, hashTable, timer, outputVars, unmatchedReqsNum>>

TimeoutPush ==
  /\ mpc = "push"
  /\ TryPush(flushing)
  /\ mpc' = "erase"
  /\ UNCHANGED <<notMain, tableVars, timer, fired, flushing, unmatchedReqsNum>>

TimeoutErase ==
  /\ mpc = "erase"
  /\ EraseEntry(KeyOf[fired])
  /\ mpc' = "count"
  /\ UNCHANGED <<notMain, timer, outputVars, fired, flushing, unmatchedReqsNum>>

\* m_unmatchedReqsNum++, then the handler's thriftPtr goes out of scope.
TimeoutCount ==
  /\ mpc = "count"
  /\ unmatchedReqsNum' = unmatchedReqsNum + 1
  /\ mpc' = "poll" /\ fired' = None /\ flushing' = None
  /\ UNCHANGED <<notMain, tableVars, outputVars>>
  /\ DestroyUnreferenced

HandleTimeout ==
  \/ \E r \in Messages : TimeoutAborted(r) \/ TimeoutRun(r)
  \/ TimeoutFind \/ TimeoutPush \/ TimeoutErase \/ TimeoutCount

-----------------------------------------------------------------------------
(* The neighbours: what the receiver, the sender and stopModules do to the
   state above.  PacketReceiver and ThriftSender have modules of their own. *)

\* PacketReceiver, in a handler of the main thread, gives m to one queue.
Receive(m, w) ==
  /\ mpc = "poll" /\ m \in arriving /\ Len(inputQueue[w]) < QueueCapacity
  /\ arriving' = arriving \ {m}
  /\ inputQueue' = [inputQueue EXCEPT ![w] = Append(@, m)]
  /\ UNCHANGED <<stopThread, workerVars, tableVars, recordVars, timer, outputVars, sending,
                 mainVars>>

\* ThriftSender pops a record and holds it for one iteration of its loop.
SenderTake ==
  /\ sending = None /\ outputQueue # <<>>
  /\ sending' = Head(outputQueue)
  /\ outputQueue' = Tail(outputQueue)
  /\ UNCHANGED <<queueVars, workerVars, tableVars, recordVars, timer, offered, mainVars>>

SenderDrop ==
  /\ sending # None
  /\ sending' = None
  /\ UNCHANGED <<queueVars, workerVars, tableVars, recordVars, outputVars, mainVars>>
  /\ DestroyUnreferenced

\* SIGINT ends the main loop, and with it the polling of the io_service.
Shutdown ==
  /\ mpc = "poll"
  /\ mpc' = "stopping"
  /\ UNCHANGED <<notMain, tableVars, timer, outputVars, fired, flushing, unmatchedReqsNum>>

\* Worker::stop, one worker after the other: each is joined before the next.
Stop(w) ==
  /\ mpc = "stopping" /\ ~stopThread[w]
  /\ \A v \in Workers : stopThread[v] => wpc[v] = "stopped"
  /\ stopThread' = [stopThread EXCEPT ![w] = TRUE]
  /\ UNCHANGED <<arriving, inputQueue, workerVars, tableVars, recordVars, timer, outputVars,
                 sending, mainVars>>

\* No exception has ended the process.
Alive == \A w \in Workers : wpc[w] # "threw"

\* The last worker is joined, or the process has ended: nothing is left to do for
\* this component.
AllStopped == mpc = "stopping" /\ \A w \in Workers : wpc[w] = "stopped"
Terminated == (AllStopped \/ ~Alive) /\ UNCHANGED vars

Environment ==
  \/ \E m \in Messages, w \in Workers : Receive(m, w)
  \/ SenderTake \/ SenderDrop
  \/ Shutdown
  \/ \E w \in Workers : Stop(w)

Step ==
  \/ \E w \in Workers : HandleRadiusMessage(w)
  \/ \E r \in Messages : Expire(r)
  \/ HandleTimeout
  \/ Environment

Next == (Alive /\ Step) \/ Terminated

Spec == Init /\ [][Next]_vars

\* While the process runs every thread is scheduled, time passes, and a queued
\* handler is run: poll_one takes handlers in the order they were queued.
Fairness ==
  /\ \A w \in Workers : WF_vars(Alive /\ HandleRadiusMessage(w)) /\ WF_vars(Alive /\ Stop(w))
  /\ \A r \in Messages : /\ WF_vars(Alive /\ Expire(r))
                         /\ WF_vars(Alive /\ TimeoutAborted(r))
                         /\ WF_vars(Alive /\ TimeoutRun(r))
  /\ WF_vars(Alive /\ (TimeoutFind \/ TimeoutPush \/ TimeoutErase \/ TimeoutCount))

FairSpec == Spec /\ Fairness

-----------------------------------------------------------------------------
(* Properties *)

Pcs == {"pop", "parse", "threw", "find", "fill", "push", "erase", "arm", "insert",
        "assign", "end", "stopped"}
MessageOrNone == Messages \cup {None}

\* Every variable holds a value of its C++ type, with the queues within the
\* capacities given to set_capacity.
TypeOK ==
  /\ arriving \subseteq Messages
  /\ inputQueue \in [Workers -> Seq(Messages)]
  /\ \A w \in Workers : Len(inputQueue[w]) <= QueueCapacity
  /\ stopThread \in [Workers -> BOOLEAN]
  /\ wpc \in [Workers -> Pcs]
  /\ msg \in [Workers -> MessageOrNone]
  /\ thrift \in [Workers -> MessageOrNone]
  /\ hashTable \in [Keys -> MessageOrNone \cup {Null}]
  /\ holder \in [Keys -> Workers \cup {Main, None}]
  /\ reqList \in [Messages -> MessageOrNone]
  /\ respList \in [Messages -> MessageOrNone]
  /\ timer \in [Messages -> {"idle", "armed", "expired", "aborted", "done"}]
  /\ outputQueue \in Seq(Messages) /\ Len(outputQueue) <= ThriftCapacity
  /\ sending \in MessageOrNone
  /\ mpc \in {"poll", "find", "push", "erase", "count", "stopping"}
  /\ fired \in MessageOrNone /\ flushing \in MessageOrNone
  /\ unmatchedReqsNum \in Nat
  /\ offered \in [Messages -> Nat]

\* The null pointer that insert() leaves in a new entry (Worker.cpp:91) is
\* overwritten before any thread can get the accessor, so the unchecked
\* dereference at Worker.cpp:60 is of a record of the same flow.
NoNullExposed ==
  /\ \A k \in Keys : holder[k] = None => hashTable[k] # Null
  /\ \A w \in Workers : wpc[w] = "fill" => thrift[w] \in Messages /\ KeyOf[thrift[w]] = Key(w)

\* A record goes to the sender's queue at most once, whatever a worker that
\* matches it and a timeout handler that flushes it do at the same time.
OfferedOnce == \A r \in Messages : offered[r] <= 1

OneSided(r) == (reqList[r] = None) # (respList[r] = None)

\* An entry nobody is working on holds the attributes of exactly one message,
\* and that message has the entry's key: complete records never stay in the
\* table, so a timeout never reports a pair as unmatched.
WaitingOneSided ==
  \A k \in Keys : (holder[k] = None /\ hashTable[k] # None) =>
     LET r == hashTable[k] IN
     /\ KeyOf[r] = k /\ OneSided(r)
     /\ r \in {reqList[r], respList[r]}

\* What reaches the sender is a request, a response, or a request and a
\* response of one flow, each in its own list.
ReportsPaired ==
  \A r \in Messages : offered[r] > 0 =>
     /\ {reqList[r], respList[r]} # {None}
     /\ reqList[r] # None => reqList[r] \in Requests /\ KeyOf[reqList[r]] = KeyOf[r]
     /\ respList[r] # None => respList[r] \notin Requests /\ KeyOf[respList[r]] = KeyOf[r]

\* The counter stopModules prints never exceeds the number of records that
\* left with one list only.
UnmatchedSound ==
  unmatchedReqsNum + (IF mpc = "count" THEN 1 ELSE 0)
    <= Cardinality({r \in Messages : offered[r] > 0 /\ OneSided(r)})

\* No thread writes the lists of a record once the sender can read them: the
\* ThriftStruct has no lock of its own.
OfferedFrozen ==
  [][\A r \in Messages : offered[r] > 0 =>
       reqList'[r] = reqList[r] /\ respList'[r] = respList[r]]_vars

\* With PromptInsert: an entry that waits for a mate has a timer that will
\* flush it, or the timeout handler of its key is about to look it up.
TimerCovers ==
  \A k \in Keys : (holder[k] = None /\ hashTable[k] # None) =>
     \/ timer[hashTable[k]] \in {"armed", "expired"}
     \/ mpc = "find" /\ KeyOf[fired] = k

\* Some worker has popped m; its iteration is over.
Taken(m) == m \notin arriving /\ \A w \in Workers :
              \A i \in DOMAIN inputQueue[w] : inputQueue[w][i] # m
Handled(m) == Taken(m) /\ \A w \in Workers : msg[w] # m

\* README.md:2, all AVPs of the messages received are sent to the server:
\* a handled message is in a record that waits or was offered to the sender.
EveryMessageKept ==
  \A m \in Messages : Handled(m) =>
     \E r \in Messages : /\ m \in {reqList[r], respList[r]}
                        /\ (offered[r] > 0 \/ \E k \in Keys : hashTable[k] = r)

\* While the program runs, every entry leaves the hash table: matched, timed out or
\* replaced, also when a worker is caught in getAllAvps.
EntryLeaves ==
  \A k \in Keys, r \in Messages :
     (hashTable[k] = r) ~> (hashTable[k] # r \/ mpc = "stopping" \/ ~Alive)

\* getAllAvps does not return to the worker.
Caught(w) == wpc[w] = "parse" /\ msg[w] \in Unparsable

\* stopModules returns from every join, whatever the workers hold or wait for
\* when SIGINT comes, but from that of a worker caught in getAllAvps.
StopCompletes ==
  (mpc = "stopping") ~> (AllStopped \/ ~Alive \/ \E w \in Workers : stopThread[w] /\ Caught(w))

-----------------------------------------------------------------------------
(* The engine implements Correlation: a message takes effect when its record *)
(* is assigned to the table entry or given to the sender's queue.            *)

pendingBar == [k \in Keys |-> IF hashTable[k] \in Messages /\ offered[hashTable[k]] = 0
                              THEN hashTable[k] ELSE None]
reportsBar == {[req |-> reqList[r], resp |-> respList[r]] :
                 r \in {r \in Messages : offered[r] > 0}}
doneBar == {m \in Messages : Taken(m) /\ \A w \in Workers :
                              msg[w] = m => wpc[w] \in {"erase", "end"}}

C == INSTANCE Correlation WITH pending <- pendingBar, reports <- reportsBar, done <- doneBar

\* Whatever the interleaving of workers and timeouts, the records that leave
\* are those of the atomic Correlation.
ImplementsCorrelation == C!Spec

\* With one worker no entry is ever replaced ...
ImplementsStrictCorrelation == C!StrictSpec

\* ... and README.md:2 holds but for retransmissions: a handled message waits,
\* was offered to the sender, or met a message of its own kind and flow.
OnlyDuplicatesDiscarded == C!OnlyDuplicatesDiscarded
=============================================================================
