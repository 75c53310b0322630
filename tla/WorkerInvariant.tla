-------------------------- MODULE WorkerInvariant --------------------------
(***************************************************************************)
(* The inductive invariant of Worker, in three layers: IInv is about the   *)
(* locals of the threads and the accessors they hold, RInv about where     *)
(* each message and each record can be, and MInv about what a step of a    *)
(* thread contributes to Correlation and to the counter of timeouts.       *)
(***************************************************************************)
EXTENDS Worker

\* What the program counters say about the locals of the threads.
LocalsOK ==
  /\ \A w \in Workers :
       /\ wpc[w] \notin {"pop", "stopped"} => msg[w] \in Messages
       /\ wpc[w] \in {"fill", "push", "erase"} =>
            thrift[w] \in Messages /\ KeyOf[thrift[w]] = Key(w)
       /\ wpc[w] \in {"insert", "assign"} => thrift[w] = msg[w]
  /\ mpc \in {"find", "push", "erase", "count"} => fired \in Messages
  /\ mpc \in {"push", "erase", "count"} => flushing \in Messages

\* A thread between getting an accessor and releasing it is its holder.
AccessorOK ==
  /\ \A w \in Workers : wpc[w] \in {"fill", "push", "erase", "assign"} => holder[Key(w)] = w
  /\ mpc \in {"push", "erase"} => holder[KeyOf[fired]] = Main

\* An entry is null only while the worker that inserted it holds its accessor.
EntriesOK ==
  \A k \in Keys :
    /\ hashTable[k] \in Messages => KeyOf[hashTable[k]] = k
    /\ hashTable[k] = Null =>
         holder[k] \in Workers /\ wpc[holder[k]] = "assign" /\ Key(holder[k]) = k

IInv == TypeOK /\ LocalsOK /\ AccessorOK /\ EntriesOK

-----------------------------------------------------------------------------

\* No worker has popped m.
Queued(m) == \E w \in Workers : \E i \in 1 .. Len(inputQueue[w]) : inputQueue[w][i] = m
Unread(m) == m \in arriving \/ Queued(m)

\* A message is on its way in at one place only.
OnceOK ==
  /\ \A w \in Workers : \A i \in 1 .. Len(inputQueue[w]) : inputQueue[w][i] \notin arriving
  /\ \A v, w \in Workers : \A i \in 1 .. Len(inputQueue[v]), j \in 1 .. Len(inputQueue[w]) :
       inputQueue[v][i] = inputQueue[w][j] => v = w /\ i = j
  /\ \A w \in Workers, m \in Messages : Unread(m) => msg[w] # m
  /\ \A v, w \in Workers : msg[v] = msg[w] /\ msg[v] # None => v = w

\* Nothing refers to record r yet, or its owner has not inserted it yet.
Outside(r) == offered[r] = 0 /\ \A k \in Keys : hashTable[k] # r
Blank(r)   == reqList[r] = None /\ respList[r] = None

\* Record r holds just the list of the message it was created for.
Own(r) == IF r \in Requests THEN reqList[r] = r /\ respList[r] = None
                            ELSE respList[r] = r /\ reqList[r] = None

\* The record of a message is blank until its worker creates it.
FreshOK ==
  /\ \A m \in Messages : Unread(m) => Outside(m) /\ Blank(m)
  /\ \A w \in Workers, m \in Messages : msg[w] = m =>
       /\ wpc[w] \in {"parse", "find", "arm"} => Outside(m) /\ Blank(m)
       /\ wpc[w] \in {"insert", "assign"} => Outside(m) /\ Own(m)

\* The record a thread took from an entry stays there until it erases it.
HeldOK ==
  /\ \A w \in Workers : wpc[w] \in {"fill", "push", "erase"} => hashTable[Key(w)] = thrift[w]
  /\ mpc \in {"push", "erase"} => hashTable[KeyOf[fired]] = flushing

WorkerAt(k, pcs) == holder[k] \in Workers /\ wpc[holder[k]] \in pcs /\ Key(holder[k]) = k

\* A record in the table was not offered, and holds its own list only, except
\* under the accessor of the thread that takes it out.
TableOK ==
  \A k \in Keys, r \in Messages : hashTable[k] = r =>
    /\ \/ offered[r] = 0
       \/ WorkerAt(k, {"erase"})
       \/ holder[k] = Main /\ mpc = "erase" /\ KeyOf[fired] = k
    /\ Own(r) \/ WorkerAt(k, {"push", "erase"})
    /\ r \in {reqList[r], respList[r]}

\* The lists of a record are of its flow, and none of an offered one is missing.
ListsOK ==
  \A r \in Messages :
    /\ reqList[r] # None => reqList[r] \in Requests /\ KeyOf[reqList[r]] = KeyOf[r]
    /\ respList[r] # None => respList[r] \in Messages \ Requests /\ KeyOf[respList[r]] = KeyOf[r]
    /\ offered[r] > 0 => r \in {reqList[r], respList[r]}

RInv == OnceOK /\ FreshOK /\ HeldOK /\ TableOK /\ ListsOK /\ OfferedOnce

Inductive == IInv /\ RInv

-----------------------------------------------------------------------------

\* A worker between two iterations holds no message.
IdleOK == \A w \in Workers : wpc[w] \in {"pop", "stopped"} => msg[w] = None

\* Record r with the list of message m: beside its own if m is of the other kind.
Filled(r, m) ==
  IF (r \in Requests <=> m \in Requests) THEN Own(r)
  ELSE IF r \in Requests THEN reqList[r] = r /\ respList[r] = m
                         ELSE reqList[r] = m /\ respList[r] = r

\* A thread gives the record it holds to the sender before it erases the entry.
MatchOK ==
  /\ \A w \in Workers : /\ wpc[w] = "push" => Filled(thrift[w], msg[w])
                        /\ wpc[w] = "erase" => offered[thrift[w]] > 0
  /\ mpc = "erase" => offered[flushing] > 0

\* A worker that is alone finds its entry as it left it.
SoleOK ==
  \A w \in Workers : Workers = {w} =>
    /\ wpc[w] \in {"arm", "insert"} => hashTable[Key(w)] = None
    /\ wpc[w] = "assign" => hashTable[Key(w)] = Null

MInv == IdleOK /\ MatchOK /\ SoleOK

\* The records offered with one list only are finitely many, and there is one
\* for each timeout counted or about to be counted.
UnmatchedRecords == {r \in Messages : offered[r] > 0 /\ OneSided(r)}
CountOK ==
  /\ IsFiniteSet(UnmatchedRecords)
  /\ unmatchedReqsNum + (IF mpc \in {"erase", "count"} THEN 1 ELSE 0) <= Cardinality(UnmatchedRecords)

-----------------------------------------------------------------------------

TimeoutPending(r) == timer[r] \in {"armed", "expired"}
HandlerAt(k, pcs) == mpc \in pcs /\ KeyOf[fired] = k

\* With PromptInsert, a record gets into the table with its wait pending or its
\* handler about to look for it, and stays there only as long as this is so,
\* or in the hands of the thread that takes it out.
TimerOK ==
  /\ \A w \in Workers :
       /\ wpc[w] = "insert" => timer[thrift[w]] = "armed"
       /\ wpc[w] = "assign" => TimeoutPending(thrift[w]) \/ HandlerAt(Key(w), {"find"})
  /\ \A k \in Keys : hashTable[k] \in Messages =>
       \/ TimeoutPending(hashTable[k])
       \/ WorkerAt(k, {"push", "erase"})
       \/ HandlerAt(k, {"find", "push", "erase"})
=============================================================================
