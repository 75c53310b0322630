-------------------- MODULE RadiusEventHandlerInvariant --------------------
(***************************************************************************)
(* The inductive invariant of RadiusEventHandler: where main is and what   *)
(* that says of the threads (Control), where each message is (Transit),    *)
(* and where each record is (Ledger).                                      *)
(***************************************************************************)
EXTENDS RadiusEventHandler

\* Before the main loop, and after a start-up that failed.
Starting == phase \in {"configure", "create", "start"} \/ (phase = "exit" /\ ~senderStop)

\* Until then nothing is received, so the threads that run find nothing to do.
StartOK ==
  Starting =>
    /\ network = Messages /\ done = {} /\ reports = {} /\ outputQueue = <<>>
    /\ receiving = None /\ spc \in {"absent", "loop"}
    /\ \A w \in Workers :
         inputQueue[w] = <<>> /\ wpc[w] \in {"absent", "loop"} /\ ~stopThread[w]
    /\ \A k \in Keys : pending[k] = None
    /\ gone = 0 /\ ~senderStop
    /\ phase \in {"configure", "create"} => module = 0

LoopOK ==
  phase \in {"check", "poll", "dispatch"} => module = NumWorkers + 1 /\ gone = 0 /\ ~senderStop

\* The modules after the one whose turn it is have returned.
StopOK ==
  /\ phase \in {"stop", "join"} =>
       /\ module \in Modules /\ gone = 0
       /\ \A w \in Workers : w > module => wpc[w] = "stopped"
       /\ senderStop <=> phase = "join" /\ module = Sender
  /\ phase = "destroy" => gone < Len(Destruction)
  /\ phase = "destroy" \/ (phase = "exit" /\ senderStop) =>
       senderStop /\ spc = "stopped" /\ \A w \in Workers : wpc[w] = "stopped"
  /\ phase = "aborted" => gone = 0 /\ ~senderStop

Control == StartOK /\ LoopOK /\ StopOK

-----------------------------------------------------------------------------

\* A message is in a worker's hands, in one place of one queue, on its way there,
\* not received or done, and never in two of these.
HandsOK ==
  \A w \in Workers :
    /\ msg[w] # None <=> wpc[w] \in {"busy", "caught"}
    /\ msg[w] \notin network \cup done
    /\ msg[w] # None => msg[w] # receiving /\ \A v \in Workers : msg[v] = msg[w] => v = w

QueuesOK ==
  \A w \in Workers : \A i \in 1 .. Len(inputQueue[w]) :
    /\ inputQueue[w][i] \notin network \cup done \cup {receiving}
    /\ \A v \in Workers : inputQueue[w][i] # msg[v]
    /\ \A v \in Workers : \A j \in 1 .. Len(inputQueue[v]) :
         inputQueue[v][j] = inputQueue[w][i] => v = w /\ j = i

Transit == HandsOK /\ QueuesOK /\ receiving \notin network \cup done /\ network \cap done = {}

-----------------------------------------------------------------------------

InHand  == IF spc = "send" THEN {msgToSend} ELSE {}
WentOut == {x \in reports : S!FillPlain(x) \in sent}

\* Every record handed over is in one place, each place holds it once, and what
\* was sent was made of a record handed over.
Places ==
  /\ reports = refused \cup S!Queued \cup InHand \cup WentOut \cup failed
  /\ \A i, j \in 1 .. Len(outputQueue) : outputQueue[i] = outputQueue[j] => i = j
  /\ S!Queued \cap (refused \cup InHand \cup WentOut \cup failed) = {}
  /\ InHand \cap (refused \cup WentOut \cup failed) = {}
  /\ WentOut \cap (refused \cup failed) = {}
  /\ refused \cap failed = {}
  /\ sent = {S!FillPlain(x) : x \in WentOut}
  /\ spc \in {"send", "count"} => msgToSend \in C!Records

\* The records are finitely many, and the counters are those of the places.
Counts ==
  /\ \A T \in {reports, refused, failed, sent} : IsFiniteSet(T)
  /\ Cardinality(reports) = Cardinality(refused) + Len(outputQueue) + Cardinality(InHand)
                              + Cardinality(sent) + Cardinality(failed)
  /\ thriftStructsSent + (IF spc = "count" THEN 1 ELSE 0) = Cardinality(sent)

Ledger == Places /\ Counts
=============================================================================
