# A TLA+ model of the RADIUS event handler

The program (`src/radius_event_handler/`) receives RADIUS accounting messages
on a UDP socket, pairs each request with its response, and sends the attributes
(AVPs) of each pair, or of a message whose mate never came, to another server.
This directory models it in TLA+, checks the models with TLC, and proves every
safety property that holds of it, and both refinements, with TLAPS.

File and line references are to `src/radius_event_handler/` unless they say
otherwise.

## 1. Inventory

| component | state | operations | talks to |
|---|---|---|---|
| `PacketReceiver` | UDP socket, `m_workerIndex`, the pending receive | `receiveRaduisMessage` (filter, flow key), `handleRadiusEvent` (dispatch) | one bounded queue per worker |
| `Worker` (4 threads) | `stop_thread`, locals of one iteration; shares the hash table and the counter with all others | `handleRadiusMessage`, `getAllAvps`, `handleTimeout` (on the main thread), `start`, `stop` | pops its queue; hash table; timers; pushes to the sender's queue |
| hash table (`tbb::concurrent_hash_map`) | flow key -> `ThriftPtr`, one lock (accessor) per entry | `find`, `insert`, `erase` | workers, timeout handler |
| `ThriftStruct` | two AVP lists, key, deadline timer | written by workers, read by the sender, no lock | |
| `ThriftSender` (1 thread) | `stop_thread`, `m_thriftStructsSent`, socket | `sendThriftStructures`, `start`, `stop` | pops the sender's queue, UDP |
| `RadiusEventHandler` / `main` | all of the above, `isShutdownStarted`, the io_service | create, start, poll loop, stop in reverse order | |
| `Configuration` | `m_applId`, own and Thrift address and port | `getConfigFromProgramOptions`: add options, parse, check | `cxxopts`; read by receiver and sender at start |
| `cxxopts` | per option a count and a value; `argv`, rewritten in place | `parse`, `count`, `operator[]` | |
| `Utils` | constants, keys, messages, hashing, printing | | |

Threads: the main thread runs the io_service, so the receive handler and the
timeout handlers never overlap each other; the four workers and the sender run
beside it.

What is hard here:

* a worker looks a key up, finds nothing, and inserts much later
  (`Worker.cpp:57`, `:91`), while another worker does the same;
* an entry is visible with a null record between `:91` and `:92`;
* a worker and a timeout handler may both want the record of a key; a timer
  that was cancelled may have expired already; a handler may find a newer record
  under its key;
* records are shared by pointer without a lock and handed to another thread;
* queues are bounded and a refused record is dropped without a trace (`:73`,
  `:115`);
* the receive handler asks one queue after another while the workers pop;
* the command line is rewritten while it is read, an option may swallow the next
  one, and a port is checked as an `int` and kept in 16 bits;
* main's objects hold references to each other and are destroyed one by one,
  the io_service before some of the objects that use it;
* SIGINT may come at any moment, and the threads are stopped one by one;
* the attribute walk (`getAllAvps`) may not end, or throw; the exception leaves
  the thread function, which ends the process, and a walk that does not end
  takes its worker out of service and keeps main waiting for it.

The complete list, each at its line, is under `hazards` in `PROJECT.json`.

What makes each part correct:

* receiver: a message is dropped only after every queue refused it; load is
  balanced; a flow key stands for one remote endpoint and identifier;
* parser: what is returned covers the message; well-formed messages are returned;
* workers: no message in two records, no record sent twice or changed after it
  was sent, only messages of one flow in a record, each entry leaves the table;
* sender and life cycle: every message and every record is in one place, no
  attributes are sent twice, the sender's printed count is exact, what was queued
  is handled until SIGINT and the process ends after SIGINT unless a worker is
  caught in `getAllAvps`, and nothing is destroyed before all threads are joined;
* configuration: it is what the command line says, and a well-formed command
  line is accepted.

## 2. Modules

| module | models | how |
|---|---|---|
| `Correlation` | what the engine promises | no threads: one step per message or timeout (`Open`, `Match`, `Clash`, `Expire`, `Replace`). `StrictSpec` is the engine without `Replace`, the loss of a record |
| `Worker` | `Worker.cpp:14-125`, `ThriftStruct` and its timer | one step per access to shared state; `wpc` and `mpc` are the program counters of the workers and of the main thread |
| `AvpParser` | `getAllAvps`, `Worker.cpp:127-163` | a message is its length field and its length octets |
| `PacketReceiver` | `PacketReceiver.cpp` | one step per received datagram and one per `try_push`, because workers pop in between |
| `Dispatch` | what the receiver promises the workers | `Accept`, `Push` to a queue with room, `Refuse` by a full one, `Pop`; a message is lost only when all have refused it. `PacketReceiver` implements it |
| `Options` | `cxxopts::Options::parse` | one step per argument looked at (`Separator`, `KeepText`, `ShortCluster`, `LongFlag`, `LongEquals`, `LongNext`), `Throw`, `Finish`; the reference definitions tell the same by positions |
| `Configuration` | `Configuration.cpp` | `INSTANCE Options` with the four options of the program, then one step per option read or refused |
| `ThriftSender` | `ThriftSender.cpp` | one step per access to the queue, the socket, the counter and the flag |
| `RadiusEventHandler` | `RadiusEventHandler.cpp` | main, composed of `INSTANCE ThriftSender`, `INSTANCE Dispatch` and `INSTANCE Correlation` (one step of it per message) with the workers' loops |
| `MC*` | | the instances TLC checks |
| `WorkerInvariant`, `RadiusEventHandlerInvariant`, `ConfigurationInvariant` | | the inductive invariants, apart from the proofs so that TLC can check them |
| `WorkerProofs`, `WorkerRecordProofs`, `WorkerRefinementProofs`, and one `*Proofs` each for `Correlation`, `PacketReceiver`, `AvpParser`, `RadiusEventHandler` and `Configuration` (with `Options`) | | the theorems of section 5 |

`RadiusEventHandler` takes a worker's iteration as one step of `Correlation`:
`Worker` implements `Correlation` (`ImplementsCorrelation`, mapping at the end of
`Worker.tla`; run `worker_safety`, theorem `EngineRefinesCorrelation`), and a
worker looks at its stop flag only between iterations. In the same way
`PacketReceiver` implements `Dispatch` (`ImplementsDispatch`; run
`receiver_dispatch`, theorem `RoundRobinDispatches`), so the composition tries the
queues in any order, one step each, and a worker may pop between two tries. Main's phases: `configure`,
`create`, `start`, `check`/`poll`/`dispatch` (the loop), `stop`/`join`,
`destroy`, `exit`; `gone` counts the objects destroyed (`Destruction`). A worker's
iteration has three ends: `WorkerHandle`, if `getAllAvps` returns; `WorkerCaught`, if
it never does (`Worker.cpp:144-161`); `WorkerThrows` (`:155`), which takes the process
to the phase `aborted`. This module knows nothing of a message but its name, so
each message may take any of the three; on which ones the code loops or throws is
what `AvpParser` tells (`Spin`, `Throw`).

How `Worker` corresponds to the code:

* `Pop`, `Leave` - the loop condition and `try_pop` (`:37-47`); a pass over an
  empty queue changes nothing and is a stutter;
* `Parse` - `:49-51`; messages in `Unparsable` never get past it. `ParseThrows` -
  the `length_error` of `:155` on messages in `Fatal`: no thread takes a step
  after it (`Alive`);
* `Find` - `:56-57`; a hit returns holding the accessor. A step whose accessor
  is held is disabled: TBB spins until it is free;
* `Fill`, `Push`, `Erase` - `:60-71`, `:73`, `:75`;
* `Arm`, `Insert`, `Assign` - `:80-89`, `:91`, `:92-94`. `Insert` returns the
  existing entry if there is one: nobody looks at its result;
* `EndIteration` - the locals go out of scope; the last reference to a record
  destroys it and aborts its timer (`DestroyUnreferenced`);
* `Expire`, `TimeoutAborted`, `TimeoutRun`, `TimeoutFind`, `TimeoutPush`,
  `TimeoutErase`, `TimeoutCount` - the timer and `handleTimeout` (`:101-125`).
  `poll_one` runs one handler to its end, so there is one `mpc`;
* `Receive`, `SenderTake`, `SenderDrop`, `Shutdown`, `Stop` - the neighbours.

An argument of the command line is a record of its kind, names, value and text
(see the head of `Options.tla`), and a text is the sequence of its parts between
colons, told apart by what `stoi`, `operator>>` and `inet_pton` make of them.
`argv` is rewritten in place as in the code, and `commandLine` keeps what main got.

A record is named by the message whose handling created it. AVP lists are named
by the message they were parsed from: properties need to tell whose attributes a
record holds, not what they are.

The operators called `TryPushUnbounded`, `EraseNothing`, `FillUnchecked` and the
like are faulty variants of the operator they precede. No action uses them; put
in place of that operator they show which property notices the fault (listed as
`mutants` in `PROJECT.json`).

## 3. Runs

| run | instance | shows |
|---|---|---|
| `worker_safety` | 2 workers, requests q1 q2 and response p1 of one key, queues of 2 and 1; a timer may expire before the insert; symmetry on workers | `NoNullExposed`, `OfferedOnce`, `WaitingOneSided`, `ReportsPaired`, `UnmatchedSound`, `OfferedFrozen`, `ImplementsCorrelation` |
| `worker_liveness` | 2 workers, one pair, one message on which `getAllAvps` loops, prompt insert, no symmetry | `TimerCovers`, `EntryLeaves`, `StopCompletes` |
| `worker_atomic` | 1 worker, q1 q2 p1 of one key, p2 of another, one message on which `getAllAvps` throws | `ImplementsStrictCorrelation`, `OnlyDuplicatesDiscarded` |
| `worker_race` | 2 workers, one pair | violates `EveryMessageKept` |
| `shutdown` | 2 workers, three messages of one flow, queues of 1, SIGINT and exceptions at any time, `getAllAvps` may loop or throw on any message | `Accounted`, `MessageOnce`, `SentCountExact`, `SentOnce`, `JoinedAndCleared`, `FailedStartTakesNothing`, `NothingAfterSenderStop`, `ShutdownCompletes`, `Progress` |
| `shutdown_graceful` | the same | violates `GracefulShutdown` |
| `correlation` | 5 messages, 2 flows | `ReportedOnce`, `ReportsOfOneFlow` |
| `avp_all` | every message of 0 to 10 octets and up to 3 length octets from 0-5 and 255 | `ReturnsWholeMessage`, `WellFormedParsed` |
| `avp_empty_value` | the same | violates `EmptyValuesParsed` |
| `receiver_dispatch` | 8 kinds of datagrams, 5 accepted, 3 queues of 1 | `BalancedLoad`, `DroppedAfterAll`, `ImplementsDispatch`, `FlowKeySound`, `HandlerReturns` |
| `receiver_length` | datagrams with other lengths than they announce | violates `QueuedMessagesComplete` |
| `configuration` | 54241 command lines: every one of up to 4 pieces out of 15 | `LastUseWins`, `RestKept`, `ConfiguredAsGiven`, `WellFormedAccepted` |

Why the bounds suffice. Threads interfere only through one key's entry and the
sender's queue, so one flow with two workers and the main thread has every
conflict of two workers, of worker and timeout, and of all three; the third
message gives the retransmission and the entry that is opened again after it
was erased. Capacity 1 of the sender's queue makes "full" an ordinary state. Two
flows appear where one worker leaves room for them (`worker_atomic`), and in
`correlation`. One message that does not parse is enough in `Worker`: it takes one
worker out of service while the other goes on, or ends the process. The theorems
have no bounds. Three queues are the least in which "the next one" and "the
others" differ. `MaxBody = 10` leaves room for three
attributes, with every way to end short of, at and past the length field; the
octet 255 stands for lengths beyond any rest. The code's capacities and the
number of workers (`Utils.hpp:47-71`) are constants of the modules.

Each mandatory option is one piece of a command line, so four pieces are the
least that leave room for one more: a repeated option, `--`, a flag, an option
that swallows its neighbour, a stray text. The pieces have both forms of a value,
ports below, at and above the limits 1024, 65535 and `INT_MAX` (99999 in the
runs, with the port 100000 beyond it), a negative number that looks
like a cluster of letters, an address with a colon too many. With three messages
and two queues of one, `shutdown` reaches the overload of all queues and the
queue that gets room between two tries. In `receiver_dispatch` every accepted
datagram comes from port 1813, below the local one, as the filter asks; the other
order of ports is covered by the theorem `KeysSeparateFlows` only.

What the violations mean:

* `worker_race`: two workers take a request and its response at the same time
  and both find no entry; the second insert gets the first one's entry and
  `:92` replaces its record, whose destructor aborts its timer. One message is
  never sent and never counted. `README.md:2` says all AVPs are sent.
* `shutdown_graceful`: `RadiusEventHandler.cpp:34` announces a graceful
  shutdown, but `stop()` ends the loops without draining the queues.
* `avp_empty_value`: an attribute of two octets at the end of a message makes
  the condition at `Worker.cpp:148` false, and the loop of `:144` repeats for ever. The
  walk is right for attributes with values (`WellFormedParsed`).
* `receiver_length`: the comment at `PacketReceiver.cpp:89-90` asks whether
  the number of bytes received equals the length field, but the condition does
  not look at `bytesNum`.

Read in the code, without a run: the comment at `Worker.cpp:138` says "Return
empty pointer", but the list returned is never null; a timeout handler flushes
whatever record its key has by then, so a fresh message may leave before its two
seconds are over (`Correlation!Expire` allows it at any time); a receive error
ends reception for good (`PacketReceiver.cpp:76`, `pc = "dead"`). Of the two numbers `stopModules` prints, the sender's is exact
(`SentCountExact`), and `m_unmatchedReqsNum` (`RadiusEventHandler.cpp:99`) is sound
(`UnmatchedSound`), not complete: it does not count a request that leaves alone
because its retransmission came (`Worker.cpp:70`); a record refused by a full
sender's queue (`:73`, `:115`) is lost without a trace, and `Accounted` admits it
as `refused`.

Read in the configuration and at the end of main, without a run:

* a port is checked against 1024 as an `int` and narrowed to 16 bits afterwards
  (`Configuration.cpp:67-80`, `:95-101`): 65616 passes and becomes 80, a port that
  the check calls a "Wrong own port parameter". `ConfiguredAsGiven` therefore speaks
  of ports up to `Uint16Max`. A port above `INT_MAX` is refused, since `stoi` throws
  `out_of_range` (`:66`, `:94`, caught at `:118`); `WellFormed` asks for ports in
  1024 .. 65535;
* `Configuration.cpp:104` writes the Thrift server's address over
  `m_ownAddress`; `m_thriftServerAddress` stays zero. Nobody reads either: the
  receiver and the sender use the strings;
* `--id -5` is accepted and gives 65531; `ip:port:` is accepted, since `getline`
  leaves out an empty last token;
* the destructor's `m_hashTable.clear()` destroys the timers of waiting entries
  before `m_io` (`JoinedAndCleared`). It does not do so for all that refers to the
  io_service: the receiver's socket and the timers of the records left in
  `m_thriftQueuePtr` are destroyed after it (`RadiusEventHandler.hpp:34-38`). No
  property claims otherwise.

## 4. Fairness and assumptions

* Weak fairness of each thread's step: threads are scheduled by the OS and an
  accessor is held only for a few steps. Enough, because the holder of an
  accessor never waits for another one.
* Weak fairness of `Expire`, `TimeoutAborted`, `TimeoutRun`: time passes, and
  `poll_one` takes queued handlers in order. Main returns to `poll` after each
  handler, so a handler is not shut out by the receiver.
* `HandlerReturns` asks only for `TryPush`: the handler runs on.
* `Progress` asks for the same as `ShutdownCompletes`; it says nothing once SIGINT
  came or the process ended, and of a message that a worker caught in `getAllAvps`
  holds, or has in its queue, it does not say that it is ever handled.
* `ShutdownCompletes` asks for main, workers and sender; not for SIGINT.
* `PromptInsert` (only `worker_liveness`): two seconds outlast the lines
  `Worker.cpp:88-91`. Without it a handler may find no entry yet and the entry
  would stay; `worker_safety` does not make this assumption.
* `getAllAvps` need not return. In `Worker`, the constants `Unparsable` and `Fatal`
  are the messages on which it loops and throws: `worker_liveness` has one of the
  first kind, `worker_atomic` one of the second, `worker_safety` and `worker_race`
  have none. In `RadiusEventHandler` any message may be such a one. A worker caught
  in the loop is never joined, so `StopCompletes` and `ShutdownCompletes` say that
  main ends or waits for such a worker; after a throw the process is over and
  liveness says nothing.
* The flags `stop_thread` and `isShutdownStarted` are plain `bool`s. Each
  iteration of their loops calls functions the compiler cannot see through, so
  the read is not hoisted; a stale read is only a later one.
* Threads interleave in a sequentially consistent way: the shared structures
  are TBB's and lock internally; `OfferedFrozen` is what the unlocked lists need.

## 5. Proofs

Every theorem is about a module's `Spec`, for every value of its constants that
the module's ASSUMEs allow; TLC evaluates those in every run of the module.

| theorem | statement |
|---|---|
| **Worker** (`WorkerProofs`, `WorkerRecordProofs`, `WorkerRefinementProofs`): any number of workers, messages and keys, any capacities, with or without `PromptInsert` | |
| `TypeCorrect` | `[]TypeOK` |
| `NeverNull` | `[]NoNullExposed` |
| `NoDoubleReport` | `[]OfferedOnce` |
| `WaitingIncomplete` | `[]WaitingOneSided` |
| `PairsOfOneFlow` | `[]ReportsPaired` |
| `NoWriteAfterPublish` | `OfferedFrozen` |
| `EntriesTimed` | `[]TimerCovers`, if `PromptInsert` |
| `TimeoutsSound` | `[]UnmatchedSound` |
| `EngineRefinesCorrelation` | `ImplementsCorrelation` |
| `SoleEngineIsStrict` | `ImplementsStrictCorrelation`, for one worker |
| `MessagesLeaveOnce` | `[]ReportedOnce` of `Correlation`, for the messages and records of `Worker` |
| `SoleEngineKeeps` | `[]OnlyDuplicatesDiscarded`, for one worker |
| **Correlation** (`CorrelationProofs`): any messages and keys | |
| `TypeCorrect`, `NoDoubleReport`, `RecordsOfOneFlow` | `[]TypeOK`, `[]ReportedOnce`, `[]ReportsOfOneFlow` |
| `AtomicLosesDuplicatesOnly` | `StrictSpec => []OnlyDuplicatesDiscarded` |
| **PacketReceiver** (`PacketReceiverProofs`): 1 to 256 queues (`numberOfTries` has 8 bits) of any capacity, any datagrams | |
| `TypeCorrect`, `LoadBalanced`, `KeysSeparateFlows` | `[]TypeOK`, `[]BalancedLoad`, `[]FlowKeySound` |
| `DropsAfterAll` | `DroppedAfterAll` |
| `RoundRobinDispatches` | `ImplementsDispatch` |
| **RadiusEventHandler** (`RadiusEventHandlerProofs`): any number of workers and messages, any capacities | |
| `TypeCorrect`, `OneWorkerOnce`, `RecordsAccounted`, `SenderCountsExactly`, `SendsOnce`, `DestroysAfterJoins`, `StartLosesNothing` | `[]TypeOK`, `[]MessageOnce`, `[]Accounted`, `[]SentCountExact`, `[]SentOnce`, `[]JoinedAndCleared`, `[]FailedStartTakesNothing` |
| `SenderStoppedLast` | `NothingAfterSenderStop` |
| **AvpParser** (`AvpParserProofs`): messages of any length and content | |
| `TypeCorrect`, `WholeMessage` | `[]TypeOK`, `[]ReturnsWholeMessage` |
| `WellFormedNotRejected` | `[]WellFormedTaken`: a message of attributes with values is never given up; that its walk also ends is `WellFormedParsed` |
| **Configuration** and **Options** (`ConfigurationProofs`): command lines of any length and content | |
| `TypeCorrect`, `LastUseKept`, `RestStays`, `ConfiguresAsGiven`, `AcceptsWellFormed` | `[]TypeOK`, `[]LastUseWins`, `[]RestKept`, `[]ConfiguredAsGiven`, `[]WellFormedAccepted` |

The arguments:

* **Worker** has three layers (`WorkerInvariant`).
  1. `IInv`: types; what each program counter says about the thread's locals
     (`LocalsOK`); a thread between getting an accessor and giving it back is its
     holder (`AccessorOK`); a null entry belongs to the worker about to assign it
     (`EntriesOK`). The accessor is what makes two threads' steps on one key
     exclusive, and `NoNullExposed` alone does not know it.
  2. `RInv` adds where a message and a record can be: a message is in one place
     on its way in (`OnceOK`); a record is blank and in no table until its worker
     inserts it (`FreshOK`); a record in hand is offered only between push and
     erase (`HeldOK`); a free entry's record is unoffered and one-sided
     (`TableOK`); a record holds lists of its own flow and kind (`ListsOK`).
     `OfferedOnce` follows because a record that leaves is removed from the table
     under the accessor, and can come back only by its own worker's insert, which
     happens once.
  3. `MInv` adds what a step contributes to `Correlation`: a match joins the lists
     of two messages of different kinds, or leaves the record as it was. A
     message takes effect at `Push` or `Assign` and a timeout at `TimeoutPush`;
     every other step is a stutter of the mapping. With one worker, no entry
     appears between its find and its insert (`SoleOK`), so `Replace` never
     happens. `CountOK` counts the one-sided records offered against the counter;
     `TimerOK` follows an entry's timer from `Arm` on.
* **Correlation**: what waits under a key is a handled message of that key
  (`PendingOwn`), reports are of handled messages of one key (`MembersHandled`), and
  no message is in two of these places (`ReportedOnce`).
* **PacketReceiver**: the queues that refused a message are the `tries` ones
  behind the next, going round (`RoundOK`), and all queues before
  `m_workerIndex` have got one message more than the others (`LoadOK`).
* **RadiusEventHandler**: where main is says which threads run and what they can
  have touched (`Control`); a message is in one worker's hands, at one place of
  one queue, in the receiver's hands, on the network or done (`Transit`); a
  record is in one place, and the places add up (`Ledger`). `SendsOnce` adds that
  no message is in two records, or in one and still waiting (`ReportedOnce` of
  `Correlation`).
* **AvpParser**: the attributes taken are contiguous and end at the offset. That a
  well-formed message is not given up needs the position at which each run of its
  attributes ends, a recursive function: its facts are proved by taking the least
  number at which one would fail (`SetInduction`, from the library's
  `WFMin`).
* **Configuration**: the walk over the command line never stands at the value of
  an option (`WalkOK`), although which positions are values is defined by the
  parity of a run of options (`ValueAlternates`); what was counted and stored is
  that of the uses passed (`CountOK`), what was kept is at the place its position
  tells (`KeptOK`), and what main reads then is the last use of each option
  (`Reading`). A well-formed command line gives neither `Throw` nor a check a
  reason to fail (`Accepting`).

Each invariant, or each of its parts, was checked with TLC on the instance of a
run first. The proofs have one lemma per action where an action disturbs more than
one part, and the temporal theorems combine them with PTL.

The assumptions are the ASSUMEs of the modules: flows and kinds of messages are
fixed and the markers for "nothing" are none of them; capacities are numbers;
no message is both `Unparsable` and `Fatal` (`ParseAssumption`); an `int` holds
every port (`IntMaxAssumption`); `MessageAssumption` (`AvpParser.tla`) is what
`PacketReceiver.cpp:91` lets through; `CommandLineAssumption` (`Configuration.tla`) is what the regular
expression of `option_matcher` (`cxxopts.hpp:883`) gives: one name behind `--`,
of two characters at least, so that no letter of a cluster is a long name.
`EntriesTimed` has the hypothesis `PromptInsert` (section 4), without which the
property is false, and `SoleEngineIsStrict` and `SoleEngineKeeps` are about one
worker, since `worker_race` refutes them for two.

Only model-checked:

* liveness (`EntryLeaves`, `StopCompletes`, `HandlerReturns`, `WellFormedParsed`,
  `ShutdownCompletes`, `Progress`): fairness and ENABLED are out of
  the proof system's reach here;
* the four violations, which need one behaviour each;
* no run or theorem composes `Worker` itself with main: `RadiusEventHandler` uses
  `Correlation` in its place, on the grounds of the refinement.

## 6. Not modelled

* Of `cxxopts.hpp`: default and implicit values, containers, positional options
  and short options with an argument (`Configuration.cpp:31-36` adds none, so
  these branches are not taken), and the layout of the help text.
* The destructors of boost and TBB objects; only their order is modelled.
* Text, logging, AVP values, the text archive of
  the sender, its unused save and restore functions.
* `ConnectivityManager.hpp` declares nothing. TBB and boost are third party,
  modelled from how the code uses them. `src/udp_client` is a test sender of two datagrams. Build files.

## 7. Plan

Done: every model of the plan, and the proofs of all safety properties, action
properties and refinements that the runs check.

What is left to do:

1. `Dispatch`: what it promises on its own (a message is in one queue or none, and
   dropped only when all have refused), as theorems of its `Spec`, carried over to
   `PacketReceiver` and `RadiusEventHandler` through their refinements, as
   `MessagesLeaveOnce` does for `Correlation`.
2. The steps that liveness rests on, stated without ENABLED: a bound that each
   step of the receive handler, of `getAllAvps` on a well-formed message and of
   the walk over the command line decreases.
3. `RadiusEventHandler`: main joins a thread only after its flag is set, as an
   action property.
