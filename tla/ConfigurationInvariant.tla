------------------------ MODULE ConfigurationInvariant ------------------------
(***************************************************************************)
(* The inductive invariant of Configuration: where the walk over the       *)
(* command line is and what it has counted, stored and kept so far (Walk), *)
(* and what the steps after it read (Reading).                             *)
(***************************************************************************)
EXTENDS Configuration

\* The positions before c, and those the walk has passed.
Before(T, c) == {i \in T : i < c}
Passed(T) == Before(T, current)

\* What the walk still reads is as main got it; it stands at no value of an
\* option, and at most the last argument it passed was a "--".
WalkOK ==
  /\ stage = "options" =>
       current \notin O!ValuePositions /\ \A i \in O!Separators : i >= current
  /\ stage = "rest" =>
       current - 1 \in O!Separators /\ \A i \in O!Separators : i >= current - 1
  /\ \A i \in current .. Len(commandLine) : argv[i] = commandLine[i]
  /\ stage = "parsed" => current = Len(commandLine) + 1

\* Every use passed is counted, and the last of them is stored.
CountOK ==
  \A o \in O!Longs :
    /\ Passed(O!Uses(o)) = {} => count[o] = 0
    /\ O!HasArg(o) =>
         /\ count[o] = Cardinality(Passed(O!Uses(o)))
         /\ \A i \in Passed(O!Uses(o)) :
              (\A j \in Passed(O!Uses(o)) : j <= i) => store[o] = O!Given(i) /\ store[o] \in Texts

\* The positions nobody takes, and the place of each at the front of argv.
Free == {i \in O!Positions :
           O!Behind(i) \/ (commandLine[i].kind = "text" /\ i \notin O!ValuePositions)}
Place(i) == Cardinality({j \in Free : j <= i})

KeptOK ==
  /\ nextKeep = Cardinality(Passed(Free)) + 1
  /\ \A i \in Passed(Free) : argv[Place(i)] = commandLine[i]

Line == commandLine \in CommandLines /\ argv \in Seq(Arguments) /\ Len(argv) = Len(commandLine)

Walk == stage # "threw" => WalkOK /\ CountOK /\ KeptOK

\* The address that option o gives, as the checks left it.
Taken(o, port, ipaddr) ==
  LET text == O!LastGiven(o) IN
  PortPassed(text) /\ AddressPassed(text) /\ port = Narrow(BackToken(text).n) /\ ipaddr = FrontToken(text)

Reading ==
  /\ step \notin {"parse", "refused"} =>
       /\ stage = "parsed" /\ \A o \in Mandatory : count[o] > 0
       /\ applId = O!Uint16(O!LastGiven("id"))
  /\ step \in {"thrift-addr", "accepted"} => Taken("own-addr", ownPort, ownIpaddr)
  /\ step = "accepted" => Taken("thrift-addr", thriftPort, thriftIpAddr)

\* On a well-formed command line nothing fails.
Accepting == WellFormed => stage # "threw" /\ step # "refused"

IInv == Line /\ TypeOK /\ Walk /\ Reading /\ Accepting
=============================================================================
