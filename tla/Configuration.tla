---------------------------- MODULE Configuration ----------------------------
(***************************************************************************)
(* Configuration::getConfigFromProgramOptions (Configuration.cpp): the     *)
(* options are parsed (module Options), and the application id and the two *)
(* addresses are read and checked.  A step is one option; the first check  *)
(* that fails, or an exception, makes the result false, and main exits.    *)
(*                                                                         *)
(* AnyPort and NotNarrowed are faulty variants of the operators after      *)
(* them, used by no action.                                                *)
(***************************************************************************)
EXTENDS Integers, FiniteSets, Sequences

CONSTANTS
  CommandLines, None,
  IntMax   \* INT_MAX of the build

VARIABLES
  commandLine, argv, current, nextKeep, count, store, stage, \* as in Options
  step,     \* the option read next; "accepted" and "refused" are the results
  applId, ownPort, ownIpaddr, thriftPort, thriftIpAddr, \* m_applId ...
  ownAddress, thriftServerAddress                       \* their in_addr

\* The options that are added before the command line is parsed.
Params == {[short |-> "h",  long |-> "help",        type |-> "bool"],
           [short |-> None, long |-> "id",          type |-> "uint16"],
           [short |-> None, long |-> "own-addr",    type |-> "string"],
           [short |-> None, long |-> "thrift-addr", type |-> "string"]}
Mandatory == {"id", "own-addr", "thrift-addr"}

\* What option_matcher can make of an argument: one name behind "--", letters behind
\* "-", and no letter is a long name.
Parts == [kind : {"number", "prefixed", "ip", "empty", "junk"}, n : Int]
Texts == Seq(Parts) \ {<<>>}
Arguments == [kind : {"separator", "long", "cluster", "text"}, names : Seq(STRING),
              value : {None} \cup Texts, text : Texts]

ASSUME NoneAssumption == None \notin {"h", "help", "id", "own-addr", "thrift-addr"} \cup Parts
\* An int holds every port.
ASSUME IntMaxAssumption == IntMax \in Nat /\ IntMax >= 65535
ASSUME CommandLineAssumption ==
  \A line \in CommandLines :
    /\ line \in Seq(Arguments)
    /\ \A i \in DOMAIN line :
         /\ line[i].kind = "long" => Len(line[i].names) = 1
         /\ line[i].kind = "cluster" =>
              \A n \in DOMAIN line[i].names : \A spec \in Params : line[i].names[n] # spec.long

O == INSTANCE Options WITH Specs <- Params

walkVars == <<commandLine, argv, current, nextKeep, count, store, stage>>
ownVars == <<ownPort, ownIpaddr, ownAddress>>
thriftVars == <<thriftPort, thriftIpAddr, thriftServerAddress>>
vars == <<walkVars, step, applId, ownVars, thriftVars>>

SOCK_PORT_HIGH_BOUND == 1024

Init ==
  /\ O!Init
  /\ step = "parse"
  /\ applId = 0
  /\ ownPort = None /\ ownIpaddr = None /\ ownAddress = None
  /\ thriftPort = None /\ thriftIpAddr = None /\ thriftServerAddress = None

-----------------------------------------------------------------------------
(* What the checks of an address look at. *)

\* split(text, ':'): getline leaves out an empty part at the end.
Split(text) ==
  IF text[Len(text)].kind = "empty" THEN SubSeq(text, 1, Len(text) - 1) ELSE text

\* std::stoi reads the digits in front: it throws invalid_argument if there are none,
\* and out_of_range if they do not fit an int. Both end in the same refusal.
HasNumber(part) == part.kind \in {"number", "prefixed", "ip"} /\ part.n \in -IntMax - 1 .. IntMax

\* A port that is not refused, and the unsigned short it becomes.
AnyPort(n) == TRUE
PortAllowed(n) == ~(n < SOCK_PORT_HIGH_BOUND)
NotNarrowed(n) == n
Narrow(n) == n % (O!Uint16Max + 1)

\* The token in front and the one at the back, when there are two.
FrontToken(text) == Split(text)[1]
BackToken(text) == Split(text)[2]
PortPassed(text) == Len(Split(text)) = 2 /\ HasNumber(BackToken(text)) /\ PortAllowed(BackToken(text).n)
\* inet_pton takes the token as an IPv4 address.
AddressPassed(text) == FrontToken(text).kind = "ip"

-----------------------------------------------------------------------------
Parse ==
  /\ step = "parse" /\ O!Next
  /\ UNCHANGED <<step, applId, ownVars, thriftVars>>

Refuse == step' = "refused" /\ UNCHANGED <<walkVars, applId>>

\* OptionException is caught.
ParseThrew == step = "parse" /\ stage = "threw" /\ Refuse /\ UNCHANGED <<ownVars, thriftVars>>

Parsed == step = "parse" /\ stage = "parsed"
PrintHelp == Parsed /\ O!Count("help") > 0 /\ Refuse /\ UNCHANGED <<ownVars, thriftVars>>

MissingMandatory ==
  /\ Parsed /\ O!Count("help") = 0 /\ \E o \in Mandatory : O!Count(o) = 0
  /\ Refuse /\ UNCHANGED <<ownVars, thriftVars>>

ReadId ==
  /\ Parsed /\ O!Count("help") = 0 /\ \A o \in Mandatory : O!Count(o) > 0
  /\ applId' = O!Uint16(O!TextOf("id"))
  /\ step' = "own-addr"
  /\ UNCHANGED <<walkVars, ownVars, thriftVars>>

ReadOwnAddress ==
  LET text == O!TextOf("own-addr") IN
  /\ step = "own-addr" /\ PortPassed(text) /\ AddressPassed(text)
  /\ ownAddress' = FrontToken(text)
  /\ ownPort' = Narrow(BackToken(text).n)
  /\ ownIpaddr' = FrontToken(text)
  /\ step' = "thrift-addr"
  /\ UNCHANGED <<walkVars, applId, thriftVars>>

RefuseOwnAddress ==
  LET text == O!TextOf("own-addr") IN
  /\ step = "own-addr" /\ ~(PortPassed(text) /\ AddressPassed(text))
  /\ Refuse /\ UNCHANGED <<ownVars, thriftVars>>

\* The address is written to m_ownAddress, not to m_thriftServerAddress.
ReadThriftAddress ==
  LET text == O!TextOf("thrift-addr") IN
  /\ step = "thrift-addr" /\ PortPassed(text) /\ AddressPassed(text)
  /\ ownAddress' = FrontToken(text)
  /\ thriftPort' = Narrow(BackToken(text).n)
  /\ thriftIpAddr' = FrontToken(text)
  /\ step' = "accepted"
  /\ UNCHANGED <<walkVars, applId, ownPort, ownIpaddr, thriftServerAddress>>

\* The port is stored before the address is looked at.
RefuseThriftAddress ==
  LET text == O!TextOf("thrift-addr") IN
  /\ step = "thrift-addr" /\ ~(PortPassed(text) /\ AddressPassed(text))
  /\ thriftPort' = IF PortPassed(text) THEN Narrow(BackToken(text).n) ELSE thriftPort
  /\ Refuse /\ UNCHANGED <<ownVars, thriftIpAddr, thriftServerAddress>>

Next ==
  \/ Parse \/ ParseThrew \/ PrintHelp \/ MissingMandatory
  \/ ReadId \/ ReadOwnAddress \/ RefuseOwnAddress
  \/ ReadThriftAddress \/ RefuseThriftAddress

Spec == Init /\ [][Next]_vars

-----------------------------------------------------------------------------
(* Properties *)

\* Every variable holds a value of its type.
TypeOK ==
  /\ O!TypeOK
  /\ step \in {"parse", "own-addr", "thrift-addr", "accepted", "refused"}
  /\ {applId, ownPort, thriftPort} \ {None} \subseteq 0 .. O!Uint16Max
  /\ None \in {ownIpaddr, thriftIpAddr} => step # "accepted"

\* cxxopts.hpp:1066: an option given twice has its last value.
LastUseWins == O!LastUseWins

\* cxxopts.hpp:1199: what no option took is left in argv, in order.
RestKept == O!RestKept

\* What is configured is what the last use of each option says, whatever else
\* the command line holds (Configuration.cpp:53-108), and if the ports given fit
\* 16 bits the narrowing cast of lines 80 and 101 keeps them, so that they are
\* outside the reserved range.
ConfiguredAsGiven ==
  step = "accepted" =>
    LET own == O!LastGiven("own-addr")
        server == O!LastGiven("thrift-addr") IN
    /\ applId = O!Uint16(O!LastGiven("id"))
    /\ <<ownIpaddr, thriftIpAddr>> = <<own[1], server[1]>>
    /\ own[2].n <= O!Uint16Max => ownPort = own[2].n /\ ownPort >= SOCK_PORT_HIGH_BOUND
    /\ server[2].n <= O!Uint16Max => thriftPort = server[2].n /\ thriftPort >= SOCK_PORT_HIGH_BOUND

\* A command line that gives each mandatory option a good value, the ports between
\* 1024 and 65535, and otherwise only options that exist with values that convert.
WellFormed ==
  /\ O!Uses("help") = {}
  /\ \A o \in Mandatory : O!Uses(o) # {}
  /\ \A i \in O!Options :
       /\ \A n \in DOMAIN commandLine[i].names : O!Known(commandLine[i].names[n])
       /\ O!TakesNext(commandLine[i]) => i < Len(commandLine)
  /\ \A i \in O!Uses("id") : O!Converts("id", O!Given(i))
  /\ \A o \in {"own-addr", "thrift-addr"} :
       LET text == O!LastGiven(o) IN
       /\ Len(text) = 2 /\ text[1].kind = "ip" /\ text[2].kind = "number"
       /\ text[2].n \in SOCK_PORT_HIGH_BOUND .. O!Uint16Max

\* The program starts on every well-formed command line, in whatever order and
\* form its options come.
WellFormedAccepted == WellFormed => step # "refused"
=============================================================================
