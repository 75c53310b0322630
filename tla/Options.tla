------------------------------- MODULE Options -------------------------------
(***************************************************************************)
(* cxxopts::Options::parse (cxxopts.hpp): the walk over the command line   *)
(* that Configuration starts.                                              *)
(*                                                                         *)
(* An argument is what option_matcher makes of it:                         *)
(*   kind   "separator" (--), "long" (--name or --name=value), "cluster"   *)
(*          (-abc) or "text", which matches neither                        *)
(*   names  the option name, or the letters of a cluster                   *)
(*   value  what follows "=", None if there is no "=" or nothing after it  *)
(*   text   the whole argument, for when an option takes it as its value   *)
(* A text is the sequence of its parts between colons, and a part is a     *)
(* number, a number with something behind it ("prefixed"), an IPv4 address *)
(* (its n is the first octet), "empty", or "junk".                         *)
(*                                                                         *)
(* The options the program adds have no default or implicit value, none    *)
(* with a short name takes an argument, and parse_positional is not        *)
(* called: the branches for these are left out, and consume_positional is  *)
(* false for every argument.                                               *)
(*                                                                         *)
(* StoreFirst, LastTooFar and NextKept are faulty variants of the          *)
(* operators after them, used by no action.                                *)
(***************************************************************************)
EXTENDS Integers, FiniteSets, Sequences

CONSTANTS CommandLines, \* the sequences of arguments behind the program name
          Specs,        \* the options added, [short, long, type]
          None

VARIABLES commandLine, \* the arguments as main got them
          argv,        \* the arguments: the walk moves those it keeps to the front
          current,     \* the index of the argument looked at
          nextKeep,    \* the index for the next argument that is kept
          count,       \* m_count of each option, by its long name
          store,       \* the text its value was read from
          stage        \* "options" (the loop), "rest" (behind --), "parsed" or "threw"

vars == <<commandLine, argv, current, nextKeep, count, store, stage>>

\* OptionAdder: a specifier "s,long" gives one option two names, and
\* add_option enters it under both.
NamesOf(spec) == {spec.short, spec.long} \ {None}
OptionOf(name) == CHOOSE spec \in Specs : name \in NamesOf(spec)
Longs == {spec.long : spec \in Specs}

Known(name) == \E spec \in Specs : name \in NamesOf(spec)
HasArg(name) == OptionOf(name).type # "bool"

\* parse_value: a uint16_t is read by operator>>, which takes a minus sign and
\* wraps; nothing may be left behind it.  A string takes every text.
Uint16Max == 65535
Uint16(text) == text[1].n % (Uint16Max + 1)
Converts(name, text) ==
  OptionOf(name).type = "uint16" =>
    Len(text) = 1 /\ text[1].kind = "number" /\ text[1].n \in -Uint16Max .. Uint16Max

Init ==
  /\ commandLine \in CommandLines /\ argv = commandLine
  /\ current = 1 /\ nextKeep = 1
  /\ count = [o \in Longs |-> 0]
  /\ store = [o \in Longs |-> None]
  /\ stage = "options"

-----------------------------------------------------------------------------
Argc == Len(argv) + 1
Argument == argv[current]
Name == Argument.names[1]
Looking(kind) == stage = "options" /\ current # Argc /\ Argument.kind = kind

\* OptionDetails::parse of option o stores the text and counts the use ...
ParseDetails(o, text) ==
  /\ store' = [store EXCEPT ![o] = text]
  /\ count' = [count EXCEPT ![o] = @ + 1]

\* ... for the option with the name on the command line.
StoreFirst(name, text) ==
  ParseDetails(OptionOf(name).long,
               IF count[OptionOf(name).long] > 0 THEN store[OptionOf(name).long] ELSE text)
ParseOption(name, text) == ParseDetails(OptionOf(name).long, text)

\* "--": the loop ends, and what follows stays in argv.
Separator ==
  /\ Looking("separator")
  /\ current' = current + 1 /\ stage' = "rest"
  /\ UNCHANGED <<commandLine, argv, nextKeep, count, store>>

\* Not a flag.
KeepText ==
  /\ Looking("text")
  /\ argv' = [argv EXCEPT ![nextKeep] = Argument]
  /\ nextKeep' = nextKeep + 1
  /\ current' = current + 1
  /\ UNCHANGED <<commandLine, count, store, stage>>

\* A cluster of flags counts each of its letters.
Letters == DOMAIN Argument.names
ShortCluster ==
  /\ Looking("cluster") /\ \A i \in Letters : Known(Argument.names[i])
  /\ count' = [o \in Longs |->
       count[o] + Cardinality({i \in Letters : OptionOf(Argument.names[i]).long = o})]
  /\ current' = current + 1
  /\ UNCHANGED <<commandLine, argv, nextKeep, store, stage>>

LongFlag ==
  /\ Looking("long") /\ Known(Name) /\ ~HasArg(Name) /\ Argument.value = None
  /\ ParseOption(Name, None)
  /\ current' = current + 1
  /\ UNCHANGED <<commandLine, argv, nextKeep, stage>>

LongEquals ==
  /\ Looking("long") /\ Known(Name) /\ HasArg(Name) /\ Argument.value # None
  /\ Converts(Name, Argument.value)
  /\ ParseOption(Name, Argument.value)
  /\ current' = current + 1
  /\ UNCHANGED <<commandLine, argv, nextKeep, stage>>

\* checked_parse_arg: the next argument is the value, whatever it looks like.
LastTooFar == current + 2 >= Argc
ArgumentMissing == current + 1 >= Argc
NextText == argv[current + 1].text
NextKept == current + 1
BehindNext == current + 2

LongNext ==
  /\ Looking("long") /\ Known(Name) /\ HasArg(Name) /\ Argument.value = None
  /\ ~ArgumentMissing /\ Converts(Name, NextText)
  /\ ParseOption(Name, NextText)
  /\ current' = BehindNext
  /\ UNCHANGED <<commandLine, argv, nextKeep, stage>>

\* The exceptions: an option that does not exist; a value for a flag; a value
\* of a wrong type; an option with an argument at the end.
Throw ==
  /\ \/ /\ Looking("long") \/ Looking("cluster")
        /\ \E i \in Letters : ~Known(Argument.names[i])
     \/ /\ Looking("long") /\ Known(Name) /\ Argument.value # None
        /\ ~(HasArg(Name) /\ Converts(Name, Argument.value))
     \/ /\ Looking("long") /\ Known(Name) /\ HasArg(Name) /\ Argument.value = None
        /\ ~(~ArgumentMissing /\ Converts(Name, NextText))
  /\ stage' = "threw"
  /\ UNCHANGED <<commandLine, argv, current, nextKeep, count, store>>

\* The end of the command line; what follows a "--" is moved as well.  argc
\* becomes nextKeep.
Finish ==
  /\ \/ stage = "rest"
     \/ stage = "options" /\ current = Argc
  /\ argv' = [i \in DOMAIN argv |->
       IF i \in nextKeep .. nextKeep + (Argc - current) - 1 THEN argv[current + i - nextKeep] ELSE argv[i]]
  /\ nextKeep' = nextKeep + (Argc - current)
  /\ current' = Argc
  /\ stage' = "parsed"
  /\ UNCHANGED <<commandLine, count, store>>

Next ==
  \/ Separator \/ KeepText \/ ShortCluster
  \/ LongFlag \/ LongEquals \/ LongNext
  \/ Throw \/ Finish

\* Afterwards: Options::count, which is 0 for a name it does not know, and
\* options[name].as<T>(), read from the text that was stored.
Count(name) == IF Known(name) THEN count[OptionOf(name).long] ELSE 0
TextOf(name) == store[OptionOf(name).long]

-----------------------------------------------------------------------------
(* What a command line says, told by its positions and not by a walk. *)

Positions == 1 .. Len(commandLine)
TakesNext(a) == a.kind = "long" /\ a.value = None /\ Known(a.names[1]) /\ HasArg(a.names[1])

\* The positions that are the value of the option before them: such a run of
\* options, each taking the next one, is told by the parity of its length.
ValuePositions ==
  {i \in Positions : \E n \in 1 .. i - 1 :
     /\ n % 2 = 1 /\ \A j \in i - n .. i - 1 : TakesNext(commandLine[j])
     /\ i - n = 1 \/ ~TakesNext(commandLine[i - n - 1])}

Separators == {i \in Positions \ ValuePositions : commandLine[i].kind = "separator"}
Behind(i) == \E j \in Separators : j < i
Options == {i \in Positions \ ValuePositions : commandLine[i].kind \in {"long", "cluster"} /\ ~Behind(i)}

\* The uses of option o, and the text that one of them gives it.
Uses(o) == {i \in Options : \E n \in DOMAIN commandLine[i].names :
                              commandLine[i].names[n] \in NamesOf(OptionOf(o))}
Given(i) == IF TakesNext(commandLine[i]) THEN commandLine[i + 1].text ELSE commandLine[i].value
LastGiven(o) == Given(CHOOSE i \in Uses(o) : \A j \in Uses(o) : j <= i)

\* Every variable holds a value of its type; the place for the next kept
\* argument is never past the one looked at, so none is lost unread.
TypeOK ==
  /\ DOMAIN argv = DOMAIN commandLine
  /\ nextKeep \in 1 .. current /\ current \in 1 .. Argc
  /\ count \in [Longs -> Nat] /\ DOMAIN store = Longs
  /\ stage \in {"options", "rest", "parsed", "threw"}

\* When parse returns, each option with an argument was counted once for every
\* use before "--" and has the value of the last one (cxxopts.hpp:1066): no
\* argument served both as an option and as a value.
LastUseWins ==
  stage = "parsed" =>
    \A o \in {o \in Longs : HasArg(o)} :
       /\ count[o] = Cardinality(Uses(o))
       /\ Uses(o) # {} => store[o] = LastGiven(o)

\* When parse returns, argv up to nextKeep has the arguments nobody took, in
\* their order, although it is rewritten while it is read (cxxopts.hpp:1199).
RestKept ==
  stage = "parsed" =>
    LET free == {i \in Positions :
          Behind(i) \/ (commandLine[i].kind = "text" /\ i \notin ValuePositions)}
        place(i) == Cardinality({j \in free : j <= i})
    IN /\ nextKeep = Cardinality(free) + 1
       /\ \A i \in free : argv[place(i)] = commandLine[i]
=============================================================================
