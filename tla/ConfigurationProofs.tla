------------------------- MODULE ConfigurationProofs -------------------------
(***************************************************************************)
(* Proofs about Configuration, and so of the walk of Options with the      *)
(* program's options, for command lines of any length and content.         *)
(***************************************************************************)
EXTENDS ConfigurationInvariant, FiniteSetTheorems, WellFoundedInduction, TLAPS

-----------------------------------------------------------------------------
(* The options and the arguments *)

\* Each name stands for one option; an option that takes an argument has its long
\* name only.
LEMMA OptionNames ==
  /\ O!Longs = {"help", "id", "own-addr", "thrift-addr"}
  /\ \A name : O!Known(name) <=> name \in O!Longs \cup {"h"}
  /\ \A o \in O!Longs : O!Known(o) /\ O!OptionOf(o).long = o /\ (O!HasArg(o) <=> o # "help")
  /\ O!OptionOf("h") = O!OptionOf("help")
  /\ \A o \in O!Longs : O!NamesOf(O!OptionOf(o)) = IF o = "help" THEN {"h", "help"} ELSE {o}
  /\ O!OptionOf("id").type = "uint16"
  /\ \A o \in {"own-addr", "thrift-addr"} : O!OptionOf(o).type = "string"
<1> DEFINE help == [short |-> "h", long |-> "help", type |-> "bool"]
           id == [short |-> None, long |-> "id", type |-> "uint16"]
           own == [short |-> None, long |-> "own-addr", type |-> "string"]
           thrift == [short |-> None, long |-> "thrift-addr", type |-> "string"]
<1>1. Params = {help, id, own, thrift}
  BY DEF Params
<1>2. /\ O!NamesOf(help) = {"h", "help"} /\ O!NamesOf(id) = {"id"}
      /\ O!NamesOf(own) = {"own-addr"} /\ O!NamesOf(thrift) = {"thrift-addr"}
  BY NoneAssumption DEF O!NamesOf
<1>3. O!Longs = {"help", "id", "own-addr", "thrift-addr"}
  BY <1>1 DEF O!Longs
<1>4. \A name : O!Known(name) <=> name \in {"h", "help", "id", "own-addr", "thrift-addr"}
  <2> HIDE DEF help, id, own, thrift
  <2> QED BY <1>1, <1>2 DEF O!Known
<1>5. /\ O!OptionOf("h") = help /\ O!OptionOf("help") = help /\ O!OptionOf("id") = id
      /\ O!OptionOf("own-addr") = own /\ O!OptionOf("thrift-addr") = thrift
  <2> HIDE DEF help, id, own, thrift
  <2> QED BY <1>1, <1>2 DEF O!OptionOf
<1> QED BY <1>2, <1>3, <1>4, <1>5 DEF O!HasArg

\* The command line and its arguments.
LEMMA LineType ==
  ASSUME NEW line \in CommandLines
  PROVE  /\ line \in Seq(Arguments) /\ Len(line) \in Nat /\ DOMAIN line = 1 .. Len(line)
         /\ \A i \in 1 .. Len(line) :
              /\ line[i] \in Arguments
              /\ line[i].kind = "long" => Len(line[i].names) = 1
              /\ line[i].kind = "cluster" =>
                   \A n \in DOMAIN line[i].names : line[i].names[n] \notin O!Longs
<1>1. line \in Seq(Arguments)
  BY CommandLineAssumption
<1>2. ASSUME NEW S, NEW c \in Seq(S)
      PROVE  Len(c) \in Nat /\ DOMAIN c = 1 .. Len(c) /\ \A i \in 1 .. Len(c) : c[i] \in S
  OBVIOUS
<1>3. Len(line) \in Nat /\ DOMAIN line = 1 .. Len(line) /\ \A i \in 1 .. Len(line) : line[i] \in Arguments
  BY <1>1, <1>2
<1>4. \A i \in DOMAIN line :
        /\ line[i].kind = "long" => Len(line[i].names) = 1
        /\ line[i].kind = "cluster" =>
             \A n \in DOMAIN line[i].names : \A spec \in Params : line[i].names[n] # spec.long
  BY CommandLineAssumption
<1> QED BY <1>1, <1>3, <1>4 DEF O!Longs

-----------------------------------------------------------------------------
(* Values and options alternate *)

\* A nonempty set of natural numbers has a least one.
LEMMA LeastNumber ==
  ASSUME NEW T \in SUBSET Nat, T # {}
  PROVE  \E m \in T : \A k \in T : m <= k
<1> DEFINE R == OpToRel(<, Nat)
<1>1. \A k, m \in Nat : <<k, m>> \in R <=> k < m
  BY DEF OpToRel
<1>2. IsWellFoundedOn(R, Nat)
  BY NatLessThanWellFounded
<1> HIDE DEF R
<1>3. PICK m \in T : \A k \in T : ~(<<k, m>> \in R)
  BY <1>2, WFMin
<1>4. \A k \in T : ~(k < m)
  BY <1>1, <1>3
<1>5. m \in Nat /\ \A k \in T : k \in Nat
  OBVIOUS
<1>6. \A k \in T : m <= k
  BY <1>4, <1>5
<1> QED BY <1>6


\* The argument behind an option that takes the next one is its value, the one
\* behind anything else is not: the parity of ValuePositions is that of the walk.
LEMMA ValueAlternates ==
  ASSUME commandLine \in CommandLines, NEW i \in 1 .. Len(commandLine), i \notin O!ValuePositions
  PROVE  /\ i + 1 \in O!ValuePositions => O!TakesNext(commandLine[i])
         /\ O!TakesNext(commandLine[i]) /\ i < Len(commandLine) => i + 1 \in O!ValuePositions
         /\ O!TakesNext(commandLine[i]) => i + 2 \notin O!ValuePositions
<1> DEFINE T == {j \in 1 .. Len(commandLine) : O!TakesNext(commandLine[j])}
           Run(k, n) == /\ n \in 1 .. k - 1 /\ n % 2 = 1
                        /\ \A j \in k - n .. k - 1 : j \in T
                        /\ k - n = 1 \/ k - n - 1 \notin T
<1>1. Len(commandLine) \in Nat
  BY LineType
<1>2. \A k : k \in O!ValuePositions <=> k \in 1 .. Len(commandLine) /\ \E n : Run(k, n)
  <2>1. ASSUME NEW k \in 1 .. Len(commandLine), NEW n \in 1 .. k - 1
        PROVE  /\ \A j \in k - n .. k - 1 : j \in T <=> O!TakesNext(commandLine[j])
               /\ k - n # 1 => (k - n - 1 \in T <=> O!TakesNext(commandLine[k - n - 1]))
    BY <1>1
  <2>2. ASSUME NEW k \in 1 .. Len(commandLine)
        PROVE  k \in O!ValuePositions <=> \E n : Run(k, n)
    <3> HIDE DEF T
    <3> QED BY <2>1 DEF O!ValuePositions, O!Positions
  <2>3. O!ValuePositions \subseteq 1 .. Len(commandLine)
    BY DEF O!ValuePositions, O!Positions
  <2> QED BY <2>2, <2>3
<1>3. i \in T <=> O!TakesNext(commandLine[i])
  OBVIOUS
<1>4. i \in Nat /\ 1 <= i /\ T \subseteq Nat
  BY <1>1
<1>5. \A n : ~Run(i, n)
  BY <1>2
<1> HIDE DEF T
<1>6. ASSUME NEW n, Run(i + 1, n) PROVE i \in T
  BY <1>4, <1>6
<1>7. ASSUME i \in T PROVE \E n : Run(i + 1, n)
  <2> DEFINE S == {s \in 1 .. i : \A j \in s .. i : j \in T}
  <2>1. S \subseteq Nat /\ i \in S
    BY <1>4, <1>7
  <2>2. PICK s \in S : \A r \in S : s <= r
    BY <2>1, LeastNumber
  <2>3. s \in 1 .. i /\ \A j \in s .. i : j \in T
    BY <2>2
  <2>4. s = 1 \/ s - 1 \notin T
    <3> SUFFICES ASSUME s # 1, s - 1 \in T PROVE s - 1 \in S
      BY <1>4, <2>2, <2>3
    <3> QED BY <1>4, <2>3
  <2> HIDE DEF S
  <2> DEFINE n == i - s + 1
  <2>5. n \in Nat /\ n % 2 \in {0, 1} /\ n \in 1 .. i /\ (i + 1) - n = s
    BY <1>4, <2>3
  <2>6. CASE n % 2 = 1
    <3>1. Run(i + 1, n)
      BY <1>4, <2>3, <2>4, <2>5, <2>6
    <3> QED BY <3>1
  <2>7. CASE n % 2 = 0
    <3>1. n - 1 \in 1 .. i - 1 /\ (n - 1) % 2 = 1 /\ i - (n - 1) = s
      <4>1. ASSUME NEW m \in Nat, m >= 1, m % 2 = 0 PROVE m - 1 >= 1 /\ (m - 1) % 2 = 1
        BY <4>1
      <4>2. n - 1 >= 1 /\ (n - 1) % 2 = 1
        <5> HIDE DEF n
        <5> QED BY <2>5, <2>7, <4>1
      <4> QED BY <1>4, <2>3, <2>5, <4>2
    <3>2. Run(i, n - 1)
      BY <1>4, <2>3, <2>4, <3>1
    <3> QED BY <1>5, <3>2
  <2> QED BY <2>5, <2>6, <2>7
<1>8. ASSUME i \in T, NEW n, Run(i + 2, n) PROVE FALSE
  <2>1. n \in Nat /\ n % 2 = 1 /\ n \in 1 .. i + 1
    BY <1>4, <1>8
  <2>2. n # 1
    BY <1>4, <1>8
  <2>3. n - 2 \in Nat /\ (n - 2) % 2 = 1 /\ n - 2 # 0
    BY <2>1, <2>2
  <2>4. Run(i, n - 2)
    BY <1>4, <1>8, <2>1, <2>3
  <2> QED BY <1>5, <2>4
<1>9. i + 1 \in O!ValuePositions => i \in T
  BY <1>2, <1>6
<1>10. i \in T /\ i < Len(commandLine) => i + 1 \in O!ValuePositions
  <2>1. i < Len(commandLine) => i + 1 \in 1 .. Len(commandLine)
    BY <1>1, <1>4
  <2> HIDE DEF Run
  <2> QED BY <1>2, <1>7, <2>1
<1>11. i \in T => i + 2 \notin O!ValuePositions
  BY <1>2, <1>8
<1> QED BY <1>3, <1>9, <1>10, <1>11

-----------------------------------------------------------------------------
(* The argument the walk looks at *)

\* What the positions are does not change.
LEMMA SameLine ==
  ASSUME commandLine' = commandLine
  PROVE  /\ O!ValuePositions' = O!ValuePositions /\ O!Separators' = O!Separators
         /\ O!Options' = O!Options /\ Free' = Free /\ WellFormed' = WellFormed
         /\ \A o : O!Uses(o)' = O!Uses(o) /\ O!LastGiven(o)' = O!LastGiven(o)
         /\ \A i : O!Given(i)' = O!Given(i) /\ Place(i)' = Place(i)
<1>1. O!ValuePositions' = O!ValuePositions
  BY DEF O!ValuePositions, O!Positions
<1>2. O!Separators' = O!Separators
  BY <1>1 DEF O!Separators, O!Positions
<1>3. O!Options' = O!Options
  BY <1>1, <1>2 DEF O!Options, O!Positions, O!Behind
<1>4. Free' = Free
  BY <1>1, <1>2 DEF Free, O!Positions, O!Behind
<1>5. \A o : O!Uses(o)' = O!Uses(o)
  BY <1>3 DEF O!Uses
<1>6. \A i : O!Given(i)' = O!Given(i)
  BY DEF O!Given
<1>7. \A o : O!LastGiven(o)' = O!LastGiven(o)
  BY <1>5, <1>6 DEF O!LastGiven
<1>8. \A i : Place(i)' = Place(i)
  BY <1>4 DEF Place
<1>9. WellFormed' = WellFormed
  BY <1>3, <1>5, <1>6, <1>7 DEF WellFormed
<1> QED BY <1>1, <1>2, <1>3, <1>4, <1>5, <1>6, <1>7, <1>8, <1>9

\* T has positions of a sequence of length n.
Within(T, n) == T \subseteq 1 .. n

\* A set of positions of a sequence is finite, so the counts of uses are naturals.
LEMMA Finite ==
  ASSUME NEW n \in Nat, NEW T, Within(T, n), NEW c
  PROVE  /\ IsFiniteSet(T) /\ IsFiniteSet(Before(T, c))
         /\ Cardinality(T) \in Nat /\ Cardinality(Before(T, c)) \in Nat
<1> DEFINE D == 1 .. n
<1>1. IsFiniteSet(D)
  BY FS_Interval
<1>2. T \subseteq D
  BY DEF Within
<1> HIDE DEF D
<1>3. IsFiniteSet(T)
  BY <1>1, <1>2, FS_Subset
<1>4. IsFiniteSet(Before(T, c))
  BY <1>3, FS_Subset DEF Before
<1> QED BY <1>3, <1>4, FS_CardinalityType

\* Passing a position, and perhaps the next one that is not in T, adds it to the
\* passed ones of T if T has it.
LEMMA PassOne ==
  ASSUME NEW n \in Nat, NEW T, Within(T, n), NEW c \in Nat, NEW d, d \in {c + 1, c + 2},
         d = c + 2 => c + 1 \notin T
  PROVE  /\ IsFiniteSet(Before(T, c)) /\ Cardinality(Before(T, c)) \in Nat
         /\ c \in T => /\ Before(T, d) = Before(T, c) \cup {c}
                       /\ Cardinality(Before(T, d)) = Cardinality(Before(T, c)) + 1
         /\ c \notin T => Before(T, d) = Before(T, c)
<1> DEFINE S == Before(T, c)
           R == Before(T, d)
<1>2. IsFiniteSet(S)
  BY Finite
<1>3. c \notin S
  BY DEF Before
<1>4. (c \in T => R = S \cup {c}) /\ (c \notin T => R = S)
  <2>1. \A i \in T : i < d <=> i < c \/ i = c
    BY DEF Within
  <2> QED BY <2>1, Zenon DEF Before
<1> HIDE DEF S, R
<1>5. Cardinality(S \cup {c}) = Cardinality(S) + 1 /\ Cardinality(S) \in Nat
  BY <1>2, <1>3, FS_AddElement, FS_CardinalityType
<1> QED BY <1>2, <1>4, <1>5 DEF S, R

\* The sets of positions are sets of positions.
LEMMA PositionSets ==
  /\ O!Separators \subseteq 1 .. Len(commandLine) /\ O!Options \subseteq 1 .. Len(commandLine)
  /\ O!ValuePositions \subseteq 1 .. Len(commandLine) /\ Free \subseteq 1 .. Len(commandLine)
  /\ \A o : O!Uses(o) \subseteq O!Options
BY DEF O!Separators, O!Options, O!ValuePositions, Free, O!Uses, O!Positions

\* What the argument the walk looks at is by its kind, it is by its position.
LEMMA Classified ==
  ASSUME Line, WalkOK, stage = "options", current \in 1 .. Len(commandLine)
  PROVE  LET a == commandLine[current] IN
         /\ O!Argument = a /\ a \in Arguments /\ ~O!Behind(current)
         /\ current \in O!Options <=> a.kind \in {"long", "cluster"}
         /\ current \in O!Separators <=> a.kind = "separator"
         /\ current \in Free <=> a.kind = "text"
         /\ O!TakesNext(a) => current + 1 \notin O!Options \cup O!Separators \cup Free
<1> DEFINE a == commandLine[current]
<1>1. O!Argument = a /\ a \in Arguments /\ current \notin O!ValuePositions
  BY LineType DEF Line, WalkOK, O!Argument
<1>2. ~O!Behind(current)
  BY PositionSets DEF WalkOK, O!Behind
<1>3. /\ current \in O!Options <=> a.kind \in {"long", "cluster"}
      /\ current \in O!Separators <=> a.kind = "separator"
      /\ current \in Free <=> a.kind = "text"
  BY <1>1, <1>2 DEF O!Options, O!Separators, Free, O!Positions
<1>4. ASSUME O!TakesNext(a), current + 1 \in O!Options \cup O!Separators \cup Free PROVE FALSE
  <2>1. current + 1 \in 1 .. Len(commandLine) /\ Len(commandLine) \in Nat
    BY <1>4, PositionSets, LineType DEF Line
  <2>2. current < Len(commandLine)
    BY <2>1
  <2>3. current + 1 \in O!ValuePositions
    BY <1>1, <1>4, <2>2, ValueAlternates DEF Line
  <2>4. ~O!Behind(current + 1)
    <3> SUFFICES ASSUME NEW j \in O!Separators, j < current + 1 PROVE FALSE
      BY DEF O!Behind
    <3>1. j >= current /\ j \in Nat
      BY PositionSets, <2>1 DEF WalkOK
    <3>2. j = current
      BY <2>1, <3>1
    <3> QED BY <1>3, <1>4, <3>2 DEF O!TakesNext
  <2> QED BY <1>4, <2>3, <2>4 DEF O!Options, O!Separators, Free
<1> QED BY <1>1, <1>2, <1>3, <1>4

-----------------------------------------------------------------------------
(* One step of the loop *)

\* The indices of the walk.
LEMMA Indices ==
  ASSUME Line, O!TypeOK
  PROVE  /\ Len(commandLine) \in Nat /\ O!Argc = Len(commandLine) + 1
         /\ current \in 1 .. Len(commandLine) + 1 /\ nextKeep \in 1 .. current
         /\ DOMAIN argv = 1 .. Len(commandLine)
BY LineType DEF Line, O!TypeOK, O!Argc

\* The walk goes to the argument behind the one it looks at, or, if that takes the
\* next one as its value, to the one behind the value.
Goes == 
  /\ stage = "options" /\ current \in 1 .. Len(commandLine) /\ commandLine' = commandLine
  /\ current' \in {current + 1, current + 2}
  /\ current' = current + 1 => ~O!TakesNext(commandLine[current])
  /\ current' = current + 2 => O!TakesNext(commandLine[current])

\* Going on to the next argument keeps the walk as long as the arguments still unread stay put.
LEMMA GoesWalkOK ==
  ASSUME Line, O!TypeOK, WalkOK, Goes, stage' = "options", commandLine[current].kind # "separator",
         \A i \in current' .. Len(commandLine) : argv'[i] = argv[i]
  PROVE  WalkOK'
<1>1. /\ Len(commandLine) \in Nat /\ current \in 1 .. Len(commandLine)
      /\ current' \in Nat /\ current' > current
  BY Indices DEF Goes
<1>2. current' \notin O!ValuePositions
  BY <1>1, ValueAlternates DEF Goes, Line, WalkOK
<1>3. \A i \in O!Separators : i >= current'
  <2> SUFFICES ASSUME NEW i \in O!Separators PROVE i >= current'
    OBVIOUS
  <2>1. i \in Nat /\ i >= current
    BY <1>1, PositionSets DEF Goes, WalkOK
  <2>2. i # current /\ (current' = current + 2 => i # current + 1)
    BY Classified DEF Goes
  <2> QED BY <1>1, <2>1, <2>2 DEF Goes
<1>4. \A i \in current' .. Len(commandLine) : argv'[i] = commandLine[i]
  BY <1>1 DEF WalkOK
<1> QED BY <1>2, <1>3, <1>4, SameLine DEF Goes, WalkOK

\* An argument that somebody takes is not kept.
LEMMA GoesKeptOK ==
  ASSUME Line, O!TypeOK, WalkOK, KeptOK, Goes, UNCHANGED <<argv, nextKeep>>,
         commandLine[current].kind # "text"
  PROVE  KeptOK'
<1>1. Passed(Free)' = Before(Free, current')
  BY SameLine DEF Passed, Before, Goes
<1>2. Before(Free, current') = Passed(Free)
  <2>1. /\ Len(commandLine) \in Nat /\ Within(Free, Len(commandLine))
        /\ current \in Nat /\ current' \in {current + 1, current + 2}
        /\ current' = current + 2 => current + 1 \notin Free
        /\ current \notin Free
    BY PositionSets, Indices, Classified DEF Goes, Within
  <2> QED BY <2>1, PassOne DEF Passed
<1> QED BY <1>1, <1>2, SameLine DEF KeptOK, Goes

\* What is counted and stored for the options the argument uses, and not for others.
LEMMA GoesCountOK ==
  ASSUME Line, O!TypeOK, WalkOK, CountOK, Goes,
         \A o \in O!Longs :
           /\ current \notin O!Uses(o) => count'[o] = count[o] /\ (O!HasArg(o) => store'[o] = store[o])
           /\ current \in O!Uses(o) /\ O!HasArg(o) =>
                count'[o] = count[o] + 1 /\ store'[o] = O!Given(current) /\ store'[o] \in Texts
  PROVE  CountOK'
<1> SUFFICES ASSUME NEW o \in O!Longs
             PROVE  LET T == Before(O!Uses(o), current') IN
                    /\ T = {} => count'[o] = 0
                    /\ O!HasArg(o) =>
                         /\ count'[o] = Cardinality(T)
                         /\ \A i \in T : (\A j \in T : j <= i) =>
                              store'[o] = O!Given(i) /\ store'[o] \in Texts
  BY SameLine DEF CountOK, Passed, Before, Goes
<1> DEFINE S == Before(O!Uses(o), current)
           T == Before(O!Uses(o), current')
<1>1. /\ O!Uses(o) \subseteq 1 .. Len(commandLine) /\ Len(commandLine) \in Nat
      /\ Within(O!Uses(o), Len(commandLine))
      /\ current \in Nat /\ current' \in {current + 1, current + 2}
      /\ current' = current + 2 => current + 1 \notin O!Uses(o)
  <2>1. O!Uses(o) \subseteq O!Options /\ O!Options \subseteq 1 .. Len(commandLine)
    BY PositionSets
  <2>2. current' = current + 2 => current + 1 \notin O!Options
    BY Classified DEF Goes
  <2>3. Len(commandLine) \in Nat /\ current \in Nat /\ current' \in {current + 1, current + 2}
    BY Indices DEF Goes
  <2> QED BY <2>1, <2>2, <2>3 DEF Within
<1>2. /\ Cardinality(S) \in Nat
      /\ current \in O!Uses(o) => T = S \cup {current} /\ Cardinality(T) = Cardinality(S) + 1
      /\ current \notin O!Uses(o) => T = S
  <2> DEFINE U == O!Uses(o)
  <2>1. /\ Within(U, Len(commandLine)) /\ Len(commandLine) \in Nat /\ current \in Nat
        /\ current' \in {current + 1, current + 2} /\ (current' = current + 2 => current + 1 \notin U)
    BY <1>1
  <2> HIDE DEF U
  <2>2. current \in U => /\ Before(U, current') = Before(U, current) \cup {current}
                         /\ Cardinality(Before(U, current')) = Cardinality(Before(U, current)) + 1
    BY <2>1, PassOne
  <2>4. Cardinality(Before(U, current)) \in Nat
    BY <2>1, PassOne
  <2>3. current \notin U => Before(U, current') = Before(U, current)
    BY <2>1, PassOne
  <2> QED BY <2>2, <2>3, <2>4 DEF U
<1>3. /\ S = {} => count[o] = 0
      /\ O!HasArg(o) =>
           /\ count[o] = Cardinality(S)
           /\ \A i \in S : (\A j \in S : j <= i) => store[o] = O!Given(i) /\ store[o] \in Texts
  BY DEF CountOK, Passed
<1>4. \A i \in S : i \in Nat /\ i < current
  BY <1>1 DEF Before
<1> HIDE DEF S, T
<1>5. CASE current \notin O!Uses(o)
  BY <1>2, <1>3, <1>5 DEF T
<1>6. CASE current \in O!Uses(o)
  <2>1. T # {} /\ current \in T
    BY <1>2, <1>6
  <2>2. ASSUME NEW i \in T, \A j \in T : j <= i PROVE i = current
    BY <1>1, <1>2, <1>4, <1>6, <2>1, <2>2
  <2> QED BY <1>2, <1>3, <1>6, <2>1, <2>2 DEF T
<1> QED BY <1>5, <1>6

-----------------------------------------------------------------------------
(* The operations of the walk *)

\* A name stands for the option it is a name of, and for no other.
LEMMA NameStandsForOne ==
  ASSUME NEW name, O!Known(name)
  PROVE  /\ O!OptionOf(name).long \in O!Longs
         /\ O!HasArg(name) <=> O!HasArg(O!OptionOf(name).long)
         /\ \A o \in O!Longs : name \in O!NamesOf(O!OptionOf(o)) <=> o = O!OptionOf(name).long
<1>1. CASE name \in O!Longs
  BY <1>1, OptionNames
<1>2. CASE name = "h"
  <2>1. "help" \in O!Longs /\ O!OptionOf(name).long = "help" /\ ~O!HasArg("help")
    BY <1>2, OptionNames
  <2>2. O!HasArg(name) <=> O!HasArg("help")
    BY <1>2, OptionNames DEF O!HasArg
  <2> QED BY <1>2, <2>1, <2>2, OptionNames
<1> QED BY <1>1, <1>2, OptionNames

\* The argument of a long option uses that option only.
LEMMA LongUses ==
  ASSUME Line, O!TypeOK, WalkOK, O!Looking("long"), O!Known(O!Name)
  PROVE  /\ O!Name = commandLine[current].names[1]
         /\ O!OptionOf(O!Name).long \in O!Longs
         /\ \A o \in O!Longs : current \in O!Uses(o) <=> o = O!OptionOf(O!Name).long
         /\ O!HasArg(O!Name) <=> O!HasArg(O!OptionOf(O!Name).long)
<1> DEFINE a == commandLine[current]
<1>1. /\ stage = "options" /\ current \in 1 .. Len(commandLine)
      /\ O!Argument.kind = "long"
  BY Indices DEF O!Looking
<1>2. O!Argument = a /\ a \in Arguments /\ current \in O!Options
  BY <1>1, Classified
<1>3. Len(a.names) = 1 /\ a.names \in Seq(STRING)
  BY <1>1, <1>2, LineType DEF Line, Arguments
<1>4. DOMAIN a.names = {1}
  BY <1>3
<1>5. O!Name = a.names[1]
  BY <1>2 DEF O!Name
<1>6. \A o : current \in O!Uses(o) <=> a.names[1] \in O!NamesOf(O!OptionOf(o))
  BY <1>2, <1>4 DEF O!Uses
<1> QED BY <1>5, <1>6, NameStandsForOne

\* An option that takes an argument and is given one.
LEMMA GivenParse ==
  ASSUME Line, O!TypeOK, WalkOK, CountOK, Goes, O!Looking("long"), O!Known(O!Name), O!HasArg(O!Name),
         O!ParseOption(O!Name, O!Given(current)), O!Given(current) \in Texts
  PROVE  CountOK' /\ count' \in [O!Longs -> Nat] /\ DOMAIN store' = O!Longs
<1> DEFINE p == O!OptionOf(O!Name).long
<1>1. p \in O!Longs /\ \A o \in O!Longs : current \in O!Uses(o) <=> o = p
  BY LongUses
<1>2. /\ store' = [store EXCEPT ![p] = O!Given(current)] /\ count' = [count EXCEPT ![p] = @ + 1]
      /\ count \in [O!Longs -> Nat] /\ DOMAIN store = O!Longs
  BY DEF O!ParseOption, O!ParseDetails, O!TypeOK
<1> HIDE DEF p
<1>3. count' \in [O!Longs -> Nat] /\ DOMAIN store' = O!Longs
  BY <1>1, <1>2
<1>4. \A o \in O!Longs :
        /\ o # p => count'[o] = count[o] /\ store'[o] = store[o]
        /\ o = p => count'[o] = count[o] + 1 /\ store'[o] = O!Given(current)
  BY <1>1, <1>2
<1>5. CountOK'
  BY <1>1, <1>4, GoesCountOK
<1> QED BY <1>3, <1>5

\* What the walk keeps.
Walked == Line /\ O!TypeOK /\ WalkOK /\ CountOK /\ KeptOK

\* What is left to show of a step that takes the argument it looks at.
LEMMA Taking ==
  ASSUME Walked, Goes, UNCHANGED <<argv, nextKeep, stage>>, current' <= O!Argc, CountOK',
         count' \in [O!Longs -> Nat], DOMAIN store' = O!Longs,
         commandLine[current].kind \notin {"separator", "text"}
  PROVE  Walked'
<1>1. Line' /\ O!Argc' = O!Argc
  BY DEF Walked, Line, Goes, O!Argc
<1>2. O!TypeOK'
  BY <1>1, Indices DEF Walked, Goes, O!TypeOK
<1>3. WalkOK'
  BY GoesWalkOK DEF Walked, Goes
<1>4. KeptOK'
  BY GoesKeptOK DEF Walked
<1> QED BY <1>1, <1>2, <1>3, <1>4 DEF Walked

\* A long option without a value keeps the walk.
LEMMA LongFlagStep == ASSUME Walked, O!LongFlag PROVE Walked'
<1> DEFINE p == O!OptionOf(O!Name).long
<1>1. /\ O!Looking("long") /\ O!Known(O!Name) /\ ~O!HasArg(O!Name) /\ O!Argument.value = None
      /\ stage = "options" /\ O!Argument.kind = "long" /\ current \in 1 .. Len(commandLine)
      /\ current' = current + 1 /\ UNCHANGED <<commandLine, argv, nextKeep, stage>>
      /\ store' = [store EXCEPT ![p] = None] /\ count' = [count EXCEPT ![p] = @ + 1]
      /\ count \in [O!Longs -> Nat] /\ DOMAIN store = O!Longs
  BY Indices DEF O!LongFlag, O!Looking, O!ParseOption, O!ParseDetails, O!TypeOK, Walked
<1>2. /\ O!Argument = commandLine[current] /\ O!Name = commandLine[current].names[1]
      /\ p \in O!Longs /\ ~O!HasArg(p)
      /\ \A o \in O!Longs : current \in O!Uses(o) <=> o = p
  BY <1>1, Classified, LongUses DEF Walked
<1>3. Goes
  BY <1>1, <1>2 DEF Goes, O!TakesNext
<1> HIDE DEF p
<1>4. count' \in [O!Longs -> Nat] /\ DOMAIN store' = O!Longs
  BY <1>1, <1>2
<1>5. \A o \in O!Longs : o # p => count'[o] = count[o] /\ store'[o] = store[o]
  BY <1>1, <1>2
<1>6. CountOK'
  BY <1>2, <1>3, <1>5, GoesCountOK DEF Walked
<1>7. current' <= O!Argc
  BY <1>1, Indices DEF Walked
<1> QED BY <1>1, <1>2, <1>3, <1>4, <1>6, <1>7, Taking

\* A long option with its value after an equals sign keeps the walk.
LEMMA LongEqualsStep == ASSUME Walked, O!LongEquals PROVE Walked'
<1>1. /\ O!Looking("long") /\ O!Known(O!Name) /\ O!HasArg(O!Name) /\ O!Argument.value # None
      /\ stage = "options" /\ O!Argument.kind = "long" /\ current \in 1 .. Len(commandLine)
      /\ current' = current + 1 /\ UNCHANGED <<commandLine, argv, nextKeep, stage>>
      /\ O!ParseOption(O!Name, O!Argument.value)
  BY Indices DEF O!LongEquals, O!Looking, Walked
<1>2. O!Argument = commandLine[current] /\ commandLine[current] \in Arguments
  BY <1>1, Classified DEF Walked
<1>3. ~O!TakesNext(commandLine[current])
  BY <1>1, <1>2 DEF O!TakesNext
<1>4. O!Given(current) = O!Argument.value /\ O!Given(current) \in Texts
  BY <1>1, <1>2, <1>3 DEF O!Given, Arguments
<1>5. Goes
  BY <1>1, <1>3 DEF Goes
<1>6. CountOK' /\ count' \in [O!Longs -> Nat] /\ DOMAIN store' = O!Longs
  BY <1>1, <1>4, <1>5, GivenParse DEF Walked
<1>7. current' <= O!Argc
  BY <1>1, Indices DEF Walked
<1> QED BY <1>1, <1>2, <1>5, <1>6, <1>7, Taking

\* A long option that takes the next argument as its value keeps the walk.
LEMMA LongNextStep == ASSUME Walked, O!LongNext PROVE Walked'
<1>1. /\ O!Looking("long") /\ O!Known(O!Name) /\ O!HasArg(O!Name) /\ O!Argument.value = None
      /\ stage = "options" /\ O!Argument.kind = "long" /\ current \in 1 .. Len(commandLine)
      /\ current' = current + 2 /\ UNCHANGED <<commandLine, argv, nextKeep, stage>>
      /\ O!ParseOption(O!Name, O!NextText) /\ ~(current + 1 >= O!Argc)
  BY Indices DEF O!LongNext, O!Looking, O!ArgumentMissing, O!BehindNext, Walked
<1>2. /\ O!Argument = commandLine[current] /\ O!Name = commandLine[current].names[1]
  BY <1>1, Classified, LongUses DEF Walked
<1>3. O!TakesNext(commandLine[current])
  BY <1>1, <1>2 DEF O!TakesNext
<1>4. current + 1 \in 1 .. Len(commandLine) /\ current' <= O!Argc /\ current + 1 \in current .. Len(commandLine)
  BY <1>1, Indices DEF Walked
<1>5. commandLine[current + 1] \in Arguments /\ argv[current + 1] = commandLine[current + 1]
  BY <1>4, LineType DEF Walked, Line, WalkOK
<1>6. O!Given(current) = O!NextText /\ O!Given(current) \in Texts
  BY <1>3, <1>5 DEF O!Given, O!NextText, Arguments
<1>7. Goes
  BY <1>1, <1>3, Indices DEF Goes, Walked
<1>8. CountOK' /\ count' \in [O!Longs -> Nat] /\ DOMAIN store' = O!Longs
  BY <1>1, <1>6, <1>7, GivenParse DEF Walked
<1> QED BY <1>1, <1>2, <1>4, <1>7, <1>8, Taking

\* No letter of a cluster is the name of an option with an argument.
LEMMA ShortClusterStep == ASSUME Walked, O!ShortCluster PROVE Walked'
<1> DEFINE a == commandLine[current]
           L(o) == {i \in DOMAIN a.names : O!OptionOf(a.names[i]).long = o}
<1>1. /\ O!Looking("cluster") /\ \A i \in O!Letters : O!Known(O!Argument.names[i])
      /\ stage = "options" /\ O!Argument.kind = "cluster" /\ current \in 1 .. Len(commandLine)
      /\ current' = current + 1 /\ UNCHANGED <<commandLine, argv, nextKeep, store, stage>>
      /\ count \in [O!Longs -> Nat] /\ DOMAIN store = O!Longs
  BY Indices DEF O!ShortCluster, O!Looking, O!TypeOK, Walked
<1>2. O!Argument = a /\ a \in Arguments /\ current \in O!Options
  BY <1>1, Classified DEF Walked
<1>3. count' = [o \in O!Longs |-> count[o] + Cardinality(L(o))]
  <2>1. count' = [o \in O!Longs |->
          count[o] + Cardinality({i \in O!Letters : O!OptionOf(O!Argument.names[i]).long = o})]
    BY Zenon DEF O!ShortCluster, O!Cardinality, Cardinality
  <2> QED BY <1>2, <2>1, Zenon DEF O!Letters
<1>4. \A i \in DOMAIN a.names : O!Known(a.names[i]) /\ a.names[i] \notin O!Longs
  BY <1>1, <1>2, LineType DEF O!Letters, Walked, Line
<1>5. \A o : Cardinality(L(o)) \in Nat
  <2>1. a.names \in Seq(STRING)
    BY <1>2 DEF Arguments
  <2>2. IsFiniteSet(DOMAIN a.names)
    <3>1. DOMAIN a.names = 1 .. Len(a.names) /\ Len(a.names) \in Nat
      BY <2>1
    <3> QED BY <3>1, FS_Interval
  <2> QED BY <2>2, FS_Subset, FS_CardinalityType
<1>6. ASSUME NEW o \in O!Longs, current \notin O!Uses(o) PROVE Cardinality(L(o)) = 0
  <2>1. \A i \in DOMAIN a.names : a.names[i] \notin O!NamesOf(O!OptionOf(o))
    BY <1>2, <1>6 DEF O!Uses
  <2>2. L(o) = {}
    BY <1>4, <2>1, NameStandsForOne
  <2> QED BY <2>2, FS_EmptySet
<1>7. ASSUME NEW o \in O!Longs, O!HasArg(o) PROVE current \notin O!Uses(o)
  <2>1. O!NamesOf(O!OptionOf(o)) = {o}
    BY <1>7, OptionNames
  <2> QED BY <1>4, <2>1 DEF O!Uses
<1>8. ~O!TakesNext(a)
  BY <1>1, <1>2 DEF O!TakesNext
<1>9. Goes
  BY <1>1, <1>8 DEF Goes
<1> HIDE DEF L
<1>10. count' \in [O!Longs -> Nat]
  BY <1>1, <1>3, <1>5
<1>11. \A o \in O!Longs : current \notin O!Uses(o) => count'[o] = count[o] /\ store'[o] = store[o]
  BY <1>1, <1>3, <1>6
<1>12. CountOK'
  BY <1>7, <1>9, <1>11, GoesCountOK DEF Walked
<1>13. current' <= O!Argc
  BY <1>1, Indices DEF Walked
<1> QED BY <1>1, <1>2, <1>9, <1>10, <1>12, <1>13, Taking

\* The double dash, after which everything is left to the caller, keeps the walk.
LEMMA SeparatorStep == ASSUME Walked, O!Separator PROVE Walked'
<1>1. /\ stage = "options" /\ O!Argument.kind = "separator" /\ current \in 1 .. Len(commandLine)
      /\ current' = current + 1 /\ stage' = "rest"
      /\ UNCHANGED <<commandLine, argv, nextKeep, count, store>>
  BY Indices DEF O!Separator, O!Looking, Walked
<1>2. /\ O!Argument = commandLine[current] /\ current \in O!Separators
      /\ current \notin O!Options
  BY <1>1, Classified DEF Walked
<1>3. Goes
  BY <1>1, <1>2 DEF Goes, O!TakesNext
<1>4. \A o \in O!Longs : current \notin O!Uses(o)
  BY <1>2, PositionSets
<1>5. CountOK' /\ KeptOK'
  BY <1>1, <1>2, <1>3, <1>4, GoesCountOK, GoesKeptOK DEF Walked
<1>6. Line' /\ O!TypeOK'
  BY <1>1, Indices DEF Walked, Line, O!TypeOK, O!Argc
<1>7. WalkOK'
  <2>1. current' - 1 = current /\ \A i \in O!Separators : i >= current
    BY <1>1, Indices DEF Walked, WalkOK
  <2>2. \A i \in current' .. Len(commandLine) : argv[i] = commandLine[i]
    BY <1>1, Indices DEF Walked, WalkOK
  <2> QED BY <1>1, <1>2, <2>1, <2>2, SameLine DEF WalkOK
<1> QED BY <1>5, <1>6, <1>7 DEF Walked

\* The positions nobody takes go to the front of argv one behind the other.
LEMMA Places ==
  ASSUME Line, NEW c \in Nat, NEW i \in Free
  PROVE  /\ i < c => Place(i) \in 1 .. Cardinality(Before(Free, c))
         /\ Place(i) = Cardinality(Before(Free, i)) + 1
<1>1. Len(commandLine) \in Nat /\ Free \subseteq 1 .. Len(commandLine)
  BY LineType, PositionSets DEF Line
<1>2. i \in Nat /\ IsFiniteSet(Free) /\ Within(Free, Len(commandLine))
  <2>1. i \in Nat /\ Within(Free, Len(commandLine))
    BY <1>1 DEF Within
  <2> QED BY <1>1, <2>1, Finite
<1>3. Place(i) = Cardinality(Before(Free, i + 1))
  <2>1. \A j \in Free : j <= i <=> j < i + 1
    BY <1>1, <1>2
  <2>2. {j \in Free : j <= i} = Before(Free, i + 1)
    BY <2>1 DEF Before
  <2> QED BY <2>2 DEF Place
<1>4. Cardinality(Before(Free, i + 1)) = Cardinality(Before(Free, i)) + 1
  BY <1>1, <1>2, PassOne
<1>5. Cardinality(Before(Free, i)) \in Nat
  BY <1>1, <1>2, Finite
<1>6. ASSUME i < c PROVE Place(i) \in 1 .. Cardinality(Before(Free, c))
  <2>1. IsFiniteSet(Before(Free, c)) /\ Before(Free, i + 1) \subseteq Before(Free, c)
    <3>1. \A j \in Free : j < i + 1 => j < c
      BY <1>1, <1>2, <1>6
    <3> QED BY <1>2, <3>1, FS_Subset DEF Before
  <2>2. Cardinality(Before(Free, i + 1)) <= Cardinality(Before(Free, c)) /\ Cardinality(Before(Free, c)) \in Nat
    BY <2>1, FS_Subset, FS_CardinalityType
  <2> QED BY <1>3, <1>4, <1>5, <2>2
<1> QED BY <1>3, <1>4, <1>6

\* An argument that is no option is shifted to the front of argv; this keeps the walk.
LEMMA KeepTextStep == ASSUME Walked, O!KeepText PROVE Walked'
<1>1. /\ stage = "options" /\ O!Argument.kind = "text" /\ current \in 1 .. Len(commandLine)
      /\ current' = current + 1 /\ nextKeep' = nextKeep + 1
      /\ argv' = [argv EXCEPT ![nextKeep] = O!Argument]
      /\ UNCHANGED <<commandLine, count, store, stage>>
  BY Indices DEF O!KeepText, O!Looking, Walked
<1>2. /\ O!Argument = commandLine[current] /\ commandLine[current] \in Arguments
      /\ current \in Free /\ current \notin O!Options
  BY <1>1, Classified DEF Walked
<1>3. /\ Len(commandLine) \in Nat /\ nextKeep \in 1 .. current /\ argv \in Seq(Arguments)
      /\ DOMAIN argv = 1 .. Len(commandLine) /\ Len(argv) = Len(commandLine)
  BY Indices DEF Walked, Line
<1>4. Goes
  BY <1>1, <1>2 DEF Goes, O!TakesNext
<1>5. /\ argv' \in Seq(Arguments) /\ Len(argv') = Len(argv) /\ DOMAIN argv' = DOMAIN argv
      /\ \A i \in DOMAIN argv : argv'[i] = IF i = nextKeep THEN commandLine[current] ELSE argv[i]
  BY <1>1, <1>2, <1>3
<1>6. Line' /\ O!TypeOK'
  <2>1. Line' /\ O!Argc' = O!Argc
    BY <1>1, <1>5 DEF Walked, Line, O!Argc
  <2> QED BY <1>1, <1>3, <1>5, <2>1, Indices DEF Walked, O!TypeOK
<1>7. WalkOK'
  <2>1. \A i \in current' .. Len(commandLine) : argv'[i] = argv[i]
    BY <1>1, <1>3, <1>5
  <2> QED BY <1>1, <1>2, <1>4, <2>1, GoesWalkOK DEF Walked
<1>8. CountOK'
  <2>1. \A o \in O!Longs : current \notin O!Uses(o)
    BY <1>2, PositionSets
  <2> QED BY <1>1, <1>4, <2>1, GoesCountOK DEF Walked
<1>9. KeptOK'
  <2>1. /\ Passed(Free)' = Before(Free, current + 1)
        /\ nextKeep = Cardinality(Before(Free, current)) + 1
        /\ \A i \in Before(Free, current) : argv[Place(i)] = commandLine[i]
    BY <1>1, SameLine DEF Passed, Before, Walked, KeptOK
  <2>2. Within(Free, Len(commandLine)) /\ current \in Nat
    BY <1>1, PositionSets DEF Within
  <2>3. /\ Before(Free, current + 1) = Before(Free, current) \cup {current}
        /\ Cardinality(Before(Free, current + 1)) = Cardinality(Before(Free, current)) + 1
    BY <1>2, <1>3, <2>2, PassOne
  <2>4. Cardinality(Before(Free, current)) \in Nat
    BY <1>3, <2>2, Finite
  <2>5. nextKeep' = Cardinality(Passed(Free)') + 1
    BY <1>1, <2>1, <2>3
  <2>6. argv'[Place(current)] = commandLine[current]
    BY <1>2, <1>3, <1>5, <1>1, <2>1, <2>2, Places DEF Walked
  <2>7. ASSUME NEW i \in Before(Free, current) PROVE argv'[Place(i)] = commandLine[i]
    <3>1. i \in Free /\ i < current
      BY DEF Before
    <3>2. Place(i) \in 1 .. nextKeep - 1
      BY <2>1, <2>2, <2>4, <3>1, Places DEF Walked
    <3> QED BY <1>1, <1>3, <1>5, <2>1, <3>2
  <2>8. \A i \in Before(Free, current + 1) : argv'[Place(i)] = commandLine[i]
    BY <2>3, <2>6, <2>7
  <2> QED BY <1>1, <2>1, <2>5, <2>8, SameLine DEF KeptOK
<1> QED BY <1>6, <1>7, <1>8, <1>9 DEF Walked

\* Behind "--" everything is free, and nothing is an option.
LEMMA BehindSeparator ==
  ASSUME Line, O!TypeOK, WalkOK, stage = "rest"
  PROVE  /\ \A i \in Free : i < current \/ i \in current .. Len(commandLine)
         /\ current .. Len(commandLine) \subseteq Free
         /\ \A i \in O!Options : i < current
<1>1. /\ Len(commandLine) \in Nat /\ current \in 1 .. Len(commandLine) + 1
      /\ current - 1 \in O!Separators
  BY Indices DEF WalkOK
<1>2. \A i \in current .. Len(commandLine) : O!Behind(i) /\ i \in O!Positions
  BY <1>1 DEF O!Behind, O!Positions
<1>3. current .. Len(commandLine) \subseteq Free
  BY <1>2 DEF Free
<1>4. \A i \in O!Options : i \in 1 .. Len(commandLine) /\ ~O!Behind(i)
  BY DEF O!Options, O!Positions
<1>5. \A i \in O!Options : i < current
  BY <1>1, <1>2, <1>4
<1>6. \A i \in Free : i < current \/ i \in current .. Len(commandLine)
  BY <1>1, PositionSets
<1> QED BY <1>3, <1>5, <1>6

\* A position behind "--" has its place as far behind the others as it is itself.
LEMMA RestPlaces ==
  ASSUME Line, O!TypeOK, WalkOK, stage = "rest", NEW i \in current - 1 .. Len(commandLine)
  PROVE  Cardinality({j \in Free : j <= i}) = Cardinality(Before(Free, current)) + i - current + 1
<1> DEFINE A == Before(Free, current)
           B == current .. i
<1>1. Len(commandLine) \in Nat /\ current \in 1 .. Len(commandLine) + 1
  BY Indices
<1>2. IsFiniteSet(A) /\ Cardinality(A) \in Nat
  BY <1>1, PositionSets, Finite DEF Within
<1>3. IsFiniteSet(B) /\ Cardinality(B) = i - current + 1
  <2>1. i \in Int /\ current \in Int /\ current - 1 <= i
    BY <1>1
  <2>2. /\ IsFiniteSet(B)
        /\ Cardinality(B) = IF current > i THEN 0 ELSE i - current + 1
    BY <2>1, FS_Interval
  <2> QED BY <2>1, <2>2
<1>4. {j \in Free : j <= i} = A \cup B
  <2>1. \A j \in Free : j \in Nat /\ (j < current \/ j \in current .. Len(commandLine))
    BY BehindSeparator, PositionSets
  <2>2. \A j \in B : j \in Free /\ j <= i
    BY <1>1, BehindSeparator
  <2>3. \A j \in Free : j <= i <=> j < current \/ j \in B
    BY <1>1, <2>1
  <2> HIDE DEF B
  <2> QED BY <2>2, <2>3 DEF Before
<1>5. A \cap B = {}
  BY <1>1 DEF Before
<1>6. Cardinality(A \cup B) = Cardinality(A) + Cardinality(B)
  <2> HIDE DEF A, B
  <2>1. Cardinality(A \cup B) = Cardinality(A) + Cardinality(B) - Cardinality(A \cap B)
    BY <1>2, <1>3, FS_Union
  <2>2. Cardinality(A \cap B) = 0 /\ Cardinality(B) \in Nat
    BY <1>3, <1>5, FS_EmptySet, FS_CardinalityType
  <2> QED BY <1>2, <2>1, <2>2
<1>7. Cardinality({j \in Free : j <= i}) = Cardinality(A) + Cardinality(B)
  BY <1>4, <1>6, Zenon
<1>8. i \in Int /\ current \in Int
  BY <1>1
<1> HIDE DEF B
<1> QED BY <1>2, <1>3, <1>7, <1>8

\* The end of parsing, which moves the unread arguments behind the kept ones, keeps the walk.
LEMMA FinishStep == ASSUME Walked, O!Finish PROVE Walked'
<1> DEFINE n == Len(commandLine)
           moved == nextKeep .. nextKeep + (O!Argc - current) - 1
<1>1. /\ stage = "rest" \/ (stage = "options" /\ current = O!Argc)
      /\ argv' = [i \in DOMAIN argv |-> IF i \in moved THEN argv[current + i - nextKeep] ELSE argv[i]]
      /\ nextKeep' = nextKeep + (O!Argc - current) /\ current' = O!Argc /\ stage' = "parsed"
      /\ UNCHANGED <<commandLine, count, store>>
  BY DEF O!Finish
<1>2. /\ n \in Nat /\ O!Argc = n + 1 /\ current \in 1 .. n + 1 /\ nextKeep \in 1 .. current
      /\ DOMAIN argv = 1 .. n /\ argv \in Seq(Arguments) /\ Len(argv) = n
  BY Indices DEF Walked, Line
<1>3. \A i \in 1 .. n : argv'[i] = IF i \in moved THEN argv[current + i - nextKeep] ELSE argv[i]
  BY <1>1, <1>2
<1>4. /\ argv' \in Seq(Arguments) /\ Len(argv') = n /\ DOMAIN argv' = 1 .. n
  <2>1. \A i \in 1 .. n : argv[i] \in Arguments
    BY <1>2
  <2>2. \A i \in 1 .. n : i \in moved => current + i - nextKeep \in 1 .. n
    BY <1>2
  <2>3. \A i \in 1 .. n : (IF i \in moved THEN argv[current + i - nextKeep] ELSE argv[i]) \in Arguments
    BY <2>1, <2>2
  <2> HIDE DEF moved
  <2>4. argv' = [i \in 1 .. n |-> IF i \in moved THEN argv[current + i - nextKeep] ELSE argv[i]]
    BY <1>1, <1>2
  <2> HIDE DEF n
  <2> QED BY <1>2, <2>3, <2>4
<1>5. Line' /\ O!Argc' = n + 1
  BY <1>1, <1>4 DEF Walked, Line, O!Argc
<1>6. O!TypeOK'
  <2>1. nextKeep' \in 1 .. current' /\ current' \in 1 .. O!Argc'
    BY <1>1, <1>2, <1>5
  <2>2. DOMAIN commandLine = 1 .. n
    BY LineType DEF Walked, Line
  <2> QED BY <1>1, <1>4, <2>1, <2>2 DEF Walked, O!TypeOK
<1>7. WalkOK'
  <2>1. current' .. n = {}
    BY <1>1, <1>2
  <2> QED BY <1>1, <1>2, <2>1 DEF WalkOK
<1>8. /\ \A T : Passed(T) = Before(T, current)
      /\ \A T : Passed(T)' = Before(T', n + 1)
  BY <1>1, <1>2 DEF Passed, Before
<1>9. CountOK'
  <2>1. ASSUME NEW o \in O!Longs PROVE Before(O!Uses(o), n + 1) = Before(O!Uses(o), current)
    <3>1. CASE stage = "rest"
      <4>1. \A i \in O!Uses(o) : i < current /\ i < n + 1
        <5>1. \A i \in O!Uses(o) : i \in O!Options /\ i \in 1 .. n
          BY PositionSets
        <5> QED BY <1>2, <3>1, <5>1, BehindSeparator DEF Walked
      <4> QED BY <4>1 DEF Before
    <3> QED BY <1>1, <1>2, <3>1
  <2>2. \A o \in O!Longs : Passed(O!Uses(o))' = Passed(O!Uses(o))
    BY <1>1, <1>8, <2>1, SameLine
  <2> QED BY <1>1, <2>2, SameLine DEF Walked, CountOK
<1>10. KeptOK'
  <2>1. Passed(Free)' = Free
    <3>1. \A i \in Free : i < n + 1
      BY <1>2, PositionSets
    <3> QED BY <1>1, <1>8, <3>1, SameLine DEF Before
  <2>2. /\ nextKeep = Cardinality(Before(Free, current)) + 1
        /\ \A i \in Before(Free, current) : argv[Place(i)] = commandLine[i]
    BY <1>8 DEF Walked, KeptOK
  <2>6. Cardinality(Before(Free, current)) \in Nat
    BY <1>2, PositionSets, Finite DEF Within
  <2>3. ASSUME NEW i \in Free, i < current
        PROVE  Place(i) \in 1 .. nextKeep - 1 /\ argv'[Place(i)] = commandLine[i]
    <3>1. Place(i) \in 1 .. Cardinality(Before(Free, current))
      BY <1>2, <2>3, Places DEF Walked
    <3>2. Place(i) \in 1 .. nextKeep - 1
      BY <1>2, <2>2, <2>6, <3>1
    <3>3. Place(i) \in 1 .. n /\ Place(i) \notin moved
      BY <1>2, <3>2
    <3>4. argv[Place(i)] = commandLine[i]
      BY <2>2, <2>3 DEF Before
    <3> QED BY <1>3, <3>2, <3>3, <3>4
  <2>4. CASE stage = "options"
    <3>1. current = n + 1 /\ nextKeep' = nextKeep /\ Before(Free, current) = Free
      <4>1. \A i \in Free : i < n + 1
        BY <1>2, PositionSets
      <4> QED BY <1>1, <1>2, <2>4, <4>1 DEF Before
    <3>2. \A i \in Free : i < current
      BY <3>1 DEF Before
    <3> QED BY <1>1, <2>1, <2>2, <2>3, <3>1, <3>2, SameLine DEF KeptOK
  <2>5. CASE stage = "rest"
    <3>1. Cardinality(Free) = Cardinality(Before(Free, current)) + n - current + 1
      <4>1. n \in current - 1 .. n /\ {j \in Free : j <= n} = Free
        <5>1. \A j \in Free : j <= n
          BY <1>2, PositionSets
        <5> QED BY <1>2, <5>1
      <4> QED BY <2>5, <4>1, RestPlaces DEF Walked
    <3>2. nextKeep' = Cardinality(Free) + 1
      BY <1>1, <1>2, <2>2, <2>6, <3>1
    <3>3. ASSUME NEW i \in current .. n PROVE argv'[Place(i)] = commandLine[i]
      <4>1. Place(i) = nextKeep + i - current
        <5>1. i \in current - 1 .. Len(commandLine)
          BY <1>2
        <5>2. Place(i) = Cardinality(Before(Free, current)) + i - current + 1
          BY <2>5, <5>1, RestPlaces DEF Walked, Place
        <5> QED BY <1>2, <2>2, <2>6, <5>2
      <4>2. Place(i) \in moved /\ Place(i) \in 1 .. n /\ current + Place(i) - nextKeep = i
        BY <1>2, <4>1
      <4>3. argv[i] = commandLine[i]
        BY DEF Walked, WalkOK
      <4> QED BY <1>3, <4>2, <4>3
    <3>4. \A i \in Free : argv'[Place(i)] = commandLine[i]
      BY <2>3, <2>5, <3>3, BehindSeparator DEF Walked
    <3> QED BY <1>1, <2>1, <3>2, <3>4, SameLine DEF KeptOK
  <2> QED BY <1>1, <2>4, <2>5
<1> QED BY <1>5, <1>6, <1>7, <1>9, <1>10 DEF Walked

\* Only the texts of numbers are converted.
LEMMA OthersConvert ==
  ASSUME NEW name, NEW text, O!OptionOf(name).type # "uint16"
  PROVE  O!Converts(name, text)
BY Zenon DEF O!Converts

\* On a command line that is well formed nothing makes the walk throw.
LEMMA ThrowStep ==
  ASSUME Walked, O!Throw
  PROVE  Line' /\ O!TypeOK' /\ stage' = "threw" /\ commandLine' = commandLine /\ ~WellFormed
<1>1. /\ stage' = "threw" /\ UNCHANGED <<commandLine, argv, current, nextKeep, count, store>>
  BY DEF O!Throw
<1>2. Line' /\ O!TypeOK'
  BY <1>1 DEF Walked, Line, O!TypeOK, O!Argc
<1>3. ASSUME WellFormed PROVE FALSE
  <2> DEFINE a == commandLine[current]
  <2>1. /\ stage = "options" /\ current \in 1 .. Len(commandLine)
        /\ O!Argument.kind \in {"long", "cluster"}
    BY Indices DEF O!Throw, O!Looking, Walked
  <2>2. O!Argument = a /\ current \in O!Options
    BY <2>1, Classified DEF Walked
  <2>3. ~\E i \in O!Letters : ~O!Known(O!Argument.names[i])
    BY <1>3, <2>2 DEF WellFormed, O!Letters
  <2>4. /\ O!Looking("long") /\ O!Known(O!Name)
        /\ \/ O!Argument.value # None /\ ~(O!HasArg(O!Name) /\ O!Converts(O!Name, O!Argument.value))
           \/ /\ O!Argument.value = None /\ O!HasArg(O!Name)
              /\ ~(~O!ArgumentMissing /\ O!Converts(O!Name, O!NextText))
    BY <2>3 DEF O!Throw
  <2>5. /\ O!Name = a.names[1] /\ a.kind = "long"
        /\ O!OptionOf(O!Name).long \in O!Longs
        /\ \A o \in O!Longs : current \in O!Uses(o) <=> o = O!OptionOf(O!Name).long
        /\ O!HasArg(O!Name) <=> O!HasArg(O!OptionOf(O!Name).long)
    BY <2>2, <2>4, LongUses DEF Walked, O!Looking
  <2>6. "help" \in O!Longs /\ O!OptionOf(O!Name).long # "help"
    BY <1>3, <2>5, OptionNames DEF WellFormed
  <2>7. O!HasArg(O!Name)
    BY <2>5, <2>6, OptionNames
  <2>8. ASSUME NEW text, text = O!Given(current), ~O!Converts(O!Name, text) PROVE FALSE
    <3>1. O!OptionOf(O!Name).type = "uint16"
      BY <2>8, OthersConvert
    <3>2. O!Name \in O!Longs /\ O!OptionOf(O!Name).long = O!Name
      BY <2>4, <2>6, OptionNames
    <3>3. O!Name = "id"
      BY <2>6, <3>1, <3>2, OptionNames
    <3>4. current \in O!Uses("id")
      BY <2>5, <3>2, <3>3
    <3> QED BY <1>3, <2>8, <3>3, <3>4 DEF WellFormed
  <2>9. CASE O!Argument.value # None
    <3>1. O!Given(current) = O!Argument.value
      BY <2>2, <2>9 DEF O!Given, O!TakesNext
    <3> QED BY <2>4, <2>7, <2>8, <2>9, <3>1
  <2>10. CASE O!Argument.value = None
    <3>1. O!TakesNext(a)
      BY <2>2, <2>4, <2>5, <2>7, <2>10 DEF O!TakesNext
    <3>2. current < Len(commandLine)
      BY <1>3, <2>2, <3>1 DEF WellFormed
    <3>3. ~O!ArgumentMissing /\ current + 1 \in current .. Len(commandLine)
      BY <2>1, <3>2, Indices DEF Walked, O!ArgumentMissing
    <3>4. O!Given(current) = O!NextText
      BY <3>1, <3>3 DEF O!Given, O!NextText, Walked, WalkOK
    <3> QED BY <2>4, <2>8, <2>10, <3>3, <3>4
  <2> QED BY <2>9, <2>10
<1> QED BY <1>1, <1>2, <1>3

\* Every step of the parser keeps the walk and the line; it throws only on a line that is not well formed.
LEMMA WalkStep ==
  ASSUME Line, O!TypeOK, Walk, O!Next
  PROVE  Line' /\ O!TypeOK' /\ Walk' /\ commandLine' = commandLine /\ (stage' = "threw" => ~WellFormed)
<1>1. Walked
  BY DEF Walked, Walk, O!Next, O!Separator, O!KeepText, O!ShortCluster, O!LongFlag, O!LongEquals,
         O!LongNext, O!Throw, O!Finish, O!Looking
<1>2. ASSUME Walked', commandLine' = commandLine, stage' \in {"options", "rest", "parsed"}
      PROVE  Line' /\ O!TypeOK' /\ Walk' /\ commandLine' = commandLine /\ (stage' = "threw" => ~WellFormed)
  BY <1>2 DEF Walked, Walk
<1>3. CASE O!Separator
  BY <1>1, <1>2, <1>3, SeparatorStep DEF O!Separator
<1>4. CASE O!KeepText
  BY <1>1, <1>2, <1>4, KeepTextStep DEF O!KeepText, O!Looking
<1>5. CASE O!ShortCluster
  BY <1>1, <1>2, <1>5, ShortClusterStep DEF O!ShortCluster, O!Looking
<1>6. CASE O!LongFlag
  BY <1>1, <1>2, <1>6, LongFlagStep DEF O!LongFlag, O!Looking
<1>7. CASE O!LongEquals
  BY <1>1, <1>2, <1>7, LongEqualsStep DEF O!LongEquals, O!Looking
<1>8. CASE O!LongNext
  BY <1>1, <1>2, <1>8, LongNextStep DEF O!LongNext, O!Looking
<1>9. CASE O!Finish
  BY <1>1, <1>2, <1>9, FinishStep DEF O!Finish
<1>10. CASE O!Throw
  BY <1>1, <1>10, ThrowStep DEF Walk
<1> QED BY <1>3, <1>4, <1>5, <1>6, <1>7, <1>8, <1>9, <1>10 DEF O!Next

\* The parser starts on a walk that has read nothing.
LEMMA WalkStart ==
  ASSUME O!Init
  PROVE  Line /\ O!TypeOK /\ Walk
<1>1. /\ commandLine \in CommandLines /\ argv = commandLine /\ current = 1 /\ nextKeep = 1
      /\ count = [o \in O!Longs |-> 0] /\ store = [o \in O!Longs |-> None] /\ stage = "options"
  BY DEF O!Init
<1>2. Len(commandLine) \in Nat
  BY <1>1, LineType
<1>3. Line
  BY <1>1, LineType DEF Line
<1>4. O!TypeOK
  BY <1>1, <1>2 DEF O!TypeOK, O!Argc
<1>5. ASSUME NEW T, T \subseteq 1 .. Len(commandLine) PROVE Passed(T) = {}
  <2>1. \A i \in T : i \in Nat /\ i >= 1 /\ ~(i < 1)
    BY <1>2, <1>5
  <2> QED BY <1>1, <2>1 DEF Passed, Before
<1>6. \A o \in O!Longs : Passed(O!Uses(o)) = {}
  <2>1. \A o : O!Uses(o) \subseteq 1 .. Len(commandLine)
    BY PositionSets
  <2> QED BY <1>5, <2>1
<1>7. Passed(Free) = {}
  BY <1>5, PositionSets
<1>8. WalkOK
  <2>1. 1 \notin O!ValuePositions
    BY <1>2 DEF O!ValuePositions
  <2>2. \A i \in O!Separators : i >= 1
    BY <1>2, PositionSets
  <2> QED BY <1>1, <2>1, <2>2 DEF WalkOK
<1>9. CountOK
  BY <1>1, <1>6, FS_EmptySet DEF CountOK
<1>10. KeptOK
  BY <1>1, <1>7, FS_EmptySet DEF KeptOK
<1> QED BY <1>3, <1>4, <1>8, <1>9, <1>10 DEF Walk

-----------------------------------------------------------------------------
(* What the walk leaves to read *)

\* A nonempty set of positions has a last one.
LEMMA LastPosition ==
  ASSUME NEW n \in Nat, NEW T, Within(T, n), T # {}
  PROVE  \E i \in T : \A j \in T : j <= i
<1> DEFINE U == {k \in Nat : \A j \in T : j <= k}
<1>1. \A j \in T : j \in Nat /\ 1 <= j /\ j <= n
  BY DEF Within
<1>2. n \in U
  BY <1>1
<1>3. PICK m \in U : \A k \in U : m <= k
  BY <1>2, LeastNumber
<1>4. m \in Nat /\ \A j \in T : j <= m
  BY <1>3
<1>5. m \in T
  <2> SUFFICES ASSUME m \notin T PROVE FALSE
    OBVIOUS
  <2>1. \A j \in T : j <= m - 1
    BY <1>1, <1>4
  <2>2. m - 1 \in Nat
    BY <1>1, <1>4
  <2>3. m - 1 \in U
    BY <2>1, <2>2
  <2> QED BY <1>3, <1>4, <2>3
<1> QED BY <1>4, <1>5

\* Behind the walk, an option with an argument has been counted once for each of its
\* uses and has the value of the last of them.
LEMMA Stored ==
  ASSUME Line, O!TypeOK, Walk, stage = "parsed", NEW o \in O!Longs
  PROVE  /\ O!Uses(o) = {} => count[o] = 0
         /\ O!HasArg(o) =>
              /\ count[o] = Cardinality(O!Uses(o))
              /\ O!Uses(o) # {} => /\ count[o] > 0 /\ store[o] = O!LastGiven(o)
                                  /\ O!LastGiven(o) \in Texts
<1>1. Within(O!Uses(o), Len(commandLine)) /\ Len(commandLine) \in Nat
  <2>1. O!Uses(o) \subseteq 1 .. Len(commandLine)
    BY PositionSets
  <2> QED BY <2>1, Indices DEF Within
<1>2. Passed(O!Uses(o)) = O!Uses(o)
  <2>1. \A i \in O!Uses(o) : i < current
    BY <1>1 DEF Within, Walk, WalkOK
  <2> QED BY <2>1 DEF Passed, Before
<1>3. /\ O!Uses(o) = {} => count[o] = 0
      /\ O!HasArg(o) =>
           /\ count[o] = Cardinality(O!Uses(o))
           /\ \A i \in O!Uses(o) :
                (\A j \in O!Uses(o) : j <= i) => store[o] = O!Given(i) /\ store[o] \in Texts
  BY <1>2 DEF Walk, CountOK
<1>4. ASSUME O!HasArg(o), O!Uses(o) # {}
      PROVE  count[o] > 0 /\ store[o] = O!LastGiven(o) /\ O!LastGiven(o) \in Texts
  <2>1. \E i \in O!Uses(o) : \A j \in O!Uses(o) : j <= i
    BY <1>1, <1>4, LastPosition
  <2> DEFINE last == CHOOSE i \in O!Uses(o) : \A j \in O!Uses(o) : j <= i
  <2>2. last \in O!Uses(o) /\ \A j \in O!Uses(o) : j <= last
    BY <2>1, Zenon
  <2>3. O!LastGiven(o) = O!Given(last)
    BY Zenon DEF O!LastGiven
  <2> HIDE DEF last
  <2>4. store[o] = O!Given(last) /\ store[o] \in Texts
    BY <1>3, <1>4, <2>2
  <2>5. Cardinality(O!Uses(o)) \in Nat /\ Cardinality(O!Uses(o)) # 0
    BY <1>1, <1>4, Finite, FS_EmptySet
  <2> QED BY <1>3, <1>4, <2>3, <2>4, <2>5
<1> QED BY <1>3, <1>4

\* The text of a mandatory option that was counted.
LEMMA TextOfMandatory ==
  ASSUME Line, O!TypeOK, Walk, stage = "parsed", NEW o \in Mandatory, count[o] > 0
  PROVE  O!TextOf(o) = O!LastGiven(o) /\ O!LastGiven(o) \in Texts
<1>1. o \in O!Longs /\ O!HasArg(o) /\ O!OptionOf(o).long = o
  BY OptionNames DEF Mandatory
<1>2. O!Uses(o) # {}
  BY <1>1, Stored
<1> QED BY <1>1, <1>2, Stored DEF O!TextOf

\* The largest 16 bit number.
LEMMA MaxType == O!Uint16Max \in Nat /\ O!Uint16Max' = O!Uint16Max
BY DEF O!Uint16Max

\* What a text and its parts are.
LEMMA TextParts ==
  ASSUME NEW text \in Texts
  PROVE  /\ text \in Seq(Parts) /\ Len(text) \in Nat /\ Len(text) >= 1 /\ text[1] \in Parts
         /\ O!Uint16(text) \in 0 .. O!Uint16Max
         /\ PortPassed(text) =>
              /\ FrontToken(text) = text[1] /\ BackToken(text) = text[2] /\ text[2] \in Parts
              /\ ~(text[2].n < SOCK_PORT_HIGH_BOUND) /\ Narrow(text[2].n) \in 0 .. O!Uint16Max
<1>1. text \in Seq(Parts) /\ Len(text) \in Nat /\ Len(text) >= 1 /\ text[1] \in Parts
  BY DEF Texts
<1>2. \A part \in Parts : part.n \in Int
  BY DEF Parts
<1>3. \A k \in Int : k % (O!Uint16Max + 1) \in 0 .. O!Uint16Max
  <2>1. O!Uint16Max \in Nat
    BY MaxType
  <2> QED BY <2>1
<1>4. O!Uint16(text) \in 0 .. O!Uint16Max
  BY <1>1, <1>2, <1>3 DEF O!Uint16
<1>5. ASSUME PortPassed(text)
      PROVE  /\ FrontToken(text) = text[1] /\ BackToken(text) = text[2] /\ text[2] \in Parts
             /\ ~(text[2].n < SOCK_PORT_HIGH_BOUND) /\ Narrow(text[2].n) \in 0 .. O!Uint16Max
  <2>1. Len(Split(text)) = 2 /\ PortAllowed(BackToken(text).n)
    BY <1>5 DEF PortPassed
  <2>2. Split(text) = text \/ (Split(text) = SubSeq(text, 1, Len(text) - 1) /\ Len(text) - 1 \in Nat)
    BY <1>1 DEF Split
  <2>3. Split(text)[1] = text[1] /\ Split(text)[2] = text[2] /\ Len(text) >= 2
    <3>1. CASE Split(text) = text
      BY <1>1, <2>1, <3>1
    <3>2. CASE Split(text) # text
      <4> DEFINE m == Len(text) - 1
                 front == SubSeq(text, 1, m)
      <4>1. Split(text) = front /\ m \in Nat /\ m < Len(text)
        BY <1>1, <2>2, <3>2
      <4>2. Len(front) = m /\ \A i \in 1 .. m : front[i] = text[i]
        <5>1. ASSUME NEW s \in Seq(Parts), NEW k \in Nat, k <= Len(s)
              PROVE  Len(SubSeq(s, 1, k)) = k /\ \A i \in 1 .. k : SubSeq(s, 1, k)[i] = s[i]
          BY <5>1
        <5> HIDE DEF m
        <5>2. m <= Len(text)
          BY <1>1, <4>1
        <5> QED BY <1>1, <4>1, <5>1, <5>2
      <4> HIDE DEF front
      <4>3. m = 2
        BY <2>1, <4>1, <4>2
      <4>4. Len(text) >= 2
        BY <1>1, <4>3
      <4> HIDE DEF m
      <4>5. 1 \in 1 .. m /\ 2 \in 1 .. m
        BY <4>3
      <4> QED BY <4>1, <4>2, <4>4, <4>5
    <3> QED BY <3>1, <3>2
  <2>4. text[2] \in Parts
    BY <1>1, <2>3
  <2>5. Narrow(text[2].n) \in 0 .. O!Uint16Max
    BY <1>2, <1>3, <2>4 DEF Narrow
  <2> QED BY <2>1, <2>3, <2>4, <2>5 DEF FrontToken, BackToken, PortAllowed
<1> QED BY <1>1, <1>4, <1>5

-----------------------------------------------------------------------------
(* The inductive invariant *)

\* The types of the program's own variables.
OwnTypes ==
  /\ step \in {"parse", "own-addr", "thrift-addr", "accepted", "refused"}
  /\ {applId, ownPort, thriftPort} \ {None} \subseteq 0 .. O!Uint16Max
  /\ None \in {ownIpaddr, thriftIpAddr} => step # "accepted"

\* The steps behind the walk leave it as it is.
LEMMA WalkKept ==
  ASSUME Line, O!TypeOK, Walk, UNCHANGED walkVars
  PROVE  /\ Line' /\ O!TypeOK' /\ Walk' /\ WellFormed' = WellFormed
         /\ \A o : O!LastGiven(o)' = O!LastGiven(o)
<1>1. UNCHANGED <<commandLine, argv, current, nextKeep, count, store, stage>>
  BY DEF walkVars
<1>2. Line' /\ O!TypeOK'
  BY <1>1 DEF Line, O!TypeOK, O!Argc
<1>3. \A T : Passed(T)' = Before(T', current)
  BY <1>1 DEF Passed, Before
<1>4. ASSUME WalkOK, CountOK, KeptOK PROVE WalkOK' /\ CountOK' /\ KeptOK'
  <2>1. WalkOK'
    BY <1>1, <1>4, SameLine DEF WalkOK
  <2>2. \A o \in O!Longs : Passed(O!Uses(o))' = Passed(O!Uses(o))
    BY <1>1, <1>3, SameLine DEF Passed
  <2>3. CountOK'
    BY <1>1, <1>4, <2>2, SameLine DEF CountOK
  <2>4. Passed(Free)' = Passed(Free)
    BY <1>1, <1>3, SameLine DEF Passed
  <2>5. KeptOK'
    BY <1>1, <1>4, <2>4, SameLine DEF KeptOK
  <2> QED BY <2>1, <2>3, <2>5
<1>5. Walk'
  BY <1>1, <1>4 DEF Walk
<1> QED BY <1>1, <1>2, <1>5, SameLine

\* stoi reads a port of 16 bits above the reserved range, and the check lets it pass.
LEMMA GoodPort ==
  ASSUME NEW part, part.kind = "number",
         part.n \in Int, part.n >= SOCK_PORT_HIGH_BOUND, part.n <= O!Uint16Max
  PROVE  PortAllowed(part.n) /\ HasNumber(part)
<1>1. IntMax \in Int /\ IntMax >= 65535
  BY IntMaxAssumption
<1>2. ASSUME NEW n \in Int, n >= 1024, n <= 65535 PROVE ~(n < 1024) /\ n \in -IntMax - 1 .. IntMax
  BY <1>1, <1>2
<1>3. part.kind \in {"number", "prefixed", "ip"}
  OBVIOUS
<1> QED BY <1>2, <1>3 DEF PortAllowed, HasNumber, SOCK_PORT_HIGH_BOUND, O!Uint16Max

\* On a well-formed command line the options that are read pass every check.
LEMMA Acceptable ==
  ASSUME Line, O!TypeOK, Walk, stage = "parsed", WellFormed
  PROVE  /\ O!Count("help") = 0
         /\ \A o \in Mandatory : O!Count(o) > 0
         /\ \A o \in {"own-addr", "thrift-addr"} :
              PortPassed(O!TextOf(o)) /\ AddressPassed(O!TextOf(o))
<1>1. /\ "help" \in O!Longs /\ \A o \in Mandatory : o \in O!Longs /\ O!HasArg(o)
      /\ \A o \in O!Longs : O!Known(o) /\ O!OptionOf(o).long = o
  BY OptionNames DEF Mandatory
<1>2. \A o \in O!Longs : O!Count(o) = count[o]
  BY <1>1 DEF O!Count
<1>3. O!Uses("help") = {} /\ \A o \in Mandatory : O!Uses(o) # {}
  BY DEF WellFormed
<1>4. O!Count("help") = 0 /\ \A o \in Mandatory : O!Count(o) > 0
  BY <1>1, <1>2, <1>3, Stored
<1>5. ASSUME NEW o \in {"own-addr", "thrift-addr"}
      PROVE  PortPassed(O!TextOf(o)) /\ AddressPassed(O!TextOf(o))
  <2> DEFINE text == O!LastGiven(o)
  <2>1. o \in Mandatory
    BY DEF Mandatory
  <2>2. O!TextOf(o) = text /\ text \in Texts
    BY <1>1, <1>2, <1>4, <2>1, TextOfMandatory
  <2>3. /\ Len(text) = 2 /\ text[1].kind = "ip" /\ text[2].kind = "number"
        /\ text[2].n \in SOCK_PORT_HIGH_BOUND .. O!Uint16Max
    BY DEF WellFormed
  <2> HIDE DEF text
  <2>4. Split(text) = text
    BY <2>3 DEF Split
  <2>5. text[2] \in Parts
    <3>1. text \in Seq(Parts)
      BY <2>2, TextParts
    <3>2. \A i \in 1 .. Len(text) : text[i] \in Parts
      BY <3>1
    <3> QED BY <2>3, <3>2
  <2>6. PortAllowed(text[2].n) /\ HasNumber(text[2])
    <3>1. O!Uint16Max \in Nat /\ SOCK_PORT_HIGH_BOUND \in Nat
      BY MaxType DEF SOCK_PORT_HIGH_BOUND
    <3>2. text[2].n \in Int /\ text[2].n >= SOCK_PORT_HIGH_BOUND /\ text[2].n <= O!Uint16Max
      BY <2>3, <3>1
    <3> QED BY <2>3, <3>2, GoodPort
  <2> QED BY <2>2, <2>3, <2>4, <2>6 DEF PortPassed, AddressPassed, BackToken, FrontToken
<1> QED BY <1>4, <1>5

\* A failed check refuses a command line that is not well formed.
LEMMA RefuseStep ==
  ASSUME IInv, Refuse, ~WellFormed, UNCHANGED ownVars, UNCHANGED <<thriftIpAddr, thriftServerAddress>>,
         thriftPort' \in {thriftPort} \cup 0 .. O!Uint16Max
  PROVE  IInv'
<1>1. UNCHANGED walkVars /\ step' = "refused" /\ applId' = applId /\ UNCHANGED <<ownPort, ownIpaddr>>
  BY DEF Refuse, ownVars
<1>2. Line' /\ O!TypeOK' /\ Walk' /\ ~WellFormed'
  BY <1>1, WalkKept DEF IInv, TypeOK
<1>3. OwnTypes'
  <2>1. {applId, ownPort, thriftPort} \ {None} \subseteq 0 .. O!Uint16Max
    BY DEF IInv, TypeOK
  <2>2. O!Uint16Max' = O!Uint16Max
    BY MaxType
  <2> QED BY <1>1, <2>1, <2>2 DEF OwnTypes
<1>4. Reading' /\ Accepting'
  BY <1>1, <1>2 DEF Reading, Accepting
<1> QED BY <1>2, <1>3, <1>4 DEF IInv, TypeOK, OwnTypes

\* An address that passes its checks is taken as its option gives it.
LEMMA AddressTaken ==
  ASSUME Line, O!TypeOK, Walk, stage = "parsed", NEW o \in {"own-addr", "thrift-addr"}, count[o] > 0,
         PortPassed(O!TextOf(o)), AddressPassed(O!TextOf(o))
  PROVE  /\ Taken(o, Narrow(BackToken(O!TextOf(o)).n), FrontToken(O!TextOf(o)))
         /\ Narrow(BackToken(O!TextOf(o)).n) \in 0 .. O!Uint16Max
         /\ FrontToken(O!TextOf(o)) # None
<1>1. O!TextOf(o) = O!LastGiven(o) /\ O!LastGiven(o) \in Texts
  BY TextOfMandatory DEF Mandatory
<1>2. FrontToken(O!TextOf(o)) \in Parts /\ Narrow(BackToken(O!TextOf(o)).n) \in 0 .. O!Uint16Max
  BY <1>1, TextParts
<1>3. FrontToken(O!TextOf(o)) # None
  BY <1>2, NoneAssumption
<1> QED BY <1>1, <1>2, <1>3 DEF Taken

\* The checks of an address look at its text only.
LEMMA SameChecks ==
  ASSUME NEW o, O!LastGiven(o)' = O!LastGiven(o)
  PROVE  /\ PortPassed(O!LastGiven(o))' <=> PortPassed(O!LastGiven(o))
         /\ AddressPassed(O!LastGiven(o))' <=> AddressPassed(O!LastGiven(o))
         /\ Narrow(BackToken(O!LastGiven(o)).n)' = Narrow(BackToken(O!LastGiven(o)).n)
         /\ FrontToken(O!LastGiven(o))' = FrontToken(O!LastGiven(o))
<1>1. Split(O!LastGiven(o))' = Split(O!LastGiven(o))
  BY DEF Split
<1>2. BackToken(O!LastGiven(o))' = BackToken(O!LastGiven(o))
  BY <1>1 DEF BackToken
<1>3. FrontToken(O!LastGiven(o))' = FrontToken(O!LastGiven(o))
  BY <1>1 DEF FrontToken
<1>4. HasNumber(BackToken(O!LastGiven(o)))' <=> HasNumber(BackToken(O!LastGiven(o)))
  BY <1>2 DEF HasNumber
<1>5. PortAllowed(BackToken(O!LastGiven(o)).n)' <=> PortAllowed(BackToken(O!LastGiven(o)).n)
  BY <1>2 DEF PortAllowed, SOCK_PORT_HIGH_BOUND
<1>6. Narrow(BackToken(O!LastGiven(o)).n)' = Narrow(BackToken(O!LastGiven(o)).n)
  BY <1>2 DEF Narrow, O!Uint16Max
<1>7. PortPassed(O!LastGiven(o))' <=> PortPassed(O!LastGiven(o))
  BY <1>1, <1>4, <1>5 DEF PortPassed
<1>8. AddressPassed(O!LastGiven(o))' <=> AddressPassed(O!LastGiven(o))
  BY <1>3 DEF AddressPassed
<1> QED BY <1>3, <1>6, <1>7, <1>8

\* As long as the command line stays the same, so does what its options give.
LEMMA SameTaken ==
  ASSUME \A o : O!LastGiven(o)' = O!LastGiven(o)
  PROVE  /\ O!Uint16(O!LastGiven("id"))' = O!Uint16(O!LastGiven("id"))
         /\ \A o : Taken(o, ownPort, ownIpaddr)' <=> Taken(o, ownPort', ownIpaddr')
         /\ \A o : Taken(o, thriftPort, thriftIpAddr)' <=> Taken(o, thriftPort', thriftIpAddr')
<1>1. O!Uint16(O!LastGiven("id"))' = O!Uint16(O!LastGiven("id"))
  BY DEF O!Uint16, O!Uint16Max
<1>2. \A o : Taken(o, ownPort, ownIpaddr)' <=> Taken(o, ownPort', ownIpaddr')
  BY SameChecks DEF Taken
<1>3. \A o : Taken(o, thriftPort, thriftIpAddr)' <=> Taken(o, thriftPort', thriftIpAddr')
  BY SameChecks DEF Taken
<1> QED BY <1>1, <1>2, <1>3

\* The three options are read on a command line that gives all of them.
LEMMA ReadStep ==
  ASSUME IInv, ReadId \/ ReadOwnAddress \/ ReadThriftAddress
  PROVE  IInv'
<1>1. Line /\ O!TypeOK /\ Walk /\ OwnTypes /\ Reading
  BY DEF IInv, TypeOK, OwnTypes
<1>2. /\ UNCHANGED walkVars /\ stage = "parsed" /\ \A o \in Mandatory : count[o] > 0
      /\ step' \in {"own-addr", "thrift-addr", "accepted"} /\ step # "refused"
  <2>1. CASE ReadId
    <3>1. \A o \in Mandatory : O!Count(o) > 0 /\ O!Count(o) = count[o]
      BY <2>1, OptionNames DEF ReadId, O!Count, Mandatory
    <3> QED BY <2>1, <3>1 DEF ReadId, Parsed
  <2>2. CASE ReadOwnAddress \/ ReadThriftAddress
    BY <1>1, <2>2 DEF ReadOwnAddress, ReadThriftAddress, Reading
  <2> QED BY <2>1, <2>2
<1>3. /\ Line' /\ O!TypeOK' /\ Walk' /\ WellFormed' = WellFormed
      /\ \A o : O!LastGiven(o)' = O!LastGiven(o)
  BY <1>1, <1>2, WalkKept
<1>4. stage' = "parsed" /\ count' = count
  BY <1>2 DEF walkVars
<1>5. Accepting'
  BY <1>2, <1>3, <1>4 DEF Accepting
<1>6. O!Uint16(O!LastGiven("id"))' = O!Uint16(O!LastGiven("id"))
  BY <1>3, SameTaken
<1>7. /\ \A o : Taken(o, ownPort, ownIpaddr)' <=> Taken(o, ownPort', ownIpaddr')
      /\ \A o : Taken(o, thriftPort, thriftIpAddr)' <=> Taken(o, thriftPort', thriftIpAddr')
  BY <1>3, SameTaken
<1>8. O!Uint16Max' = O!Uint16Max
  BY MaxType
<1>9. CASE ReadId
  <2>1. /\ applId' = O!Uint16(O!TextOf("id")) /\ step' = "own-addr"
        /\ UNCHANGED <<ownPort, thriftPort, ownIpaddr, thriftIpAddr>>
    BY <1>9 DEF ReadId, ownVars, thriftVars
  <2>2. O!TextOf("id") = O!LastGiven("id") /\ O!LastGiven("id") \in Texts
    BY <1>1, <1>2, TextOfMandatory DEF Mandatory
  <2>3. applId' \in 0 .. O!Uint16Max
    BY <2>1, <2>2, TextParts
  <2>4. Reading'
    BY <1>2, <1>4, <1>6, <2>1, <2>2 DEF Reading
  <2>5. OwnTypes'
    BY <1>1, <1>8, <2>1, <2>3 DEF OwnTypes
  <2> QED BY <1>3, <1>5, <2>4, <2>5 DEF IInv, TypeOK, OwnTypes
<1>10. CASE ReadOwnAddress
  <2> DEFINE text == O!TextOf("own-addr")
  <2>1. /\ step = "own-addr" /\ PortPassed(text) /\ AddressPassed(text) /\ step' = "thrift-addr"
        /\ ownPort' = Narrow(BackToken(text).n) /\ ownIpaddr' = FrontToken(text)
        /\ UNCHANGED <<applId, thriftPort, thriftIpAddr>>
    BY <1>10 DEF ReadOwnAddress, thriftVars
  <2>2. Taken("own-addr", ownPort', ownIpaddr') /\ ownPort' \in 0 .. O!Uint16Max
    BY <1>1, <1>2, <2>1, AddressTaken DEF Mandatory
  <2> HIDE DEF text
  <2>3. Reading'
    BY <1>1, <1>2, <1>4, <1>6, <1>7, <2>1, <2>2 DEF Reading
  <2>4. OwnTypes'
    BY <1>1, <1>8, <2>1, <2>2 DEF OwnTypes
  <2> QED BY <1>3, <1>5, <2>3, <2>4 DEF IInv, TypeOK, OwnTypes
<1>11. CASE ReadThriftAddress
  <2> DEFINE text == O!TextOf("thrift-addr")
  <2>1. /\ step = "thrift-addr" /\ PortPassed(text) /\ AddressPassed(text) /\ step' = "accepted"
        /\ thriftPort' = Narrow(BackToken(text).n) /\ thriftIpAddr' = FrontToken(text)
        /\ UNCHANGED <<applId, ownPort, ownIpaddr>>
    BY <1>11 DEF ReadThriftAddress
  <2>2. /\ Taken("thrift-addr", thriftPort', thriftIpAddr') /\ thriftPort' \in 0 .. O!Uint16Max
        /\ thriftIpAddr' # None
    BY <1>1, <1>2, <2>1, AddressTaken DEF Mandatory
  <2>3. Taken("own-addr", ownPort', ownIpaddr')
    BY <1>1, <2>1 DEF Reading
  <2>4. ownIpaddr' # None
    <3>1. O!LastGiven("own-addr") \in Texts
      BY <1>1, <1>2, TextOfMandatory DEF Mandatory
    <3>2. ownIpaddr' \in Parts
      BY <2>3, <3>1, TextParts DEF Taken
    <3> QED BY <3>2, NoneAssumption
  <2> HIDE DEF text
  <2>5. Reading'
    BY <1>1, <1>2, <1>4, <1>6, <1>7, <2>1, <2>2, <2>3 DEF Reading
  <2>6. OwnTypes'
    BY <1>1, <1>8, <2>1, <2>2, <2>4 DEF OwnTypes
  <2> QED BY <1>3, <1>5, <2>5, <2>6 DEF IInv, TypeOK, OwnTypes
<1> QED BY <1>9, <1>10, <1>11

\* The inductive invariant holds at first.
LEMMA InitIInv == Init => IInv
<1> SUFFICES ASSUME Init PROVE IInv
  OBVIOUS
<1>1. Line /\ O!TypeOK /\ Walk
  BY WalkStart DEF Init
<1>2. OwnTypes
  <2>1. O!Uint16Max \in Nat
    BY MaxType
  <2> QED BY <2>1 DEF Init, OwnTypes
<1>3. Reading /\ Accepting
  BY DEF Init, O!Init, Reading, Accepting
<1> QED BY <1>1, <1>2, <1>3 DEF IInv, TypeOK, OwnTypes

\* Every step, of the parser or of the reading of its results, keeps the inductive invariant.
LEMMA NextIInv == IInv /\ [Next]_vars => IInv'
<1> SUFFICES ASSUME IInv, [Next]_vars PROVE IInv'
  OBVIOUS
<1>1. Line /\ O!TypeOK /\ Walk /\ OwnTypes /\ Reading /\ Accepting
  BY DEF IInv, TypeOK, OwnTypes
<1>2. CASE Parse
  <2>1. O!Next /\ step = "parse" /\ UNCHANGED <<step, applId, ownPort, ownIpaddr, thriftPort, thriftIpAddr>>
    BY <1>2 DEF Parse, ownVars, thriftVars
  <2>2. /\ Line' /\ O!TypeOK' /\ Walk' /\ commandLine' = commandLine
        /\ stage' = "threw" => ~WellFormed
    BY <1>1, <2>1, WalkStep
  <2>3. Accepting'
    BY <2>1, <2>2, SameLine DEF Accepting
  <2>4. O!Uint16Max' = O!Uint16Max
    BY MaxType
  <2>5. OwnTypes'
    BY <1>1, <2>1, <2>4 DEF OwnTypes
  <2>6. Reading'
    BY <2>1 DEF Reading
  <2> QED BY <2>2, <2>3, <2>5, <2>6 DEF IInv, TypeOK, OwnTypes
<1>3. CASE ParseThrew
  <2>1. ~WellFormed
    BY <1>1, <1>3 DEF ParseThrew, Accepting
  <2> QED BY <1>3, <2>1, RefuseStep DEF ParseThrew, thriftVars
<1>4. CASE PrintHelp
  <2>1. ~WellFormed
    BY <1>1, <1>4, Acceptable DEF PrintHelp, Parsed
  <2> QED BY <1>4, <2>1, RefuseStep DEF PrintHelp, thriftVars
<1>5. CASE MissingMandatory
  <2>1. ~WellFormed
    BY <1>1, <1>5, Acceptable DEF MissingMandatory, Parsed
  <2> QED BY <1>5, <2>1, RefuseStep DEF MissingMandatory, thriftVars
<1>6. CASE ReadId \/ ReadOwnAddress \/ ReadThriftAddress
  BY <1>6, ReadStep
<1>7. CASE RefuseOwnAddress
  <2>1. ~WellFormed
    BY <1>1, <1>7, Acceptable DEF RefuseOwnAddress, Reading
  <2> QED BY <1>7, <2>1, RefuseStep DEF RefuseOwnAddress, thriftVars
<1>8. CASE RefuseThriftAddress
  <2>1. /\ ~(PortPassed(O!TextOf("thrift-addr")) /\ AddressPassed(O!TextOf("thrift-addr")))
        /\ step = "thrift-addr" /\ Refuse /\ UNCHANGED ownVars /\ UNCHANGED <<thriftIpAddr, thriftServerAddress>>
        /\ \/ thriftPort' = thriftPort
           \/ /\ PortPassed(O!TextOf("thrift-addr"))
              /\ thriftPort' = Narrow(BackToken(O!TextOf("thrift-addr")).n)
    BY <1>8 DEF RefuseThriftAddress
  <2>2. ~WellFormed
    BY <1>1, <2>1, Acceptable DEF Reading
  <2>3. stage = "parsed" /\ count["thrift-addr"] > 0
    BY <1>1, <2>1 DEF Reading, Mandatory
  <2>4. O!TextOf("thrift-addr") = O!LastGiven("thrift-addr") /\ O!LastGiven("thrift-addr") \in Texts
    BY <1>1, <2>3, TextOfMandatory DEF Mandatory
  <2>5. thriftPort' \in {thriftPort} \cup 0 .. O!Uint16Max
    BY <2>1, <2>4, TextParts
  <2> QED BY <2>1, <2>2, <2>5, RefuseStep
<1>9. CASE UNCHANGED vars
  <2>1. UNCHANGED walkVars /\ UNCHANGED <<step, applId, ownPort, ownIpaddr, thriftPort, thriftIpAddr>>
    BY <1>9 DEF vars, ownVars, thriftVars
  <2>2. /\ Line' /\ O!TypeOK' /\ Walk' /\ WellFormed' = WellFormed
        /\ \A o : O!LastGiven(o)' = O!LastGiven(o)
    BY <1>1, <2>1, WalkKept
  <2>3. stage' = stage /\ count' = count /\ O!Uint16Max' = O!Uint16Max
    BY <2>1, MaxType DEF walkVars
  <2>4. OwnTypes' /\ Accepting'
    BY <1>1, <2>1, <2>2, <2>3 DEF OwnTypes, Accepting
  <2>5. Reading'
    BY <1>1, <2>1, <2>2, <2>3, SameTaken DEF Reading
  <2> QED BY <2>2, <2>4, <2>5 DEF IInv, TypeOK, OwnTypes
<1> QED BY <1>2, <1>3, <1>4, <1>5, <1>6, <1>7, <1>8, <1>9 DEF Next

-----------------------------------------------------------------------------
(* The theorems *)

\* The walk, what it leaves and what is read from it, in every reachable state.
THEOREM Induction == Spec => []IInv
BY InitIInv, NextIInv, PTL DEF Spec

\* Every variable of Configuration holds a value of its type; argv is never written
\* past the argument looked at (cxxopts.hpp:1199), so no argument is lost unread.
THEOREM TypeCorrect == Spec => []TypeOK
<1>1. IInv => TypeOK
  BY DEF IInv
<1> QED BY <1>1, Induction, PTL

\* cxxopts counts each use of an option once and keeps its last value, whatever else
\* the command line holds (cxxopts.hpp:1066).
THEOREM LastUseKept == Spec => []LastUseWins
<1>1. IInv => LastUseWins
  <2> SUFFICES ASSUME IInv, stage = "parsed", NEW o \in O!Longs, O!HasArg(o)
               PROVE  /\ count[o] = O!Cardinality(O!Uses(o))
                      /\ O!Uses(o) # {} => store[o] = O!LastGiven(o)
    BY DEF LastUseWins, O!LastUseWins
  <2>1. Line /\ O!TypeOK /\ Walk
    BY DEF IInv, TypeOK
  <2>2. O!Cardinality(O!Uses(o)) = Cardinality(O!Uses(o))
    BY DEF O!Cardinality, Cardinality
  <2> QED BY <2>1, <2>2, Stored
<1> QED BY <1>1, Induction, PTL

\* What no option took stands at the front of argv, in its order, although argv is
\* rewritten while it is read (cxxopts.hpp:1199).
THEOREM RestStays == Spec => []RestKept
<1>1. IInv => RestKept
  <2> SUFFICES ASSUME IInv, stage = "parsed"
               PROVE  /\ nextKeep = O!Cardinality(Free) + 1
                      /\ \A i \in Free : argv[O!Cardinality({j \in Free : j <= i})] = commandLine[i]
    BY DEF RestKept, O!RestKept, Free
  <2>1. Line /\ O!TypeOK /\ WalkOK /\ KeptOK
    BY DEF IInv, TypeOK, Walk
  <2>2. \A T : O!Cardinality(T) = Cardinality(T)
    BY DEF O!Cardinality, Cardinality
  <2>3. Passed(Free) = Free
    <3>1. \A i \in Free : i < current
      BY <2>1, PositionSets, Indices DEF WalkOK
    <3> QED BY <3>1 DEF Passed, Before
  <2> QED BY <2>1, <2>2, <2>3 DEF KeptOK, Place
<1> QED BY <1>1, Induction, PTL

\* The id and the addresses that main runs with are those of the last use of each
\* option, and a port that fits 16 bits is outside the reserved range
\* (Configuration.cpp:53-108).
THEOREM ConfiguresAsGiven == Spec => []ConfiguredAsGiven
<1>1. IInv => ConfiguredAsGiven
  <2> SUFFICES ASSUME IInv, step = "accepted" PROVE ConfiguredAsGiven
    BY DEF ConfiguredAsGiven
  <2>1. /\ Line /\ O!TypeOK /\ Walk /\ stage = "parsed" /\ \A o \in Mandatory : count[o] > 0
        /\ applId = O!Uint16(O!LastGiven("id"))
        /\ Taken("own-addr", ownPort, ownIpaddr) /\ Taken("thrift-addr", thriftPort, thriftIpAddr)
    BY DEF IInv, TypeOK, Reading
  <2>2. ASSUME NEW text, text \in Texts, PortPassed(text), NEW port, NEW ipaddr,
               port = Narrow(BackToken(text).n), ipaddr = FrontToken(text)
        PROVE  /\ ipaddr = text[1]
               /\ text[2].n <= O!Uint16Max => port = text[2].n /\ port >= SOCK_PORT_HIGH_BOUND
    <3>1. /\ ipaddr = text[1] /\ port = Narrow(text[2].n) /\ text[2] \in Parts
          /\ ~(text[2].n < SOCK_PORT_HIGH_BOUND)
      BY <2>2, TextParts
    <3>2. text[2].n \in Int
      BY <3>1 DEF Parts
    <3>3. text[2].n >= SOCK_PORT_HIGH_BOUND /\ text[2].n \in Nat
      BY <3>1, <3>2 DEF SOCK_PORT_HIGH_BOUND
    <3>4. text[2].n <= O!Uint16Max => text[2].n % (O!Uint16Max + 1) = text[2].n
      <4>1. O!Uint16Max \in Nat
        BY MaxType
      <4>2. \A k, max \in Nat : k <= max => k % (max + 1) = k
        OBVIOUS
      <4> QED BY <3>3, <4>1, <4>2
    <3> QED BY <3>1, <3>3, <3>4 DEF Narrow
  <2>3. ASSUME NEW o \in {"own-addr", "thrift-addr"}, NEW port, NEW ipaddr, Taken(o, port, ipaddr)
        PROVE  LET text == O!LastGiven(o) IN
               /\ ipaddr = text[1]
               /\ text[2].n <= O!Uint16Max => port = text[2].n /\ port >= SOCK_PORT_HIGH_BOUND
    <3>1. O!LastGiven(o) \in Texts
      BY <2>1, TextOfMandatory DEF Mandatory
    <3> QED BY <2>2, <2>3, <3>1 DEF Taken
  <2> QED BY <2>1, <2>3 DEF ConfiguredAsGiven
<1> QED BY <1>1, Induction, PTL

\* No well-formed command line is refused, in whatever order and form its options come.
THEOREM AcceptsWellFormed == Spec => []WellFormedAccepted
<1>1. IInv => WellFormedAccepted
  BY DEF IInv, Accepting, WellFormedAccepted
<1> QED BY <1>1, Induction, PTL
=============================================================================
