---------------------------- MODULE AvpParserProofs ----------------------------
(***************************************************************************)
(* Proofs about AvpParser for every set of messages, of any length and     *)
(* with any length octets.                                                 *)
(***************************************************************************)
EXTENDS AvpParser, WellFoundedInduction, TLAPS

\* A set of numbers has a least one, so a set with 0 that is closed under
\* successor has them all: induction without an operator as a parameter.
LEMMA LeastNumber ==
  ASSUME NEW T \in SUBSET Nat, T # {}
  PROVE  \E m \in T : \A k \in T : m <= k
<1> DEFINE R == OpToRel(<, Nat)
<1>1. \A k, m \in Nat : <<k, m>> \in R <=> k < m
  BY DEF OpToRel
<1>2. IsWellFoundedOn(R, Nat)
  BY NatLessThanWellFounded
<1> HIDE DEF R
<1>3. PICK m \in T : \A k \in T : ~(<<k, m>> \in R)
  BY <1>2, WFMin
<1>4. \A k \in T : ~(k < m)
  BY <1>1, <1>3
<1>5. m \in Nat /\ \A k \in T : k \in Nat
  OBVIOUS
<1>6. \A k \in T : m <= k
  BY <1>4, <1>5
<1> QED BY <1>6

\* Induction stated for a set instead of a predicate: the form the installed provers can use.
LEMMA SetInduction ==
  ASSUME NEW T \in SUBSET Nat, 0 \in T, \A n \in T : n + 1 \in T
  PROVE  T = Nat
<1> SUFFICES ASSUME Nat \ T # {} PROVE FALSE
  OBVIOUS
<1>1. PICK m \in Nat \ T : \A k \in Nat \ T : m <= k
  BY LeastNumber
<1> QED BY <1>1

-----------------------------------------------------------------------------
(* What the walk takes, and where it is *)

\* The walk stops at the end of the message, for it never passes it.
PInv ==
  /\ TypeOK /\ Contiguous
  /\ outcome = "returned" => offset = message.length

\* The length field and the octets of a message.
LEMMA MessageType ==
  ASSUME message \in Messages
  PROVE  /\ message.length \in HeaderLen .. MsgMaxSize - 1
         /\ message.declared \in Seq(0 .. 255) /\ message.length \in Nat
         /\ AvpLength \in 0 .. 255
<1>1. message \in [length : HeaderLen .. MsgMaxSize - 1, declared : Seq(0 .. 255)]
  BY MessageAssumption
<1>2. message.length \in HeaderLen .. MsgMaxSize - 1 /\ message.declared \in Seq(0 .. 255)
  BY <1>1
<1>3. AvpLength \in 0 .. 255
  <2> DEFINE i == Len(avpList) + 1
  <2>1. ASSUME NEW S, NEW d \in Seq(S) PROVE \A j \in DOMAIN d : d[j] \in S
    OBVIOUS
  <2>3. \A j \in DOMAIN message.declared : message.declared[j] \in 0 .. 255
    BY <1>2, <2>1
  <2>2. AvpLength = IF i \in DOMAIN message.declared THEN message.declared[i] ELSE 0
    BY DEF AvpLength
  <2> HIDE DEF i
  <2> QED BY <2>2, <2>3
<1> QED BY <1>2, <1>3, HeaderAssumption

\* Appending the attribute at the offset keeps the list without gap.
LEMMA TakeContiguous ==
  ASSUME PInv, TakeAvp
  PROVE  PInv'
<1> USE HeaderAssumption DEF TypeLenLen
<1> DEFINE n == Len(avpList)
           a == [at |-> offset, len |-> AvpLength]
<1>1. /\ message \in Messages /\ offset \in HeaderLen .. message.length /\ n \in Nat
      /\ avpList \in Seq([at : Nat, len : TypeLenLen .. 255])
      /\ message.length \in Nat /\ AvpLength \in TypeLenLen .. 255
  <2>1. message \in Messages
    BY DEF PInv, TypeOK
  <2>2. AvpLength \in 0 .. 255 /\ message.length \in Nat
    BY <2>1, MessageType
  <2>3. AvpLength >= TypeLenLen
    BY DEF TakeAvp
  <2>4. AvpLength \in TypeLenLen .. 255
    BY <2>2, <2>3
  <2> QED BY <2>1, <2>2, <2>4 DEF PInv, TypeOK
<1>2. /\ UNCHANGED <<message, outcome>> /\ outcome = "walking"
      /\ avpList' = Append(avpList, a) /\ offset' = offset + AvpLength
      /\ offset + AvpLength <= message.length
  BY DEF TakeAvp, ValueFits
<1>3. a \in [at : Nat, len : TypeLenLen .. 255] /\ a.at = offset /\ a.len = AvpLength
  BY <1>1
<1>4. /\ Len(avpList') = n + 1 /\ avpList'[n + 1] = a
      /\ \A i \in 1 .. n : avpList'[i] = avpList[i]
      /\ avpList' \in Seq([at : Nat, len : TypeLenLen .. 255])
  BY <1>1, <1>2, <1>3
<1>5. TypeOK'
  BY <1>1, <1>2, <1>4 DEF PInv, TypeOK
<1>6. Contiguous'
  <2>1. avpList' # <<>> /\ EndOf(Len(avpList))' = offset'
    <3>1. Len(avpList') = n + 1 /\ avpList'[n + 1].at = offset /\ avpList'[n + 1].len = AvpLength
      BY <1>3, <1>4
    <3>2. EndOf(Len(avpList))' = avpList'[Len(avpList')].at + avpList'[Len(avpList')].len
      BY DEF EndOf
    <3> QED BY <1>1, <1>2, <3>1, <3>2
  <2>2. avpList'[1].at = HeaderLen
    BY <1>1, <1>3, <1>4 DEF PInv, Contiguous
  <2>3. ASSUME NEW i \in 1 .. Len(avpList') - 1 PROVE EndOf(i)' = avpList'[i + 1].at
    <3>1. i \in 1 .. n /\ avpList'[i] = avpList[i] /\ EndOf(i)' = EndOf(i)
      BY <1>1, <1>4, <2>3 DEF EndOf
    <3>2. CASE i = n
      BY <1>1, <1>3, <1>4, <3>1, <3>2 DEF PInv, Contiguous
    <3>3. CASE i # n
      <4>1. i \in 1 .. n - 1 /\ i + 1 \in 1 .. n
        BY <1>1, <3>1, <3>3
      <4> QED BY <1>4, <3>1, <4>1 DEF PInv, Contiguous
    <3> QED BY <3>2, <3>3
  <2> QED BY <2>1, <2>2, <2>3 DEF Contiguous
<1> QED BY <1>2, <1>5, <1>6 DEF PInv

\* Every step of the walk over the attributes keeps the inductive invariant of the proofs.
LEMMA NextPInv == PInv /\ [Next]_vars => PInv'
<1> SUFFICES ASSUME PInv, [Next]_vars PROVE PInv'
  OBVIOUS
<1>1. CASE TakeAvp
  BY <1>1, TakeContiguous
<1>2. CASE Return
  <2>1. offset >= message.length /\ offset \in HeaderLen .. message.length /\ message.length \in Nat
    BY <1>2, MessageType DEF Return, AtEnd, PInv, TypeOK
  <2>2. offset = message.length
    BY <2>1, HeaderAssumption
  <2> QED BY <1>2, <2>2 DEF Return, PInv, TypeOK, Contiguous, EndOf
<1>3. CASE Throw \/ Spin \/ UNCHANGED vars
  BY <1>3 DEF Throw, Spin, vars, PInv, TypeOK, Contiguous, EndOf
<1> QED BY <1>1, <1>2, <1>3 DEF Next

\* The invariant holds in every reachable state.
THEOREM Induction == Spec => []PInv
<1>1. Init => PInv
  <2> SUFFICES ASSUME Init PROVE PInv
    OBVIOUS
  <2>1. message.length \in HeaderLen .. MsgMaxSize - 1 /\ HeaderLen \in Nat /\ MsgMaxSize \in Nat
    BY MessageType, HeaderAssumption DEF Init
  <2> QED BY <2>1 DEF Init, PInv, TypeOK, Contiguous
<1> QED BY <1>1, NextPInv, PTL DEF Spec

\* Every variable holds a value of its type: the offset never passes the length
\* field, so the walk reads no octet behind the message.
THEOREM TypeCorrect == Spec => []TypeOK
<1>1. PInv => TypeOK
  BY DEF PInv
<1> QED BY <1>1, Induction, PTL

\* A list that is returned has the whole message, without gap or overlap.
THEOREM WholeMessage == Spec => []ReturnsWholeMessage
<1>1. PInv => ReturnsWholeMessage
  BY DEF PInv, ReturnsWholeMessage
<1> QED BY <1>1, Induction, PTL

-----------------------------------------------------------------------------
(* Messages whose attributes have values *)

\* e[i] is where the first i attributes with the length octets d end.
EndsOf(e, d, n) ==
  e = [i \in 0 .. n |-> IF i = 0 THEN HeaderLen ELSE e[i - 1] + d[i]]

\* The sums of EndPosition exist ...
LEMMA EndsExist ==
  ASSUME NEW n \in Nat, NEW d \in [1 .. n -> Nat]
  PROVE  \E e : EndsOf(e, d, n)
<1> DEFINE T == {m \in Nat : m <= n => \E e : EndsOf(e, d, m)}
<1>1. 0 \in T
  <2>1. EndsOf([i \in 0 .. 0 |-> HeaderLen], d, 0)
    BY DEF EndsOf
  <2> QED BY <2>1
<1>2. ASSUME NEW m \in T, m + 1 <= n PROVE \E e : EndsOf(e, d, m + 1)
  <2>1. PICK e : EndsOf(e, d, m)
    BY <1>2
  <2> DEFINE f == [i \in 0 .. m + 1 |-> IF i = m + 1 THEN e[m] + d[m + 1] ELSE e[i]]
  <2>2. m \in Nat /\ \A i \in 0 .. m : e[i] = IF i = 0 THEN HeaderLen ELSE e[i - 1] + d[i]
    BY <2>1 DEF EndsOf
  <2>3. \A i \in 0 .. m + 1 : f[i] = IF i = 0 THEN HeaderLen ELSE f[i - 1] + d[i]
    <3> SUFFICES ASSUME NEW i \in 0 .. m + 1
                 PROVE  f[i] = IF i = 0 THEN HeaderLen ELSE f[i - 1] + d[i]
      OBVIOUS
    <3>1. CASE i = m + 1
      BY <2>2, <3>1
    <3>2. CASE i # m + 1
      BY <2>2, <3>2
    <3> QED BY <3>1, <3>2
  <2>4. EndsOf(f, d, m + 1)
    <3>1. f = [i \in 0 .. m + 1 |-> f[i]]
      OBVIOUS
    <3> HIDE DEF f
    <3> QED BY <2>3, <3>1 DEF EndsOf
  <2> QED BY <2>4
<1>3. \A m \in T : m + 1 \in T
  BY <1>2
<1>4. T = Nat
  BY <1>1, <1>3, SetInduction
<1> HIDE DEF T
<1>5. n \in T /\ n <= n
  BY <1>4
<1> QED BY <1>5 DEF T

\* ... and grow with every attribute.
LEMMA EndsGrow ==
  ASSUME NEW n \in Nat, NEW d \in [1 .. n -> Nat], NEW e, EndsOf(e, d, n)
  PROVE  /\ \A i \in 0 .. n : e[i] \in Nat
         /\ \A i, j \in 0 .. n : i < j => e[i] + d[i + 1] <= e[j]
<1>1. e[0] = HeaderLen /\ \A i \in 0 .. n - 1 : e[i + 1] = e[i] + d[i + 1]
  <2>1. \A i \in 0 .. n : e[i] = IF i = 0 THEN HeaderLen ELSE e[i - 1] + d[i]
    BY DEF EndsOf
  <2>2. ASSUME NEW i \in 0 .. n - 1 PROVE e[i + 1] = e[i] + d[i + 1]
    <3>1. i + 1 \in 0 .. n /\ i + 1 # 0 /\ (i + 1) - 1 = i
      OBVIOUS
    <3>2. e[i + 1] = e[(i + 1) - 1] + d[i + 1]
      BY <2>1, <3>1
    <3> QED BY <3>1, <3>2
  <2> QED BY <2>1, <2>2
<1>2. \A i \in 0 .. n : e[i] \in Nat
  <2> DEFINE T == {m \in Nat : m <= n => e[m] \in Nat}
  <2>1. 0 \in T
    BY <1>1, HeaderAssumption
  <2>2. \A m \in T : m + 1 \in T
    BY <1>1
  <2>3. T = Nat
    BY <2>1, <2>2, SetInduction
  <2> QED BY <2>3
<1>3. \A i, j \in 0 .. n : i < j => e[i] + d[i + 1] <= e[j]
  <2> DEFINE T == {m \in Nat : m <= n => \A i \in 0 .. n : i < m => e[i] + d[i + 1] <= e[m]}
  <2>1. 0 \in T
    OBVIOUS
  <2>2. ASSUME NEW m \in T, m + 1 <= n, NEW i \in 0 .. n, i < m + 1
        PROVE  e[i] + d[i + 1] <= e[m + 1]
    <3>1. m \in Nat /\ e[m + 1] = e[m] + d[m + 1] /\ d[m + 1] \in Nat /\ e[m] \in Nat /\ e[i] \in Nat
      BY <1>1, <1>2, <2>2
    <3>2. CASE i = m
      BY <3>1, <3>2
    <3>3. CASE i < m
      <4>1. e[i] + d[i + 1] <= e[m] /\ d[i + 1] \in Nat
        BY <2>2, <3>1, <3>3
      <4> QED BY <3>1, <4>1
    <3> QED BY <2>2, <3>1, <3>2, <3>3
  <2>3. ASSUME NEW m \in T PROVE m + 1 \in T
    <3>1. m + 1 \in Nat
      OBVIOUS
    <3>2. m + 1 <= n => \A i \in 0 .. n : i < m + 1 => e[i] + d[i + 1] <= e[m + 1]
      BY <2>2
    <3> QED BY <3>1, <3>2
  <2>4. T = Nat
    BY <2>1, <2>3, SetInduction
  <2> QED BY <2>4
<1> QED BY <1>2, <1>3

\* The ends of the attributes of the message.
LEMMA EndsOfMessage ==
  ASSUME NEW d \in Seq(0 .. 255)
  PROVE  \E e : EndsOf(e, d, Len(d)) /\ e[Len(d)] = EndPosition(d)
<1> DEFINE n == Len(d)
<1>1. n \in Nat /\ d \in [1 .. n -> Nat]
  <2>1. ASSUME NEW S, NEW c \in Seq(S) PROVE c \in [1 .. Len(c) -> S] /\ Len(c) \in Nat
    OBVIOUS
  <2>2. d \in [1 .. n -> 0 .. 255] /\ n \in Nat
    BY <2>1
  <2>3. ASSUME NEW A, NEW S \in SUBSET Nat, NEW f \in [A -> S] PROVE f \in [A -> Nat]
    OBVIOUS
  <2>4. 0 .. 255 \in SUBSET Nat
    OBVIOUS
  <2> HIDE DEF n
  <2> QED BY <2>2, <2>3, <2>4
<1>2. PICK e : EndsOf(e, d, n)
  BY <1>1, EndsExist
<1>3. LET end[i \in 0 .. n] == IF i = 0 THEN HeaderLen ELSE end[i - 1] + d[i]
      IN  EndsOf(end, d, n) /\ end[n] = EndPosition(d)
  BY <1>2 DEF EndsOf, EndPosition
<1> QED BY <1>3

\* A message of attributes with values is never given up, and what is returned
\* has the lengths of all of them: what WellFormedParsed says of the end of the
\* walk, without that it ends.
WellFormedTaken ==
  Filled(message, TypeLenLen + 1) =>
    /\ outcome \notin {"threw", "spinning"}
    /\ outcome = "returned" => [i \in DOMAIN avpList |-> avpList[i].len] = message.declared

\* The walk is at the end of the attributes it took, all of them declared.
AtEndOfTaken ==
  LET d == message.declared
      n == Len(d)
      k == Len(avpList) IN
  Filled(message, TypeLenLen + 1) =>
    /\ outcome \notin {"threw", "spinning"}
    /\ outcome = "returned" => k = n
    /\ k <= n /\ \A i \in 1 .. k : avpList[i].len = d[i]
    /\ \A e : EndsOf(e, d, n) /\ e[n] = EndPosition(d) => offset = e[k]

\* If the walk is not at the end of a message of attributes with values, the next
\* one is there and fits; if it is, it took all of them.
LEMMA NextFits ==
  ASSUME PInv, AtEndOfTaken, Filled(message, TypeLenLen + 1)
  PROVE  LET d == message.declared
             n == Len(d)
             k == Len(avpList) IN
         /\ AtEnd => k = n
         /\ ~AtEnd => /\ k < n /\ AvpLength = d[k + 1] /\ AvpLength >= TypeLenLen + 1
                      /\ HeaderFits /\ ValueFits
                      /\ \A e : EndsOf(e, d, n) /\ e[n] = EndPosition(d) => offset + AvpLength = e[k + 1]
<1> DEFINE d == message.declared
           n == Len(d)
           k == Len(avpList)
<1>1. /\ d \in Seq(0 .. 255) /\ n \in Nat /\ k \in Nat /\ message.length \in Nat
      /\ offset \in Nat /\ AvpLength \in 0 .. 255
  <2>1. message \in Messages /\ avpList \in Seq([at : Nat, len : TypeLenLen .. 255])
        /\ offset \in HeaderLen .. message.length
    BY DEF PInv, TypeOK
  <2>2. d \in Seq(0 .. 255) /\ message.length \in Nat /\ AvpLength \in 0 .. 255
    BY <2>1, MessageType
  <2>3. ASSUME NEW S, NEW c \in Seq(S) PROVE Len(c) \in Nat
    OBVIOUS
  <2> QED BY <2>1, <2>2, <2>3, HeaderAssumption
<1>2. DOMAIN d = 1 .. n /\ d \in [1 .. n -> Nat] /\ \A i \in 1 .. n : d[i] \in Nat /\ d[i] >= 3
  <2>1. ASSUME NEW S \in SUBSET Nat, NEW c \in Seq(S)
        PROVE  DOMAIN c = 1 .. Len(c) /\ c \in [1 .. Len(c) -> Nat]
    <3>1. c \in [1 .. Len(c) -> S] /\ DOMAIN c = 1 .. Len(c)
      OBVIOUS
    <3>2. ASSUME NEW A, NEW f \in [A -> S] PROVE f \in [A -> Nat]
      OBVIOUS
    <3> QED BY <3>1, <3>2
  <2>2. 0 .. 255 \in SUBSET Nat
    OBVIOUS
  <2>3. DOMAIN d = 1 .. n /\ d \in [1 .. n -> Nat]
    BY <1>1, <2>1, <2>2
  <2> QED BY <2>3 DEF Filled, TypeLenLen
<1>3. PICK e : EndsOf(e, d, n) /\ e[n] = EndPosition(d)
  BY <1>1, EndsOfMessage
<1>4. /\ \A i \in 0 .. n : e[i] \in Nat
      /\ \A i, j \in 0 .. n : i < j => e[i] + d[i + 1] <= e[j]
  BY <1>1, <1>2, <1>3, EndsGrow
<1>5. k <= n /\ offset = e[k] /\ e[n] = message.length
  BY <1>3 DEF AtEndOfTaken, Filled
<1>6. AtEnd => k = n
  <2> SUFFICES ASSUME k < n PROVE offset < message.length
    BY <1>1, <1>5 DEF AtEnd
  <2>1. k + 1 \in 1 .. n /\ k \in 0 .. n /\ n \in 0 .. n
    BY <1>1
  <2>2. e[k] + d[k + 1] <= e[n] /\ d[k + 1] >= 3 /\ d[k + 1] \in Nat /\ e[k] \in Nat
    BY <1>2, <1>4, <2>1
  <2> QED BY <1>1, <1>5, <2>2
<1>7. ASSUME ~AtEnd PROVE k < n
  BY <1>1, <1>5, <1>7 DEF AtEnd
<1>8. ASSUME ~AtEnd PROVE AvpLength = d[k + 1] /\ d[k + 1] >= 3 /\ e[k] + d[k + 1] <= e[n]
  <2>1. k + 1 \in 1 .. n /\ k \in 0 .. n /\ n \in 0 .. n
    BY <1>1, <1>7, <1>8
  <2> QED BY <1>2, <1>4, <1>7, <1>8, <2>1 DEF AvpLength
<1>9. ASSUME ~AtEnd PROVE HeaderFits /\ ValueFits /\ AvpLength >= TypeLenLen + 1
  BY <1>1, <1>5, <1>8, <1>9 DEF HeaderFits, ValueFits, TypeLenLen
<1>10. ASSUME ~AtEnd, NEW f, EndsOf(f, d, n), f[n] = EndPosition(d) PROVE offset + AvpLength = f[k + 1]
  <2>1. offset = f[k]
    BY <1>10 DEF AtEndOfTaken
  <2>2. k + 1 \in 0 .. n /\ k + 1 # 0 /\ (k + 1) - 1 = k
    BY <1>1, <1>7, <1>10
  <2>3. f[k + 1] = f[(k + 1) - 1] + d[k + 1]
    BY <1>10, <2>2 DEF EndsOf
  <2> QED BY <1>8, <1>10, <2>1, <2>2, <2>3
<1> QED BY <1>6, <1>7, <1>8, <1>9, <1>10

\* A message of attributes with values is parsed to its end.
THEOREM WellFormedNotRejected == Spec => []WellFormedTaken
<1>1. ASSUME Init PROVE AtEndOfTaken
  <2>1. message.declared \in Seq(0 .. 255)
    BY <1>1, MessageType DEF Init
  <2>2. Len(message.declared) \in Nat
    <3>1. ASSUME NEW S, NEW c \in Seq(S) PROVE Len(c) \in Nat
      OBVIOUS
    <3> QED BY <2>1, <3>1
  <2>3. \A e : EndsOf(e, message.declared, Len(message.declared)) => e[0] = HeaderLen
    BY <2>2 DEF EndsOf
  <2> QED BY <1>1, <2>2, <2>3 DEF Init, AtEndOfTaken
<1>2. ASSUME PInv, PInv', AtEndOfTaken, [Next]_vars PROVE AtEndOfTaken'
  <2> SUFFICES ASSUME Filled(message, TypeLenLen + 1)', message' = message PROVE AtEndOfTaken'
    BY <1>2 DEF AtEndOfTaken, Next, Return, TakeAvp, Throw, Spin, vars
  <2>1. Filled(message, TypeLenLen + 1)
    BY DEF Filled, TypeLenLen, EndPosition
  <2>2. CASE UNCHANGED vars
    BY <1>2, <2>2 DEF vars, AtEndOfTaken
  <2>3. CASE Return
    BY <1>2, <2>1, <2>3, NextFits DEF Return, AtEndOfTaken
  <2>4. ~Throw /\ ~Spin
    <3>1. Throw => ~AtEnd /\ AvpLength < TypeLenLen
      BY DEF Throw
    <3>2. AvpLength \in 0 .. 255
      BY <1>2, MessageType DEF PInv, TypeOK
    <3>3. Spin => ~AtEnd /\ ~(HeaderFits /\ ValueFits)
      BY DEF Spin
    <3>4. ~AtEnd => AvpLength >= TypeLenLen + 1 /\ HeaderFits /\ ValueFits
      BY <1>2, <2>1, NextFits
    <3> QED BY <3>1, <3>2, <3>3, <3>4 DEF TypeLenLen
  <2>5. CASE TakeAvp
    <3> DEFINE d == message.declared
               n == Len(d)
               k == Len(avpList)
    <3>1. /\ k < n /\ AvpLength = d[k + 1]
          /\ \A e : EndsOf(e, d, n) /\ e[n] = EndPosition(d) => offset + AvpLength = e[k + 1]
      BY <1>2, <2>1, <2>5, NextFits DEF TakeAvp
    <3>2. /\ outcome' = outcome /\ outcome = "walking" /\ offset' = offset + AvpLength
          /\ avpList' = Append(avpList, [at |-> offset, len |-> AvpLength])
      BY <2>5 DEF TakeAvp
    <3>3. /\ k \in Nat /\ Len(avpList') = k + 1 /\ avpList'[k + 1].len = AvpLength
          /\ \A i \in 1 .. k : avpList'[i] = avpList[i]
      BY <1>2, <3>2 DEF PInv, TypeOK
    <3>4. n \in Nat
      <4>1. d \in Seq(0 .. 255)
        BY <1>2, MessageType DEF PInv, TypeOK
      <4>2. ASSUME NEW S, NEW c \in Seq(S) PROVE Len(c) \in Nat
        OBVIOUS
      <4> QED BY <4>1, <4>2
    <3>5. \A i \in 1 .. k : avpList[i].len = d[i]
      BY <1>2, <2>1 DEF AtEndOfTaken
    <3>6. k + 1 <= n
      BY <3>1, <3>3, <3>4
    <3>7. \A i \in 1 .. k + 1 : avpList'[i].len = d[i]
      BY <3>1, <3>3, <3>5
    <3>8. \A e : EndsOf(e, d, n) /\ e[n] = EndPosition(d) => offset' = e[k + 1]
      BY <3>1, <3>2
    <3>9. Len(avpList') = k + 1
      BY <3>3
    <3>10. \A e : EndsOf(e, d, n)' <=> EndsOf(e, d, n)
      BY DEF EndsOf
    <3>11. EndPosition(d)' = EndPosition(d)
      BY DEF EndPosition
    <3> QED BY <3>2, <3>6, <3>7, <3>8, <3>9, <3>10, <3>11 DEF AtEndOfTaken
  <2> QED BY <1>2, <2>2, <2>3, <2>4, <2>5 DEF Next
<1>3. ASSUME PInv, AtEndOfTaken PROVE WellFormedTaken
  <2> SUFFICES ASSUME Filled(message, TypeLenLen + 1), outcome = "returned"
               PROVE  [i \in DOMAIN avpList |-> avpList[i].len] = message.declared
    BY <1>3 DEF AtEndOfTaken, WellFormedTaken
  <2> DEFINE d == message.declared
  <2>1. Len(avpList) = Len(d) /\ \A i \in 1 .. Len(avpList) : avpList[i].len = d[i]
    BY <1>3 DEF AtEndOfTaken
  <2>2. DOMAIN avpList = 1 .. Len(avpList)
    BY <1>3 DEF PInv, TypeOK
  <2>3. d = [i \in 1 .. Len(d) |-> d[i]]
    <3>1. d \in Seq(0 .. 255)
      BY <1>3, MessageType DEF PInv, TypeOK
    <3>2. ASSUME NEW S, NEW c \in Seq(S) PROVE c = [i \in 1 .. Len(c) |-> c[i]]
      OBVIOUS
    <3> QED BY <3>1, <3>2
  <2> HIDE DEF d
  <2> QED BY <2>1, <2>2, <2>3 DEF d
<1>4. Spec => [](PInv /\ AtEndOfTaken)
  BY <1>1, <1>2, Induction, PTL DEF Spec
<1> QED BY <1>3, <1>4, PTL
=============================================================================
