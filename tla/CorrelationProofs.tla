------------------------- MODULE CorrelationProofs -------------------------
(***************************************************************************)
(* Proofs about Correlation for any sets of messages and flow keys.        *)
(***************************************************************************)
EXTENDS Correlation, FiniteSetTheorems, TLAPS

\* What waits under a key is a message of that key whose handling took effect.
PendingOwn ==
  \A k \in Keys : pending[k] # None => KeyOf[pending[k]] = k /\ pending[k] \in done

\* The messages of a record were handled, and share one key.
MembersHandled ==
  \A x \in reports :
     /\ Members(x) \subseteq done
     /\ \E k \in Keys : {KeyOf[m] : m \in Members(x)} = {k}

CInv == TypeOK /\ PendingOwn /\ MembersHandled /\ ReportedOnce

\* A record built from a message and its mate holds these two, one of a message
\* alone holds this one: Worker.cpp:52-64 puts each list into its own side.
LEMMA PairMembers ==
  ASSUME NEW p \in Messages, NEW m \in Messages, ~SameKind(p, m)
  PROVE  Pair(p, m) \in Records /\ Members(Pair(p, m)) = {p, m}
BY NoneAssumption DEF SameKind, Pair, Records, Members

\* A message reported alone is the only member of its record.
LEMMA AloneMembers ==
  ASSUME NEW p \in Messages
  PROVE  Alone(p) \in Records /\ Members(Alone(p)) = {p}
BY NoneAssumption DEF Alone, Pair, Records, Members

\* The invariant holds when nothing has been received.
LEMMA InitCInv == Init => CInv
BY DEF Init, CInv, TypeOK, PendingOwn, MembersHandled, ReportedOnce

\* The effect of handling m: what waits under its key is m or nothing, and the
\* record handed over, if any, is built from what waited before and perhaps m.
LEMMA HandleCInv ==
  ASSUME CInv, NEW m \in Messages, NEW waits \in {m, None}, NEW new \in SUBSET Records,
         Handle(m, waits, new),
         \A x \in new : /\ new = {x} /\ waits = None /\ Waiting(m) # None
                        /\ Members(x) \in {{Waiting(m)}, {Waiting(m), m}}
  PROVE  CInv'
<1> USE FlowAssumption, NoneAssumption DEF CInv, Handle, Waiting
<1> DEFINE k == KeyOf[m]
<1>1. k \in Keys
  BY DEF TypeOK
<1>2. TypeOK'
  BY <1>1 DEF TypeOK
<1>3. PendingOwn'
  BY <1>1 DEF TypeOK, PendingOwn
<1>4. \A x \in new : Members(x) \subseteq done' /\ Members(x) # {} /\ \A n \in Members(x) : KeyOf[n] = k
  BY <1>1 DEF TypeOK, PendingOwn
<1>5. MembersHandled'
  <2>1. \A x \in new : {KeyOf[n] : n \in Members(x)} = {k}
    BY <1>4
  <2> QED BY <1>1, <1>4, <2>1 DEF MembersHandled
<1>6. \A x \in reports, y \in new : Members(x) \cap Members(y) = {}
  <2> SUFFICES ASSUME NEW x \in reports, NEW y \in new PROVE Members(x) \cap Members(y) = {}
    OBVIOUS
  <2>1. m \notin Members(x)
    BY DEF MembersHandled
  <2>2. Waiting(m) \notin Members(x)
    BY <1>1 DEF ReportedOnce
  <2> QED BY <2>1, <2>2
<1>7. \A x \in new, l \in Keys : pending'[l] \notin Members(x)
  <2> SUFFICES ASSUME NEW x \in new, NEW l \in Keys PROVE pending'[l] \notin Members(x)
    OBVIOUS
  <2>1. CASE l = k
    BY <1>1, <2>1 DEF TypeOK, Members
  <2>2. CASE l # k
    BY <1>1, <1>4, <2>2 DEF TypeOK, PendingOwn, Members
  <2> QED BY <2>1, <2>2
<1>8. \A x \in reports, l \in Keys : pending'[l] \notin Members(x)
  BY <1>1 DEF TypeOK, MembersHandled, ReportedOnce, Members
<1>9. ReportedOnce'
  BY <1>6, <1>7, <1>8 DEF ReportedOnce
<1> QED BY <1>2, <1>3, <1>5, <1>9

\* A timeout moves the message that waits into a record of its own.
LEMMA ExpireCInv ==
  ASSUME CInv, NEW k \in Keys, Expire(k)
  PROVE  CInv'
<1> USE FlowAssumption, NoneAssumption DEF CInv, Expire
<1> DEFINE p == pending[k]
<1>1. p \in Messages /\ Alone(p) \in Records /\ Members(Alone(p)) = {p}
  BY AloneMembers DEF TypeOK
<1>2. KeyOf[p] = k /\ p \in done
  BY DEF PendingOwn
<1>3. TypeOK'
  BY <1>1 DEF TypeOK
<1>4. PendingOwn'
  BY DEF TypeOK, PendingOwn
<1>5. MembersHandled'
  BY <1>1, <1>2 DEF MembersHandled
<1>6. \A x \in reports : Members(x) \cap Members(Alone(p)) = {}
  BY <1>1 DEF ReportedOnce
<1>7. \A x \in reports', l \in Keys : pending'[l] \notin Members(x)
  BY <1>1, <1>2 DEF TypeOK, PendingOwn, ReportedOnce, Members
<1>8. ReportedOnce'
  BY <1>6, <1>7 DEF ReportedOnce
<1> QED BY <1>3, <1>4, <1>5, <1>8

\* Every step keeps the invariant.
LEMMA NextCInv == CInv /\ [Next]_vars => CInv'
<1> SUFFICES ASSUME CInv, [Next]_vars PROVE CInv'
  OBVIOUS
<1>1. ASSUME NEW m \in Messages, Open(m) PROVE CInv'
  BY <1>1, HandleCInv DEF Open
<1>2. ASSUME NEW m \in Messages, Match(m) PROVE CInv'
  BY <1>2, HandleCInv, PairMembers, FlowAssumption DEF Match, CInv, TypeOK, Waiting
<1>3. ASSUME NEW m \in Messages, Clash(m) PROVE CInv'
  BY <1>3, HandleCInv, AloneMembers, FlowAssumption DEF Clash, CInv, TypeOK, Waiting
<1>4. ASSUME NEW m \in Messages, Replace(m) PROVE CInv'
  BY <1>4, HandleCInv DEF Replace
<1>5. ASSUME NEW k \in Keys, Expire(k) PROVE CInv'
  BY <1>5, ExpireCInv
<1>6. CASE UNCHANGED vars
  BY <1>6 DEF vars, CInv, TypeOK, PendingOwn, MembersHandled, ReportedOnce
<1> QED BY <1>1, <1>2, <1>3, <1>4, <1>5, <1>6 DEF Next, StrictNext

\* The invariant holds in every reachable state.
THEOREM Induction == Spec => []CInv
<1>1. Init => CInv
  BY InitCInv
<1>2. CInv /\ [Next]_vars => CInv'
  BY NextCInv
<1> QED BY <1>1, <1>2, PTL DEF Spec

\* Every variable holds a value of its type.
THEOREM TypeCorrect == Spec => []TypeOK
<1>1. CInv => TypeOK
  BY DEF CInv
<1> QED BY <1>1, Induction, PTL

\* No message is reported twice, or reported and still waiting.
THEOREM NoDoubleReport == Spec => []ReportedOnce
<1>1. CInv => ReportedOnce
  BY DEF CInv
<1> QED BY <1>1, Induction, PTL

\* Every record is of one flow: a request is never sent with the response of
\* another client or session.
THEOREM RecordsOfOneFlow == Spec => []ReportsOfOneFlow
<1>1. CInv => ReportsOfOneFlow
  <2> SUFFICES ASSUME CInv, NEW x \in reports
               PROVE  Members(x) \subseteq done /\ Cardinality({KeyOf[m] : m \in Members(x)}) = 1
    BY DEF ReportsOfOneFlow
  <2>1. PICK k \in Keys : {KeyOf[m] : m \in Members(x)} = {k}
    BY DEF CInv, MembersHandled
  <2>2. Cardinality({k}) = 1
    BY FS_Singleton
  <2> QED BY <2>1, <2>2 DEF CInv, MembersHandled
<1> QED BY <1>1, Induction, PTL

-----------------------------------------------------------------------------
(* The table whose "match or insert" is one step *)

\* Without Replace, the steps that handle a message leave it accounted for, and
\* what waited under its key as well.
LEMMA StrictHandleAccounted ==
  ASSUME CInv, OnlyDuplicatesDiscarded, NEW m \in Messages, Open(m) \/ Match(m) \/ Clash(m)
  PROVE  OnlyDuplicatesDiscarded'
<1> USE FlowAssumption, NoneAssumption DEF CInv, TypeOK, Waiting, Handle
<1> DEFINE k == KeyOf[m]
           p == pending[k]
<1> SUFFICES ASSUME NEW n \in done'
             PROVE  \/ pending'[KeyOf[n]] = n
                    \/ \E x \in reports' : n \in Members(x)
                    \/ \E x \in reports' : \E q \in Members(x) :
                         x = Alone(q) /\ SameKind(q, n) /\ KeyOf[q] = KeyOf[n]
  BY DEF OnlyDuplicatesDiscarded
<1>1. n \in done \cup {m} /\ n \in Messages /\ reports \subseteq reports' /\ k \in Keys
  BY DEF Open, Match, Clash
<1>2. CASE n # m /\ pending[KeyOf[n]] # n
  BY <1>1, <1>2 DEF OnlyDuplicatesDiscarded
<1>3. CASE n # m /\ pending[KeyOf[n]] = n /\ n # p
  BY <1>1, <1>3 DEF Open, Match, Clash
<1>4. CASE n = p \/ n = m
  <2>1. CASE Open(m)
    BY <1>1, <1>4, <2>1 DEF Open
  <2>2. CASE Match(m)
    <3>1. p \in Messages /\ Pair(p, m) \in reports' /\ Members(Pair(p, m)) = {p, m}
      BY <1>1, <2>2, PairMembers DEF Match
    <3> QED BY <1>4, <3>1
  <2>3. CASE Clash(m)
    <3>1. p \in Messages /\ Alone(p) \in reports' /\ Members(Alone(p)) = {p} /\ SameKind(p, m)
      BY <1>1, <2>3, AloneMembers DEF Clash
    <3>2. KeyOf[p] = KeyOf[m]
      BY <1>1, <3>1 DEF PendingOwn
    <3> QED BY <1>4, <3>1, <3>2
  <2> QED BY <2>1, <2>2, <2>3
<1> QED BY <1>1, <1>2, <1>3, <1>4

\* A timeout accounts for the message it takes out.
LEMMA ExpireAccounted ==
  ASSUME CInv, OnlyDuplicatesDiscarded, NEW k \in Keys, Expire(k)
  PROVE  OnlyDuplicatesDiscarded'
<1> USE FlowAssumption, NoneAssumption DEF CInv, TypeOK, Waiting, Expire
<1>1. Members(Alone(pending[k])) = {pending[k]}
  BY AloneMembers
<1>2. \A n \in done : pending[KeyOf[n]] = n => pending'[KeyOf[n]] = n \/ n \in Members(Alone(pending[k]))
  BY <1>1
<1> QED BY <1>2 DEF OnlyDuplicatesDiscarded

\* So both are inductive for a table with an atomic "match or insert".
SInv == CInv /\ OnlyDuplicatesDiscarded

\* The invariant of the strict specification holds at first.
LEMMA InitSInv == Init => SInv
BY InitCInv DEF Init, SInv, OnlyDuplicatesDiscarded

\* Every step of the strict specification keeps it.
LEMMA StrictNextSInv == SInv /\ [StrictNext]_vars => SInv'
<1> SUFFICES ASSUME SInv, [StrictNext]_vars PROVE SInv'
  OBVIOUS
<1> USE DEF SInv
<1>1. CInv'
  BY NextCInv DEF Next
<1>2. CASE UNCHANGED vars
  <2>1. pending' = pending /\ reports' = reports /\ done' = done
    BY <1>2 DEF vars
  <2>2. OnlyDuplicatesDiscarded'
    BY <2>1 DEF OnlyDuplicatesDiscarded, Waiting
  <2> QED BY <1>1, <2>2
<1> QED BY <1>1, <1>2, StrictHandleAccounted, ExpireAccounted DEF StrictNext

\* If the look-up and the insertion were one step, nothing but a repetition of
\* what is reported alone would get lost: the losses of Worker.cpp all come from
\* the gap between find (:57) and insert (:91).
THEOREM AtomicLosesDuplicatesOnly == StrictSpec => []OnlyDuplicatesDiscarded
<1>1. SInv => OnlyDuplicatesDiscarded
  BY DEF SInv
<1> QED BY <1>1, InitSInv, StrictNextSInv, PTL DEF StrictSpec
=============================================================================
