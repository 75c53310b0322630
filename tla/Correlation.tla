----------------------------- MODULE Correlation -----------------------------
(***************************************************************************)
(* What the correlation engine promises, without threads, timers or locks: *)
(* each flow key has at most one message that waits for its mate, and each *)
(* record handed to the sender is built from it in one step.               *)
(*                                                                         *)
(* Replace is the step a table with an atomic "match or insert" would not  *)
(* have: StrictSpec leaves it out.                                         *)
(*                                                                         *)
(* Swapped, WaitingAnywhere, MatchKept and ClashSilent are faulty variants *)
(* of the operators after them, used by no action.                         *)
(***************************************************************************)
EXTENDS FiniteSets

CONSTANTS Messages, Requests, Keys, KeyOf, None

ASSUME FlowAssumption == Requests \subseteq Messages /\ KeyOf \in [Messages -> Keys]
ASSUME NoneAssumption == None \notin Messages

VARIABLES
  pending,  \* the message of each key that waits for its mate, or None
  reports,  \* the records handed to the sender
  done      \* the messages whose handling took effect

vars == <<pending, reports, done>>

\* Two messages of one flow and different kinds as one record; a message alone.
Swapped(p, m) == [req |-> p, resp |-> m]
Pair(p, m) == IF p \in Requests THEN [req |-> p, resp |-> m] ELSE [req |-> m, resp |-> p]
Alone(p)   == Pair(p, None)
SameKind(p, m) == (p \in Requests) <=> (m \in Requests)
WaitingAnywhere(m) ==
  pending[CHOOSE k \in Keys : (\E l \in Keys : pending[l] # None) => pending[k] # None]
Waiting(m) == pending[KeyOf[m]]

Init == pending = [k \in Keys |-> None] /\ reports = {} /\ done = {}

\* m takes effect by setting what waits under its key and adding reports.
Handle(m, waits, new) ==
  /\ m \notin done
  /\ pending' = [pending EXCEPT ![KeyOf[m]] = waits]
  /\ reports' = reports \cup new
  /\ done' = done \cup {m}

\* No mate yet: m waits.
Open(m) == Waiting(m) = None /\ Handle(m, m, {})

\* The mate waits: both leave in one record.
MatchKept(m) ==
  /\ Waiting(m) # None /\ ~SameKind(Waiting(m), m)
  /\ Handle(m, Waiting(m), {Pair(Waiting(m), m)})
Match(m) ==
  /\ Waiting(m) # None /\ ~SameKind(Waiting(m), m)
  /\ Handle(m, None, {Pair(Waiting(m), m)})

\* A message of the same kind waits: it leaves alone and m is discarded.
ClashSilent(m) == Waiting(m) # None /\ SameKind(Waiting(m), m) /\ Handle(m, None, {})
Clash(m) ==
  /\ Waiting(m) # None /\ SameKind(Waiting(m), m)
  /\ Handle(m, None, {Alone(Waiting(m))})

\* The timeout of a key: what waits leaves alone.
Expire(k) ==
  /\ pending[k] # None
  /\ pending' = [pending EXCEPT ![k] = None]
  /\ reports' = reports \cup {Alone(pending[k])}
  /\ UNCHANGED done

\* m displaces what waits under its key, which is lost.
Replace(m) == Waiting(m) # None /\ Handle(m, m, {})

StrictNext ==
  \/ \E m \in Messages : Open(m) \/ Match(m) \/ Clash(m)
  \/ \E k \in Keys : Expire(k)
Next == StrictNext \/ \E m \in Messages : Replace(m)

Spec == Init /\ [][Next]_vars
StrictSpec == Init /\ [][StrictNext]_vars

-----------------------------------------------------------------------------
(* Properties *)

Records == [req : Requests \cup {None}, resp : (Messages \ Requests) \cup {None}]
Members(x) == {x.req, x.resp} \ {None}

\* Every variable holds a value of its type.
TypeOK ==
  /\ pending \in [Keys -> Messages \cup {None}]
  /\ reports \subseteq Records
  /\ done \subseteq Messages

\* The attributes of one message reach the sender in one record only, and not
\* while the message still waits for its mate.
ReportedOnce ==
  /\ \A x, y \in reports : x # y => Members(x) \cap Members(y) = {}
  /\ \A x \in reports, k \in Keys : pending[k] \notin Members(x)

\* A record holds messages of one flow that were all handled.
ReportsOfOneFlow ==
  \A x \in reports : Members(x) \subseteq done /\ Cardinality({KeyOf[m] : m \in Members(x)}) = 1

\* Without Replace, the only message that is neither waiting nor reported is
\* one that met a message of its own kind and flow, which was reported alone.
OnlyDuplicatesDiscarded ==
  \A m \in done :
     \/ Waiting(m) = m
     \/ \E x \in reports : m \in Members(x)
     \/ \E x \in reports : \E p \in Members(x) :
          x = Alone(p) /\ SameKind(p, m) /\ KeyOf[p] = KeyOf[m]
=============================================================================
