------------------------------ MODULE AvpParser ------------------------------
(***************************************************************************)
(* Worker::getAllAvps: the walk over the attributes of one message.  A     *)
(* message is its length field and the length octets of its attributes in  *)
(* the order the walk reads them; every octet behind the received ones is  *)
(* 0 (the buffer is filled with zeros).  An attribute is where it starts   *)
(* and the octets it spans; its type and value are what lies there.        *)
(*                                                                         *)
(* NearEnd, HeaderAndMoreFit and ValueStarts are faulty variants of the    *)
(* conditions after them, used by no action.                               *)
(***************************************************************************)
EXTENDS Integers, Sequences

CONSTANTS HeaderLen,  \* RADIUS_HEADER_LEN
          MsgMaxSize, \* RADIUS_MSG_MAX_SIZE
          Messages    \* the messages [length, declared] to parse

TypeLenLen == 2       \* RAD_ACC_AVP_TYPELEN_LEN

ASSUME HeaderAssumption == HeaderLen \in Nat \ {0} /\ MsgMaxSize \in Nat
\* PacketReceiver accepts no length field outside these bounds.
ASSUME MessageAssumption ==
  Messages \subseteq [length : HeaderLen .. MsgMaxSize - 1, declared : Seq(0 .. 255)]

VARIABLES message, \* the message being parsed
          offset,  \* offset
          avpList, \* *avpListPtr
          outcome  \* "walking", "returned", "threw", or "spinning" for ever

vars == <<message, offset, avpList, outcome>>

Init ==
  /\ message \in Messages
  /\ offset = HeaderLen
  /\ avpList = <<>>
  /\ outcome = "walking"

\* The length octet of the attribute at offset.
AvpLength == LET i == Len(avpList) + 1 IN
             IF i \in DOMAIN message.declared THEN message.declared[i] ELSE 0

\* The condition of the loop, and the two of its body.
NearEnd == offset + TypeLenLen >= message.length
AtEnd == offset >= message.length
HeaderAndMoreFit == offset + TypeLenLen + 1 < message.length
HeaderFits == offset + TypeLenLen < message.length
ValueStarts == offset + TypeLenLen <= message.length
ValueFits  == offset + AvpLength <= message.length

\* while (offset < radMsgLen) ends.  The list is returned by a pointer that is
\* never null, a message without attributes included.
Return ==
  /\ outcome = "walking" /\ AtEnd
  /\ outcome' = "returned"
  /\ UNCHANGED <<message, offset, avpList>>

TakeAvp ==
  /\ outcome = "walking" /\ ~AtEnd
  /\ HeaderFits /\ ValueFits /\ AvpLength >= TypeLenLen
  /\ avpList' = Append(avpList, [at |-> offset, len |-> AvpLength])
  /\ offset' = offset + AvpLength
  /\ UNCHANGED <<message, outcome>>

\* string::assign with AvpLength - 2 < 0 as its size throws std::length_error.
Throw ==
  /\ outcome = "walking" /\ ~AtEnd
  /\ HeaderFits /\ ValueFits /\ AvpLength < TypeLenLen
  /\ outcome' = "threw"
  /\ UNCHANGED <<message, offset, avpList>>

\* An iteration that takes no attribute changes nothing, and so does the next.
Spin ==
  /\ outcome = "walking" /\ ~AtEnd
  /\ ~(HeaderFits /\ ValueFits)
  /\ outcome' = "spinning"
  /\ UNCHANGED <<message, offset, avpList>>

Next == Return \/ TakeAvp \/ Throw \/ Spin

Spec == Init /\ [][Next]_vars
FairSpec == Spec /\ WF_vars(Next)

-----------------------------------------------------------------------------
(* Properties *)

\* Every variable holds a value of its type; offset stays below 2^16 because
\* it never passes the length field.
TypeOK ==
  /\ message \in Messages
  /\ offset \in HeaderLen .. message.length
  /\ avpList \in Seq([at : Nat, len : TypeLenLen .. 255])
  /\ outcome \in {"walking", "returned", "threw", "spinning"}

\* Where attribute i ends: where the next one starts, or the offset reached.
EndOf(i) == avpList[i].at + avpList[i].len

\* The attributes taken so far follow each other without gap or overlap from
\* the header to the offset reached.
Contiguous ==
  /\ avpList = <<>> => offset = HeaderLen
  /\ avpList # <<>> => avpList[1].at = HeaderLen /\ EndOf(Len(avpList)) = offset
  /\ \A i \in 1 .. Len(avpList) - 1 : EndOf(i) = avpList[i + 1].at

\* What is returned covers the whole message: nothing is cut off silently.
ReturnsWholeMessage == outcome = "returned" => Contiguous /\ offset = message.length

\* Where the attributes with these length octets end.
EndPosition(declared) ==
  LET end[i \in 0 .. Len(declared)] ==
        IF i = 0 THEN HeaderLen ELSE end[i - 1] + declared[i]
  IN end[Len(declared)]

\* A message whose attributes, of at least n octets each, fill its length.
Filled(m, n) ==
  /\ \A i \in DOMAIN m.declared : m.declared[i] >= n
  /\ EndPosition(m.declared) = m.length

\* On a message of attributes with values the walk ends with all of them.
WellFormedParsed ==
  Filled(message, TypeLenLen + 1) =>
    <>(outcome = "returned" /\ [i \in DOMAIN avpList |-> avpList[i].len] = message.declared)

\* README.md:2 (all AVPs are extracted): also when a value is empty.
EmptyValuesParsed == Filled(message, TypeLenLen) => outcome \notin {"spinning", "threw"}
=============================================================================
