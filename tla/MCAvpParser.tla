---------------------------- MODULE MCAvpParser ----------------------------
(* Every message of up to MaxBody octets of attributes, with every sequence  *)
(* of up to three length octets from LengthOctets.                           *)
EXTENDS AvpParser, SequencesExt

CONSTANTS MaxBody, LengthOctets

MCMessages ==
  {[length |-> HeaderLen + n, declared |-> d] :
     n \in 0 .. MaxBody, d \in BoundedSeq(LengthOctets, 3)}
=============================================================================
