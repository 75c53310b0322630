-------------------------- MODULE MCPacketReceiver --------------------------
(* Datagrams on both sides of every condition of the filter: five messages   *)
(* that pass it, for three queues of capacity one, and three that do not.    *)
EXTENDS PacketReceiver

MCLocal == [ip |-> 7, port |-> 30001]

\* What udp_client sends, from three remote addresses on either side of the
\* local one, with two identifiers; one too short, one too long, one from a
\* wrong port.
Kinds ==
  LET ok == [code |-> AccountingRequest, id |-> 103, length |-> 87, bytes |-> 87,
             ip |-> 6, port |-> RADIUS_ACCOUNTING_PORT] IN
  {ok, [ok EXCEPT !.code = AccountingResponse], [ok EXCEPT !.id = 104],
   [ok EXCEPT !.ip = 8], [ok EXCEPT !.ip = 7],
   [ok EXCEPT !.length = 19], [ok EXCEPT !.length = 4096], [ok EXCEPT !.port = 50001]}

\* All announce other lengths than the number of octets received.
Incomplete == {[d EXCEPT !.bytes = 20] : d \in Kinds}
=============================================================================
