--------------------------- MODULE MCConfiguration ---------------------------
(* Command lines put together from up to MaxPieces pieces.                   *)
EXTENDS Configuration, SequencesExt

CONSTANT MaxPieces

Part(kind, n) == [kind |-> kind, n |-> n]
Junk == <<Part("junk", 0)>>
Ip(n, rest) == <<Part("ip", n)>> \o rest
Port(n) == <<Part("number", n)>>

Argument(kind, names, value, text) == [kind |-> kind, names |-> names, value |-> value, text |-> text]
Plain(text) == Argument("text", <<>>, None, text)
Long(name) == Argument("long", <<name>>, None, Junk)
With(name, value) == Argument("long", <<name>>, value, Junk)

\* -5 looks like a cluster of one letter, and is a number when --id takes it.
MinusFive == Argument("cluster", <<"5">>, None, Port(-5))

Pieces ==
  {<<Plain(Port(777))>>, <<MinusFive>>, <<Argument("separator", <<>>, None, Junk)>>,
   <<Argument("cluster", <<"h">>, None, Junk)>>, <<Long("help")>>,
   <<Long("id")>>, <<With("id", Port(777))>>,
   <<Long("own-addr")>>, <<With("own-addr", Ip(6, Port(30001)))>>, <<With("own-addr", Ip(6, Port(65616)))>>,
   <<With("own-addr", Ip(6, Port(100000)))>>,
   <<Plain(Ip(8, Port(1024)))>>,
   <<With("thrift-addr", Ip(9, Port(80)))>>, <<With("thrift-addr", Ip(9, Port(7777) \o <<Part("empty", 0)>>))>>,
   <<Long("thrift-addr"), Plain(Ip(9, Port(7777)))>>}

MCCommandLines == {FlattenSeq(pieces) : pieces \in SeqOf(Pieces, MaxPieces)}
=============================================================================
