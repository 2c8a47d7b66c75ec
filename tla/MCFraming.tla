------------------------------ MODULE MCFraming ------------------------------
(* Streams of requests and replies for TLC. *)
EXTENDS Framing, RESP

\* The parsers of the two ends.
ParserOf(r, b) == IF r = "server" THEN ParseMessage(b) ELSE TryParse(b)

Item(bytes, value) == [bytes |-> bytes, value |-> value]
Bad(bytes) == Item(bytes, Malformed)
Args(as) == Arr([i \in DOMAIN as |-> Str(as[i])])
Command(as) == Item(EncodeCommand(as), Args(as))

Commands == {Command(<<<<"a">>>>), Command(<<<<"a">>, <<>>>>),
             Command(<<EOL \o <<"$">>>>),
             Command(<<[i \in 1 .. 6 |-> "a"]>>)}   \* as long as never overflows

Inline == {Item(<<"a">> \o EOL, Args(<<<<"a">>>>)),
           Item(EOL, Args(<<>>)),
           Item(<<"a", Space, Space, Quote, Space, Quote>> \o EOL, Args(<<<<"a">>, <<Space>>>>))}

\* A server can be sent any RESP type; it answers those that are not arrays
\* with an error.
Others == {Item(<<"*", "2">> \o EOL \o ArrayOf(<<Nil>>) \o Integer(7),
                Arr(<<Arr(<<Nil>>), Num(7)>>)),
           Item(<<"*">> \o Decimal(-1) \o EOL, Nil),
           Item(ErrorReply(<<"a">>), Str(<<ERR, "a">>))}

Broken == {Bad(<<"$", "x">> \o EOL),
           Bad(<<"*", "1">> \o EOL \o <<"a">>),
           Bad(<<"$", "1">> \o EOL \o <<"a", "b">> \o EOL),
           Bad(<<"a", Invalid>> \o EOL)}

AllRequests == Commands \cup Inline \cup Others \cup Broken

\* Values that begin like the mark of an error: one that was stored, for KGET
\* and in an array for KMGET.
Marked == {Item(BulkString(<<ERR, "a">>), Str(<<ERR, "a">>)),
           Item(ArrayOf(<<Str(<<ERR>>)>>), Arr(<<Str(<<ERR>>)>>))}

Answers == {Item(SimpleString(<<"a">>), Str(<<"a">>)),
            Item(ErrorReply(<<"a">>), Str(<<ERR, "a">>)),
            Item(Integer(0), Num(0)),
            Item(BulkString(EOL), Str(EOL)),
            Item(Null, Nil),
            Item(ArrayOf(<<Str(<<"a">>), Nil, Num(-1)>>), Arr(<<Str(<<"a">>), Nil, Num(-1)>>)),
            Item(ArrayOf(<<>>), Arr(<<>>))} \cup Marked

\* Lines that end with LF, as the parser's documentation allows.
LfLines == {Item(<<"a", LF>>, Args(<<<<"a">>>>)), Item(<<"a">> \o EOL, Args(<<<<"a">>>>))}

\* The serializer puts text into a line as it is, be there a CRLF in it.
TwoLines == {Item(ErrorReply(<<"a">> \o EOL \o <<"b">>), Str(<<ERR, "a">> \o EOL \o <<"b">>))}

NoItems == {}

\* The bytes of all of them.
Bytes == {CR, LF, Space, Quote, Invalid, ERR, "$", "*", "+", "-", ":", "a", "b", "x"}
           \cup {Decimal(n)[1] : n \in 0 .. 9}
=============================================================================
