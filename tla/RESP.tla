-------------------------------- MODULE RESP ---------------------------------
(***************************************************************************)
(* The parsers of whole messages, of the server (testcore/protocol.py) and *)
(* of the client library (testcore_client/connection.py): arrays, which    *)
(* nest, and inline commands.                                              *)
(***************************************************************************)
EXTENDS RESPScalars

RECURSIVE ParseArray(_, _), ParseItems(_, _, _, _)

\* Anything that begins with a type byte.
ParseRESP(b, p) ==
    CASE b[p] = "*" -> ParseArray(b, p)
      [] b[p] = "$" -> ParseBulk(b, p)
      [] b[p] \in {"+", "-", ":"} -> ParseLine(b, p)
      [] OTHER -> ProtocolError

\* n more items from p on, after the ones in items.
ParseItems(b, p, n, items) ==
    IF n = 0 THEN <<"ok", Arr(items), p>>
    ELSE IF p > Len(b) THEN More
    ELSE LET r == ParseRESP(b, p)
         IN  IF r[1] # "ok" THEN r
             ELSE ParseItems(b, r[3], n - 1, Append(items, r[2]))

ParseArray(b, p) ==
    LET cr == FindCrlf(b, p + 1)
        s == SubSeq(b, p + 1, cr - 1)
    IN  IF cr = 0 THEN More
        ELSE IF s \notin Numerals THEN ProtocolError
        ELSE IF IntOf(s) < 0 THEN <<"ok", Nil, cr + 2>>
        ELSE ParseItems(b, cr + 2, IntOf(s), <<>>)

\* The words of a line, split at blanks outside of double quotes.
RECURSIVE Words(_)
Words(s) ==
    IF s = <<>> THEN <<>>
    ELSE IF s[1] = Space THEN Words(Tail(s))
    ELSE LET quoted == s[1] = Quote
             first == IF quoted THEN 2 ELSE 1
             stops == {i \in first .. Len(s) : s[i] = IF quoted THEN Quote ELSE Space}
             end == IF stops = {} THEN Len(s) + 1 ELSE Min(stops)
         IN  <<Str(SubSeq(s, first, end - 1))>> \o Words(SubSeq(s, end + first - 1, Len(s)))

ParseInline(b) ==
    LET nl == FindNewline(b)
        s == SubSeq(b, 1, nl[1] - 1)
    IN  IF nl[1] = 0 THEN More ELSE Decoded(s, Arr(Words(Strip(s))), nl[1] + nl[2])

\* RESPParser._parse_message: anything without a type byte is an inline command.
ParseMessage(b) ==
    IF b = <<>> THEN More
    ELSE IF b[1] \in {"*", "$", "+", "-", ":"} THEN ParseRESP(b, 1)
    ELSE ParseInline(b)

\* Connection._try_parse; its parsers of the single types are those above.
TryParse(b) == IF b = <<>> THEN More ELSE ParseRESP(b, 1)
=============================================================================
