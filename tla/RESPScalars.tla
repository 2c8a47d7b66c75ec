----------------------------- MODULE RESPScalars -----------------------------
(***************************************************************************)
(* The RESP2 serializer of the server (testcore/protocol.py) and of the    *)
(* client library (testcore_client/connection.py), and their parsers of    *)
(* the types that do not nest, as operators on sequences of bytes.  A byte *)
(* is a one-character string; Invalid stands for the bytes that are not    *)
(* UTF-8, ERR for the four bytes "ERR_".  Numbers are written with one     *)
(* digit, lengths below ten.                                               *)
(*                                                                         *)
(* Values are tagged: <<"str", bytes>>, <<"int", n>>, <<"nil">> and        *)
(* <<"arr", values>>.  What a parser returns is More (the code's (None,    *)
(* 0)), an error, or <<"ok", value, p>> with the position p after it.      *)
(***************************************************************************)
EXTENDS Integers, Sequences, SequencesExt

CR == "CR"
LF == "LF"
Space == " "
Quote == "\""
Invalid == "\\xff"
ERR == "ERR_"
EOL == <<CR, LF>>

Digit == <<"1", "2", "3", "4", "5", "6", "7", "8", "9">>
Decimal(n) == CASE n = 0 -> <<"0">> [] n < 0 -> <<"-", "1">> [] OTHER -> <<Digit[n]>>
Numerals == {Decimal(n) : n \in -1 .. 9}
IntOf(s) == CHOOSE n \in -1 .. 9 : Decimal(n) = s

Str(s) == <<"str", s>>
Num(n) == <<"int", n>>
Arr(vs) == <<"arr", vs>>
Nil == <<"nil">>

-----------------------------------------------------------------------------
(* RESPSerializer, and Connection._encode_command *)

BulkString(s) == <<"$">> \o Decimal(Len(s)) \o EOL \o s \o EOL
SimpleString(s) == <<"+">> \o s \o EOL
ErrorReply(s) == <<"-">> \o s \o EOL
Integer(n) == <<":">> \o Decimal(n) \o EOL
Null == <<"$">> \o Decimal(-1) \o EOL

\* array() of items: None, strings and integers.
ArrayOf(items) ==
    LET Item(v) == CASE v = Nil -> Null
                     [] v[1] = "str" -> BulkString(v[2])
                     [] v[1] = "int" -> Integer(v[2])
    IN  <<"*">> \o Decimal(Len(items)) \o EOL
          \o FoldLeft(LAMBDA bytes, v : bytes \o Item(v), <<>>, items)

\* A command is sent as an array of bulk strings.
EncodeCommand(args) == ArrayOf([i \in DOMAIN args |-> Str(args[i])])

-----------------------------------------------------------------------------
(* Parsers *)

More == <<"more">>
ProtocolError == <<"protocol">>
UnicodeError == <<"unicode">>

\* Mutated form of FindCrlf: a CR is enough.
FindCr(b, p) ==
    LET I == {i \in p .. Len(b) : b[i] = CR}
    IN  IF I = {} THEN 0 ELSE Min(I)

\* The first position from p on where b has a CRLF; 0 if it has none.
FindCrlf(b, p) ==
    LET I == {i \in p .. Len(b) - 1 : b[i] = CR /\ b[i + 1] = LF}
    IN  IF I = {} THEN 0 ELSE Min(I)

Decoded(s, v, p) == IF Invalid \in Range(s) THEN UnicodeError ELSE <<"ok", v, p>>

\* Mutated form of ParseLine: an error is read like a simple string.
ParseLineUnmarked(b, p) ==
    LET cr == FindCrlf(b, p + 1)
        s == SubSeq(b, p + 1, cr - 1)
    IN  IF cr = 0 THEN More
        ELSE IF b[p] # ":" THEN Decoded(s, Str(s), cr + 2)
        ELSE IF s \in Numerals THEN <<"ok", Num(IntOf(s)), cr + 2>>
        ELSE ProtocolError

\* +text, -text and :number
ParseLine(b, p) ==
    LET cr == FindCrlf(b, p + 1)
        s == SubSeq(b, p + 1, cr - 1)
    IN  IF cr = 0 THEN More
        ELSE CASE b[p] = "+" -> Decoded(s, Str(s), cr + 2)
               [] b[p] = "-" -> Decoded(s, Str(<<ERR>> \o s), cr + 2)
               [] b[p] = ":" -> IF s \in Numerals THEN <<"ok", Num(IntOf(s)), cr + 2>>
                                ELSE ProtocolError

\* Mutated form of ParseBulk: the CRLF after the string is taken to be there.
ParseBulkEager(b, p) ==
    LET cr == FindCrlf(b, p + 1)
        s == SubSeq(b, p + 1, cr - 1)
        end == cr + 2 + IntOf(s)
    IN  IF cr = 0 THEN More
        ELSE IF s \notin Numerals THEN ProtocolError
        ELSE IF IntOf(s) < 0 THEN <<"ok", Nil, cr + 2>>
        ELSE IF Len(b) < end - 1 THEN More
        ELSE Decoded(SubSeq(b, cr + 2, end - 1), Str(SubSeq(b, cr + 2, end - 1)), end + 2)

\* $length CRLF string CRLF
ParseBulk(b, p) ==
    LET cr == FindCrlf(b, p + 1)
        s == SubSeq(b, p + 1, cr - 1)
        end == cr + 2 + IntOf(s)
    IN  IF cr = 0 THEN More
        ELSE IF s \notin Numerals THEN ProtocolError
        ELSE IF IntOf(s) < 0 THEN <<"ok", Nil, cr + 2>>
        ELSE IF Len(b) < end + 1 THEN More
        ELSE IF SubSeq(b, end, end + 1) # EOL THEN ProtocolError
        ELSE Decoded(SubSeq(b, cr + 2, end - 1), Str(SubSeq(b, cr + 2, end - 1)), end + 2)

\* str.strip()
Strip(s) ==
    LET I == {i \in DOMAIN s : s[i] \notin {Space, CR, LF}}
    IN  IF I = {} THEN <<>> ELSE SubSeq(s, Min(I), Max(I))

\* Where the line ends, and how long its end is: a CRLF is looked for first,
\* an LF only if there is none.
FindNewline(b) ==
    LET lf == {i \in DOMAIN b : b[i] = LF}
    IN  IF FindCrlf(b, 1) # 0 THEN <<FindCrlf(b, 1), 2>>
        ELSE IF lf # {} THEN <<Min(lf), 1>> ELSE <<0, 0>>
=============================================================================
