------------------------------- MODULE Framing -------------------------------
(***************************************************************************)
(* One direction of a connection: what was sent comes out of the reads of  *)
(* the other side cut at arbitrary places, and is put together again by    *)
(* RESPParser.feed (testcore/protocol.py) or by Connection._parse_one      *)
(* (testcore_client/connection.py).  A read, and each round of the loop    *)
(* that takes messages out of the buffer, is a step; nothing is read while *)
(* the loop runs.  The parser of a single message is a parameter (RESP).   *)
(***************************************************************************)
EXTENDS RESPScalars

CONSTANTS
    Parse(_, _),    \* a reader's parser, applied to the buffer
    Byte,
    Requests,       \* what clients send: records [bytes, value]
    Replies,        \* what the server sends
    MaxItems,       \* how many of them are sent
    MaxBufferSize,
    ReadSize        \* bytes that one read returns at most

\* The value of something that is not RESP.
Malformed == <<"malformed">>

ASSUME SizeAssumption ==
    /\ ReadSize \in Nat \ {0}
    /\ MaxBufferSize \in Nat
    /\ MaxItems \in Nat
ASSUME ItemAssumption == \A e \in Requests \cup Replies : e.bytes \in Seq(Byte) \ {<<>>}

VARIABLES
    reader,     \* who reads: "server" or "client"
    sent,       \* the items sent so far
    stream,     \* their bytes
    starts,     \* item i is sent after starts[i] bytes; the last entry is for the next item
    pos,        \* the number of bytes that have been read
    buffer,     \* RESPParser.buffer, Connection._buffer
    parsing,    \* the loop runs: the buffer may have a message
    batch,      \* messages of feed() that it has not returned yet
    messages,   \* what has been parsed and returned
    failed      \* the exception that ended it, or "no"

sendVars == <<reader, sent, stream, starts>>
vars == <<sendVars, pos, buffer, parsing, batch, messages, failed>>

Items(r) == IF r = "server" THEN Requests ELSE Replies

Init ==
    /\ reader \in {"server", "client"}
    /\ sent = <<>> /\ stream = <<>> /\ starts = <<0>>
    /\ pos = 0
    /\ buffer = <<>>
    /\ parsing = FALSE
    /\ batch = <<>> /\ messages = <<>>
    /\ failed = "no"

\* Connection._send_packed, or ClientHandler._write.
Send(e) ==
    /\ Len(sent) < MaxItems
    /\ sent' = Append(sent, e)
    /\ stream' = stream \o e.bytes
    /\ starts' = Append(starts, Len(stream \o e.bytes))
    /\ UNCHANGED <<reader, pos, buffer, parsing, batch, messages, failed>>

\* Mutated form of Feed: a full buffer is taken for an overflow.
FeedAtLimit(chunk) ==
    IF Len(buffer \o chunk) >= MaxBufferSize
    THEN failed' = "overflow" /\ buffer' = <<>> /\ UNCHANGED parsing
    ELSE buffer' = buffer \o chunk /\ parsing' = TRUE /\ UNCHANGED failed

\* RESPParser.feed up to its loop.  When it raises, ClientHandler.handle()
\* ends the connection.
Feed(chunk) ==
    IF Len(buffer \o chunk) > MaxBufferSize
    THEN failed' = "overflow" /\ buffer' = <<>> /\ UNCHANGED parsing
    ELSE buffer' = buffer \o chunk /\ parsing' = TRUE /\ UNCHANGED failed

\* Connection._recv_more; it has no limit.
Receive(chunk) == buffer' = buffer \o chunk /\ parsing' = TRUE /\ UNCHANGED failed

\* A read returns the next n bytes.
Read(n) ==
    /\ failed = "no" /\ ~parsing
    /\ pos + n <= Len(stream)
    /\ LET chunk == SubSeq(stream, pos + 1, pos + n)
       IN  IF reader = "server" THEN Feed(chunk) ELSE Receive(chunk)
    /\ pos' = pos + n
    /\ UNCHANGED <<sendVars, batch, messages>>

\* The loop finds a message and takes it out of the buffer: feed() keeps it,
\* _parse_one returns it and is called again for the next.
Take ==
    /\ parsing
    /\ LET r == Parse(reader, buffer)
       IN  /\ r[1] = "ok"
           /\ buffer' = SubSeq(buffer, r[3], Len(buffer))
           /\ IF reader = "server"
              THEN batch' = Append(batch, r[2]) /\ UNCHANGED messages
              ELSE messages' = Append(messages, r[2]) /\ UNCHANGED batch
    /\ UNCHANGED <<sendVars, pos, parsing, failed>>

\* It finds none: feed() returns what it has, _parse_one reads on.
Drained ==
    /\ parsing
    /\ Parse(reader, buffer) = More
    /\ parsing' = FALSE
    /\ messages' = messages \o batch
    /\ batch' = <<>>
    /\ UNCHANGED <<sendVars, pos, buffer, failed>>

\* The parser raises.  What feed() has kept is lost.
Raise ==
    /\ parsing
    /\ LET r == Parse(reader, buffer)
       IN  r[1] \notin {"ok", "more"} /\ failed' = r[1]
    /\ parsing' = FALSE
    /\ batch' = <<>>
    /\ UNCHANGED <<sendVars, pos, buffer, messages>>

\* Connection._read_response: does it raise for this value?
Raises(v) == v[1] = "str" /\ v[2] # <<>> /\ v[2][1] = ERR

Next ==
    \/ \E e \in Items(reader) : Send(e)
    \/ \E n \in 1 .. ReadSize : Read(n)
    \/ Take \/ Drained \/ Raise

Spec == Init /\ [][Next]_vars

-----------------------------------------------------------------------------
(* Properties *)

\* What may lie in the buffer behind a message that a read has completed.
Behind == UNION {[1 .. n -> Byte] : n \in 0 .. ReadSize - 1}

Errors == {ProtocolError, UnicodeError}

\* The parser of reader r on item e: all of it but its last bytes is never
\* taken for a message, and when it is complete it has its value and its
\* length whatever lies behind it; of a malformed item no part is taken for a
\* message, and all of it raises.
KeepsToItem(r, e) ==
    /\ \A n \in 1 .. Len(e.bytes) - 1 :
          Parse(r, SubSeq(e.bytes, 1, n)) \in
              {More} \cup (IF e.value = Malformed THEN Errors ELSE {})
    /\ \A t \in Behind :
          IF e.value = Malformed
          THEN Parse(r, e.bytes \o t) \in Errors
          ELSE Parse(r, e.bytes \o t) = <<"ok", e.value, Len(e.bytes) + 1>>

KeepsToItems(r) == Parse(r, <<>>) = More /\ \A e \in Items(r) : KeepsToItem(r, e)

\* Before anything is sent: _parse_message, or _try_parse, will find the end of
\* every message that the other side has, in all the ways a read can cut it.
ParserContract == sent = <<>> => KeepsToItems(reader)

\* However the reads cut the stream, when the loop of feed() or _parse_one has
\* ended without an exception the messages are those that were sent and have
\* arrived in full, each once, in order, with the value that was given to the
\* serializer.
DecodesWhatWasSent ==
    failed = "no" /\ ~parsing =>
        /\ \A i \in DOMAIN sent : i \in DOMAIN messages <=> starts[i + 1] <= pos
        /\ Len(messages) <= Len(sent)
        /\ \A i \in DOMAIN messages : messages[i] = sent[i].value

\* An exception comes only when the bytes it is about have begun to arrive,
\* and nothing that follows them becomes a message; a buffer overflow comes
\* only when something was sent that does not fit beside one read.
FailsOnlyForCause ==
    /\ failed \in {"protocol", "unicode"} =>
          \E n \in DOMAIN sent :
              /\ sent[n].value = Malformed
              /\ pos > starts[n]
              /\ Len(messages) < n
              /\ \A i \in 1 .. n - 1 : sent[i].value # Malformed
              /\ \A i \in DOMAIN messages : messages[i] = sent[i].value
    /\ failed = "overflow" =>
          \E i \in DOMAIN sent : Len(sent[i].bytes) > MaxBufferSize - ReadSize + 1

\* A bulk string that begins, itself, with the mark that the client puts
\* before the text of an error; it lies behind the length.
BeginsWithMark(b) == b[1] = "$" /\ b[5] = ERR

\* The client raises for every error reply, and for no other but a string that
\* begins with the mark on the wire (a value somebody stored): not for one
\* inside an array, a number, a null or what a read cut off.
RaisesForErrors ==
    reader = "client" =>
        \A i \in DOMAIN messages :
            Raises(messages[i]) <=> sent[i].bytes[1] = "-" \/ BeginsWithMark(sent[i].bytes)

\* What a caller relies on: an exception means that the server sent an error
\* (testcore_client/connection.py:98 "Raises on errors").  It fails
\* for a stored value that begins with the mark.
RaisesOnlyForErrors ==
    reader = "client" =>
        \A i \in DOMAIN messages : Raises(messages[i]) => sent[i].bytes[1] = "-"
=============================================================================
