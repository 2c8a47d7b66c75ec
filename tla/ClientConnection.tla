-------------------------- MODULE ClientConnection ---------------------------
(***************************************************************************)
(* A thread that uses the client library (testcore_client/client.py and    *)
(* connection.py) and the server's handler at the other end.  RESP has no  *)
(* request ids: the library takes the next message for the answer to what  *)
(* it asked last, so both ends must agree on how many are to come.         *)
(*                                                                         *)
(* Messages are whole (Framing shows that they stay so) and carry, for the *)
(* properties alone, the number of the request they answer; 0 is an event. *)
(* toClient is what the handler has written and the library has not taken, *)
(* be it under way, in the socket or in Connection._buffer.                *)
(***************************************************************************)
EXTENDS Naturals, Sequences, FiniteSets

CONSTANTS
    Channels,       \* channels the client subscribes to
    MonitorsThere,  \* are there MONITOR sessions, which dispatch() writes to first?
    MaxRequests,    \* bound on the requests the client sends
    MaxPipeline,    \* bound on the length of a pipeline
    MaxInFlight     \* bound on toClient, for events

ASSUME BoundAssumption == {MaxRequests, MaxPipeline, MaxInFlight} \subseteq Nat
ASSUME ChannelsAssumption == IsFiniteSet(Channels)

VARIABLES
    open,       \* Connection._sock is there
    call,       \* what the thread is in: op, the request whose answer it wants
                \* next, and the messages it will read (wait)
    asked,      \* requests sent so far
    spoilt,     \* what has gone wrong on this connection (history)
    cut,        \* has the server ended the connection?
    toServer,   \* requests not handled yet: [id, op, channels]
    toClient,
    out,        \* the response the handler will write after the monitors
    subs        \* the channels it is subscribed to

clientVars == <<open, call, asked, spoilt>>
serverVars == <<cut, toServer, toClient, out, subs>>
vars == <<clientVars, serverVars>>

\* The ops confirm, listening and drain are the phases of subscribe() and of
\* listen() (kind) on channels; subscribe() has no drain.
Call(op, id, wait, channels, kind) ==
    [op |-> op, id |-> id, wait |-> wait, channels |-> channels, kind |-> kind]
Idle == Call("idle", 0, 0, {}, "none")

Init ==
    /\ open = TRUE /\ cut = FALSE
    /\ call = Idle
    /\ asked = 0
    /\ spoilt = {}
    /\ toServer = <<>> /\ toClient = <<>> /\ out = <<>>
    /\ subs = {}

-----------------------------------------------------------------------------
(* The client *)

Request(i, op, channels) == [id |-> i, op |-> op, channels |-> channels]

\* _send_packed.  When the server is gone, the data is lost; or the send fails,
\* which closes the socket and ends the call.
Sends(rs, c) ==
    /\ asked' = asked + Len(rs)
    /\ \/ /\ call' = c
          /\ toServer' = IF cut THEN toServer ELSE toServer \o rs
          /\ UNCHANGED open
       \/ /\ cut
          /\ open' = FALSE /\ call' = Idle
          /\ UNCHANGED toServer
    /\ UNCHANGED <<spoilt, cut, toClient, out, subs>>

MaySend(n) == open /\ call.op = "idle" /\ asked + n <= MaxRequests

\* Connection.send_command
SendCommand ==
    /\ MaySend(1)
    /\ Sends(<<Request(asked + 1, "command", {})>>, Call("command", asked + 1, 1, {}, "none"))

\* Mutated form of SendPipeline: SUBSCRIBE is allowed in a pipeline.
SendPipelineAny(n) ==
    /\ MaySend(n)
    /\ \E op \in {"command", "SUBSCRIBE"} :
          Sends([i \in 1 .. n |-> Request(asked + i, op, Channels)],
                Call("pipeline", asked + 1, n, {}, "none"))

\* Pipeline.execute and Connection.send_pipeline.  No command of a pipeline has
\* more than one answer: those are blocked.
SendPipeline(n) ==
    /\ MaySend(n)
    /\ Sends([i \in 1 .. n |-> Request(asked + i, "command", {})],
             Call("pipeline", asked + 1, n, {}, "none"))

\* TestCore.subscribe, TestCore.listen
Subscribe(channels, kind) ==
    /\ MaySend(1)
    /\ Sends(<<Request(asked + 1, "SUBSCRIBE", channels)>>,
             Call("confirm", asked + 1, Cardinality(channels), channels, kind))

\* The end of listen(): it sends UNSUBSCRIBE and will read as many messages as
\* it has subscribed to channels.
Leaves ==
    /\ asked < MaxRequests
    /\ Sends(<<Request(asked + 1, "UNSUBSCRIBE", {})>>,
             Call("drain", asked + 1, Cardinality(call.channels), {}, "none"))

\* Where the call is after one of the messages it waits for.
AfterRead ==
    IF call.wait > 1 THEN [call EXCEPT !.wait = @ - 1, !.id = IF call.op = "pipeline" THEN @ + 1 ELSE @]
    ELSE IF call.op = "confirm" THEN [call EXCEPT !.wait = 0, !.op = "listening"]
    ELSE Idle

\* _parse_one returns a message to a call that counts them.  A confirmation is
\* not looked at: an event does as well.
Read ==
    /\ open /\ call.wait > 0 /\ toClient # <<>>
    /\ call' = AfterRead
    /\ spoilt' = IF call.op \in {"confirm", "drain"} /\ Head(toClient) = 0
                 THEN spoilt \cup {"event"} ELSE spoilt
    /\ toClient' = Tail(toClient)
    /\ UNCHANGED <<open, asked, cut, toServer, out, subs>>

\* subscribe() and listen() take a message; an event goes to the user, what is
\* not one is dropped.
Listen ==
    /\ open /\ call.op = "listening" /\ toClient # <<>>
    /\ toClient' = Tail(toClient)
    /\ UNCHANGED <<clientVars, cut, toServer, out, subs>>

\* The user of listen() leaves its loop at an event.
Break ==
    /\ open /\ call.op = "listening" /\ call.kind = "listen" /\ asked < MaxRequests
    /\ toClient # <<>> /\ Head(toClient) = 0
    /\ asked' = asked + 1
    /\ call' = Call("drain", asked + 1, Cardinality(call.channels), {}, "none")
    /\ toClient' = Tail(toClient)
    /\ toServer' = IF cut THEN toServer ELSE Append(toServer, Request(asked + 1, "UNSUBSCRIBE", {}))
    /\ UNCHANGED <<open, spoilt, cut, out, subs>>

\* Mutated form of Timeout: the socket has no timeout, listen() excepted.
TimeoutOfListeners ==
    /\ open /\ ~cut /\ call.op = "listening" /\ toClient = <<>>
    /\ IF call.kind = "listen" THEN Leaves
       ELSE /\ call' = Idle
            /\ spoilt' = spoilt \cup {"timeout"}
            /\ UNCHANGED <<open, asked, serverVars>>

\* recv() times out.  send_command, the confirmations and subscribe() pass the
\* exception on, a pipeline puts it among its results and reads on, listen()
\* leaves, and its drain ends.  The socket stays open.
Timeout ==
    /\ open /\ ~cut /\ call.op # "idle" /\ toClient = <<>>
    /\ IF call.op = "listening" /\ call.kind = "listen"
       THEN Leaves
       ELSE /\ call' = IF call.op = "pipeline" THEN AfterRead ELSE Idle
            /\ spoilt' = spoilt \cup {"timeout"}
            /\ UNCHANGED <<open, asked, serverVars>>

\* recv() returns nothing or fails: the socket is closed and the call ends (a
\* pipeline gets the same exception for all its other answers).
Eof ==
    /\ open /\ cut /\ call.op # "idle" /\ toClient = <<>>
    /\ open' = FALSE
    /\ call' = Idle
    /\ UNCHANGED <<asked, spoilt, serverVars>>

\* Mutated form of Reconnect: the bytes received before are kept.
ReconnectKeepsBuffer ==
    /\ call.op = "idle"
    /\ open' = TRUE /\ cut' = FALSE
    /\ spoilt' = {}
    /\ toServer' = <<>> /\ out' = <<>> /\ subs' = {}
    /\ UNCHANGED <<call, asked, toClient>>

\* reconnect(): a new connection with a new handler and an empty buffer.  The
\* CLIENT NAME that follows, if the client has a name, is a command.
Reconnect ==
    /\ call.op = "idle"
    /\ open' = TRUE /\ cut' = FALSE
    /\ spoilt' = {}
    /\ toServer' = <<>> /\ toClient' = <<>> /\ out' = <<>> /\ subs' = {}
    /\ UNCHANGED <<call, asked>>

-----------------------------------------------------------------------------
(* The server's handler *)

\* The response to request r has n messages.
Responds(r, n) ==
    LET response == [i \in 1 .. n |-> r.id]
    IN  /\ toServer' = Tail(toServer)
        /\ IF MonitorsThere THEN out' = response /\ UNCHANGED toClient
           ELSE toClient' = toClient \o response /\ UNCHANGED out

Handling(op) == ~cut /\ toServer # <<>> /\ out = <<>> /\ Head(toServer).op = op

\* One answer, be it an error.
HandleCommand ==
    /\ Handling("command")
    /\ Responds(Head(toServer), 1)
    /\ UNCHANGED <<clientVars, cut, subs>>

\* handle_subscribe: a confirmation per channel.
HandleSubscribe ==
    /\ Handling("SUBSCRIBE")
    /\ subs' = subs \cup Head(toServer).channels
    /\ Responds(Head(toServer), Cardinality(Head(toServer).channels))
    /\ UNCHANGED <<clientVars, cut>>

\* One error when a channel is invalid; those before it stay subscribed.
RefuseSubscribe ==
    /\ Handling("SUBSCRIBE")
    /\ \E valid \in (SUBSET Head(toServer).channels) \ {Head(toServer).channels} :
          subs' = subs \cup valid
    /\ Responds(Head(toServer), 1)
    /\ UNCHANGED <<clientVars, cut>>

\* handle_unsubscribe without arguments: one answer per subscription, or one.
HandleUnsubscribe ==
    /\ Handling("UNSUBSCRIBE")
    /\ subs' = {}
    /\ Responds(Head(toServer), IF subs = {} THEN 1 ELSE Cardinality(subs))
    /\ UNCHANGED <<clientVars, cut>>

WriteResponse ==
    /\ out # <<>>
    /\ toClient' = toClient \o out
    /\ out' = <<>>
    /\ UNCHANGED <<clientVars, cut, toServer, subs>>

\* A publication reaches the connection.
PublishEvent ==
    /\ subs # {} /\ Len(toClient) < MaxInFlight
    /\ toClient' = Append(toClient, 0)
    /\ UNCHANGED <<clientVars, cut, toServer, out, subs>>

\* The handler ends.
ServerCloses ==
    /\ ~cut
    /\ cut' = TRUE
    /\ toServer' = <<>> /\ out' = <<>> /\ subs' = {}
    /\ UNCHANGED <<clientVars, toClient>>

-----------------------------------------------------------------------------
Reading == Read \/ Listen \/ Break \/ Timeout \/ Eof

Next ==
    \/ SendCommand \/ \E n \in 1 .. MaxPipeline : SendPipeline(n)
    \/ \E channels \in (SUBSET Channels) \ {{}} : \E kind \in {"subscribe", "listen"} :
          Subscribe(channels, kind)
    \/ Reading \/ Reconnect
    \/ HandleCommand \/ HandleSubscribe \/ RefuseSubscribe \/ HandleUnsubscribe
    \/ WriteResponse \/ PublishEvent \/ ServerCloses

Spec == Init /\ [][Next]_vars

\* A read ends: by a message, or by the socket's timeout.
FairSpec == Spec /\ WF_vars(Reading)

-----------------------------------------------------------------------------
(* Properties *)

\* The messages among those of q that are answers.
Answers(q) == Cardinality({i \in DOMAIN q : q[i] # 0})

\* The answers that the handler will give to request r.
Width(r) == CASE r.op = "command" -> 1
              [] r.op = "SUBSCRIBE" -> Cardinality(r.channels)
              [] r.op = "UNSUBSCRIBE" -> IF subs = {} THEN 1 ELSE Cardinality(subs)

Owed == UNION {{i} \X (1 .. Width(toServer[i])) : i \in DOMAIN toServer}

\* Answers that are still to come out of toClient.
Outstanding == Answers(toClient) + Len(out) + Cardinality(Owed)

\* Unless a read has timed out or an event was taken for a confirmation since
\* the connection was made, the two ends agree: exactly the answers that the
\* call under way will read are to come, none when there is no call or when it
\* listens for events.  (A refused SUBSCRIBE has one answer, whatever the number
\* of channels: subscribe() then waits until it times out.)
InStep ==
    open /\ ~cut /\ spoilt = {} /\ call.op # "confirm" =>
        Outstanding = call.wait

\* Under the same condition the next message is the answer to the request it
\* will be taken for, and no event gets in between.
AnswersMatchUnless(spoilers) ==
    open /\ spoilt \subseteq spoilers /\ call.op \in {"command", "pipeline"} /\ toClient # <<>> =>
        Head(toClient) = call.id

AnswersMatch == AnswersMatchUnless({})

\* A call for answers ends, whatever the server does: each read of a pipeline
\* or of a drain has a timeout of its own.
CallEnds == call.op \in {"command", "pipeline", "confirm", "drain"} ~> call.op \in {"idle", "listening"}

-----------------------------------------------------------------------------
(* Claims that the code does not keep *)

\* "Send a RESP array command and return the parsed response"
\* (connection.py:51): also when an earlier one has timed out.
ResponseIsMine == AnswersMatchUnless({"timeout"})

\* "After break or exhaustion, sends UNSUBSCRIBE to exit subscriber mode"
\* (client.py:608): after it, the connection is one for commands again.
ListenDrains == AnswersMatchUnless({"event"})
=============================================================================
