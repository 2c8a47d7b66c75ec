----------------------------- MODULE ClientProofs -----------------------------
(***************************************************************************)
(* Proofs about ClientConnection: the library and the handler stay in step *)
(* for any number of requests, pipelines of any length and any finite set  *)
(* of channels, with monitors and without.                                 *)
(***************************************************************************)
EXTENDS ClientConnection, FiniteSetTheorems, SequenceTheorems, TLAPS

Ops == {"idle", "command", "pipeline", "confirm", "listening", "drain"}
Kinds == {"none", "subscribe", "listen"}
CallType ==
    {c \in [op : Ops, id : Nat, wait : Nat, channels : SUBSET Channels, kind : Kinds] :
        c.op = "idle" => c.wait = 0}
RequestType == [id : Nat \ {0}, op : {"command", "SUBSCRIBE", "UNSUBSCRIBE"},
                channels : SUBSET Channels]

TypeOK ==
    /\ open \in BOOLEAN /\ cut \in BOOLEAN
    /\ call \in CallType
    /\ asked \in Nat
    /\ toServer \in Seq(RequestType)
    /\ toClient \in Seq(Nat) /\ out \in Seq(Nat)
    /\ subs \in SUBSET Channels

\* A handler that has ended has nothing more to say.
CutIsSilent == cut => toServer = <<>> /\ out = <<>> /\ subs = {}

\* A response has no events in it.
OutIsAnswers == \A i \in 1 .. Len(out) : out[i] # 0

EventsOnly(q) == \A i \in 1 .. Len(q) : q[i] = 0
Numbered(q, n) == \A i \in 1 .. Len(q) : q[i] = n + i - 1

\* No call: nothing is under way.
Resting ==
    /\ toServer = <<>> /\ toClient = <<>> /\ out = <<>> /\ subs = {}
    /\ call.wait = 0

\* A command or a pipeline: what is under way are the answers it will read, in
\* their order, and the requests for the others.
Asking ==
    /\ call.wait > 0
    /\ call.op = "command" => call.wait = 1
    /\ subs = {}
    /\ call.id > 0
    /\ Numbered(toClient, call.id)
    /\ Numbered(out, call.id + Len(toClient))
    /\ \A i \in 1 .. Len(toServer) :
          /\ toServer[i].op = "command"
          /\ toServer[i].id = call.id + Len(toClient) + Len(out) + i - 1
    /\ Len(toClient) + Len(out) + Len(toServer) <= call.wait
    /\ ~cut => Len(toClient) + Len(out) + Len(toServer) = call.wait

\* The two ends agree on the number of answers UNSUBSCRIBE will get: also when
\* the only channel asked for was refused.
Agreed ==
    \/ subs = call.channels
    \/ subs = {} /\ Cardinality(call.channels) = 1

\* subscribe() and listen(), waiting for as many messages as channels.
Confirming ==
    /\ call.wait > 0 /\ call.channels # {}
    /\ toServer # <<>> =>
          /\ Len(toServer) = 1
          /\ toServer[1].op = "SUBSCRIBE" /\ toServer[1].channels = call.channels
          /\ toClient = <<>> /\ out = <<>> /\ subs = {}
          /\ call.wait = Cardinality(call.channels)
    /\ toServer = <<>> =>
          /\ Answers(toClient) + Len(out) <= call.wait
          /\ cut \/ Answers(toClient) + Len(out) < call.wait \/ Agreed

\* After them, only events are under way.
Listening ==
    /\ call.wait = 0 /\ call.channels # {}
    /\ toServer = <<>> /\ out = <<>>
    /\ EventsOnly(toClient)
    /\ cut \/ Agreed

\* The end of listen(): events come before the answers to UNSUBSCRIBE.
Draining ==
    /\ call.wait > 0
    /\ toServer # <<>> =>
          /\ Len(toServer) = 1
          /\ toServer[1].op = "UNSUBSCRIBE"
          /\ EventsOnly(toClient) /\ out = <<>>
          /\ call.wait = IF subs = {} THEN 1 ELSE Cardinality(subs)
    /\ toServer = <<>> =>
          /\ subs = {}
          /\ \A i, j \in 1 .. Len(toClient) : i <= j /\ toClient[i] # 0 => toClient[j] # 0
          /\ Answers(toClient) + Len(out) <= call.wait
          /\ ~cut => Answers(toClient) + Len(out) = call.wait

\* The state of a connection on which nothing has gone wrong, by the phase of
\* the call.
Phases ==
    /\ call.op = "idle" => Resting
    /\ call.op \in {"command", "pipeline"} => Asking
    /\ call.op = "confirm" => Confirming
    /\ call.op = "listening" => Listening
    /\ call.op = "drain" => Draining

\* The inductive invariant.
CInv ==
    /\ TypeOK
    /\ CutIsSilent
    /\ OutIsAnswers
    /\ open /\ spoilt = {} => Phases
-----------------------------------------------------------------------------
(* Counting answers *)

\* The positions of a response.
LEMMA IntervalSize ==
  ASSUME NEW m \in Nat, NEW n \in Nat
  PROVE  /\ IsFiniteSet(m + 1 .. m + n) /\ Cardinality(m + 1 .. m + n) = n
         /\ IsFiniteSet(1 .. n) /\ Cardinality(1 .. n) = n
  <1>1. /\ IsFiniteSet(m + 1 .. m + n)
        /\ Cardinality(m + 1 .. m + n) = IF m + 1 > m + n THEN 0 ELSE (m + n) - (m + 1) + 1
    <2>1. m + 1 \in Int /\ m + n \in Int
      OBVIOUS
    <2>. QED
      BY <2>1, FS_Interval, Zenon
  <1>2. /\ IsFiniteSet(1 .. n)
        /\ Cardinality(1 .. n) = IF 1 > n THEN 0 ELSE n - 1 + 1
    <2>1. 1 \in Int /\ n \in Int
      OBVIOUS
    <2>. QED
      BY <2>1, FS_Interval, Zenon
  <1>. QED
    BY <1>1, <1>2

AnswersAt(q) == {i \in 1 .. Len(q) : q[i] # 0}

\* The answers in a sequence are finitely many; none means events only.
LEMMA AnswersType ==
  ASSUME NEW q \in Seq(Nat)
  PROVE  /\ Answers(q) = Cardinality(AnswersAt(q)) /\ IsFiniteSet(AnswersAt(q))
         /\ Answers(q) \in Nat
         /\ Answers(q) = 0 <=> EventsOnly(q)
  <1>1. Len(q) \in Nat /\ DOMAIN q = 1 .. Len(q)
    BY LenProperties
  <1>2. Answers(q) = Cardinality(AnswersAt(q))
    BY <1>1 DEF Answers, AnswersAt
  <1>3. IsFiniteSet(AnswersAt(q))
    <2>1. IsFiniteSet(1 .. Len(q)) /\ AnswersAt(q) \in SUBSET (1 .. Len(q))
      BY <1>1, IntervalSize DEF AnswersAt
    <2>. QED
      BY <2>1, FS_Subset
  <1>4. Answers(q) \in Nat
    BY <1>2, <1>3, FS_CardinalityType
  <1>5. Answers(q) = 0 <=> AnswersAt(q) = {}
    BY <1>2, <1>3, FS_EmptySet
  <1>6. AnswersAt(q) = {} <=> EventsOnly(q)
    BY DEF AnswersAt, EventsOnly
  <1>. QED
    BY <1>2, <1>3, <1>4, <1>5, <1>6

\* A sequence without events.
LEMMA AnswersOfAll ==
  ASSUME NEW q \in Seq(Nat), \A i \in 1 .. Len(q) : q[i] # 0
  PROVE  Answers(q) = Len(q)
  <1>1. AnswersAt(q) = 1 .. Len(q)
    BY DEF AnswersAt
  <1>2. Len(q) \in Nat
    BY LenProperties
  <1>3. Cardinality(1 .. Len(q)) = Len(q)
    BY <1>2, IntervalSize
  <1>. QED
    BY <1>1, <1>3, AnswersType

\* Nothing under way.
LEMMA NoAnswers == Answers(<<>>) = 0 /\ Len(<<>>) = 0
  <1>1. <<>> \in Seq(Nat) /\ Len(<<>>) = 0
    BY EmptySeq
  <1>2. EventsOnly(<<>>)
    BY <1>1 DEF EventsOnly
  <1>. QED
    BY <1>1, <1>2, AnswersType

\* A message is taken.
LEMMA AnswersOfTail ==
  ASSUME NEW q \in Seq(Nat), q # <<>>
  PROVE  Answers(q) = Answers(Tail(q)) + IF Head(q) = 0 THEN 0 ELSE 1
  <1>. DEFINE A == AnswersAt(Tail(q))
              B == AnswersAt(q) \ {1}
              f == [i \in A |-> i + 1]
  <1>1. /\ Tail(q) \in Seq(Nat) /\ Len(q) \in Nat /\ Len(q) > 0
        /\ Len(Tail(q)) = Len(q) - 1
        /\ \A i \in 1 .. Len(q) - 1 : Tail(q)[i] = q[i + 1]
        /\ Head(q) = q[1]
    BY HeadTailProperties, LenProperties, EmptySeq
  <1>2. f \in [A -> B]
    BY <1>1 DEF AnswersAt
  <1>3. \A i, j \in A : f[i] = f[j] => i = j
    BY <1>1 DEF AnswersAt
  <1>4. \A j \in B : \E i \in A : f[i] = j
    <2>. TAKE j \in B
    <2>1. j - 1 \in A /\ f[j - 1] = j
      BY <1>1 DEF AnswersAt
    <2>. QED
      BY <2>1
  <1>5. ExistsBijection(A, B)
    BY <1>2, <1>3, <1>4
       DEF ExistsBijection, Bijection, Injection, Surjection, IsInjective
  <1>. HIDE DEF f
  <1>6. IsFiniteSet(A) /\ Answers(Tail(q)) = Cardinality(A) /\ Cardinality(A) \in Nat
    BY <1>1, AnswersType
  <1>7. IsFiniteSet(AnswersAt(q)) /\ Answers(q) = Cardinality(AnswersAt(q)) /\ Answers(q) \in Nat
    BY AnswersType
  <1>8. Cardinality(B) = Cardinality(A)
    BY <1>5, <1>6, FS_Bijection
  <1>9. Cardinality(B) = IF 1 \in AnswersAt(q) THEN Answers(q) - 1 ELSE Answers(q)
    BY <1>7, FS_RemoveElement
  <1>10. 1 \in AnswersAt(q) <=> Head(q) # 0
    BY <1>1 DEF AnswersAt
  <1>. QED
    <2>. HIDE DEF A, B
    <2>. QED
      BY <1>6, <1>7, <1>8, <1>9, <1>10

\* A response joins the messages that are under way.
LEMMA AnswersOfConcat ==
  ASSUME NEW q \in Seq(Nat), NEW r \in Seq(Nat), \A i \in 1 .. Len(r) : r[i] # 0
  PROVE  Answers(q \o r) = Answers(q) + Len(r)
  <1>. DEFINE N == Len(q) + 1 .. Len(q) + Len(r)
  <1>1. /\ q \o r \in Seq(Nat) /\ Len(q) \in Nat /\ Len(r) \in Nat
        /\ Len(q \o r) = Len(q) + Len(r)
        /\ \A i \in 1 .. Len(q) + Len(r) :
              (q \o r)[i] = IF i <= Len(q) THEN q[i] ELSE r[i - Len(q)]
    BY ConcatProperties, LenProperties
  <1>2. AnswersAt(q \o r) = AnswersAt(q) \cup N
    BY <1>1 DEF AnswersAt
  <1>3. AnswersAt(q) \cap N = {}
    BY <1>1 DEF AnswersAt
  <1>4. IsFiniteSet(N) /\ Cardinality(N) = Len(r)
    BY <1>1, IntervalSize
  <1>. HIDE DEF N
  <1>5. Cardinality(AnswersAt(q) \cup N) = Answers(q) + Len(r)
    <2>1. IsFiniteSet(AnswersAt(q)) /\ Cardinality(AnswersAt(q)) = Answers(q)
          /\ Answers(q) \in Nat
      BY AnswersType
    <2>2. Cardinality(AnswersAt(q) \cup N)
             = Cardinality(AnswersAt(q)) + Cardinality(N) - Cardinality(AnswersAt(q) \cap N)
      BY <1>4, <2>1, FS_Union
    <2>. QED
      <3>1. Cardinality(AnswersAt(q) \cap N) = 0
        BY <1>3, FS_EmptySet
      <3>. QED
        BY <1>4, <2>1, <2>2, <3>1
  <1>. QED
    BY <1>1, <1>2, <1>5, AnswersType

\* An event joins them.
LEMMA AnswersOfEvent ==
  ASSUME NEW q \in Seq(Nat)
  PROVE  Answers(Append(q, 0)) = Answers(q)
  <1>1. /\ Append(q, 0) \in Seq(Nat) /\ Len(q) \in Nat
        /\ Len(Append(q, 0)) = Len(q) + 1
        /\ \A i \in 1 .. Len(q) : Append(q, 0)[i] = q[i]
        /\ Append(q, 0)[Len(q) + 1] = 0
    BY AppendProperties, LenProperties
  <1>2. AnswersAt(Append(q, 0)) = AnswersAt(q)
    BY <1>1 DEF AnswersAt
  <1>. QED
    BY <1>1, <1>2, AnswersType

\* The number of answers that UNSUBSCRIBE gets is the one the client waits for.
LEMMA AgreedOnWidth ==
  ASSUME Agreed, call.channels # {}
  PROVE  Cardinality(call.channels) = IF subs = {} THEN 1 ELSE Cardinality(subs)
  BY DEF Agreed

-----------------------------------------------------------------------------
(* The client's steps *)

\* A send that goes out, or fails.
LEMMA SendsStep ==
  ASSUME CInv, NEW rs \in Seq(RequestType), NEW c \in CallType, Sends(rs, c),
         open /\ spoilt = {} /\ call' = c
            /\ toServer' = (IF cut THEN toServer ELSE toServer \o rs) => Phases'
  PROVE  CInv'
  <1>. USE DEF Sends
  <1>1. Idle \in CallType
    BY DEF Idle, Call, CallType, Ops, Kinds
  <1>2. Len(rs) \in Nat /\ toServer \o rs \in Seq(RequestType)
    BY LenProperties, ConcatProperties DEF CInv, TypeOK
  <1>3. TypeOK'
    <2>1. asked' \in Nat
      BY <1>2 DEF CInv, TypeOK
    <2>2. toServer' \in Seq(RequestType)
      BY <1>2 DEF CInv, TypeOK
    <2>3. call' \in CallType
      BY <1>1
    <2>4. open' \in BOOLEAN
      BY DEF CInv, TypeOK
    <2>. QED
      BY <2>1, <2>2, <2>3, <2>4 DEF CInv, TypeOK
  <1>4. CutIsSilent' /\ OutIsAnswers'
    BY DEF CInv, CutIsSilent, OutIsAnswers
  <1>. QED
    BY <1>3, <1>4 DEF CInv

\* A command or a pipeline is sent when nothing is under way.
LEMMA AskStep ==
  ASSUME CInv, open, call.op = "idle", NEW n \in Nat \ {0},
         NEW op \in {"command", "pipeline"}, op = "command" => n = 1,
         NEW rs, rs = [i \in 1 .. n |-> Request(asked + i, "command", {})],
         Sends(rs, Call(op, asked + 1, n, {}, "none"))
  PROVE  CInv'
  <1>. DEFINE c == Call(op, asked + 1, n, {}, "none")
  <1>1. asked \in Nat
    BY DEF CInv, TypeOK
  <1>2. rs \in Seq(RequestType) /\ Len(rs) = n
    <2>1. \A i \in 1 .. n : Request(asked + i, "command", {}) \in RequestType
      BY <1>1 DEF Request, RequestType
    <2>2. rs \in [1 .. n -> RequestType]
      BY <2>1
    <2>. QED
      BY <2>2
  <1>3. c \in CallType
    BY <1>1 DEF Call, CallType, Ops, Kinds
  <1>4. ASSUME spoilt = {}, call' = c,
               toServer' = IF cut THEN toServer ELSE toServer \o rs
        PROVE  Phases'
    <2>1. /\ toServer = <<>> /\ toClient = <<>> /\ out = <<>> /\ subs = {}
          /\ toClient' = <<>> /\ out' = <<>> /\ subs' = {} /\ cut' = cut
      BY <1>4 DEF CInv, Phases, Resting, Sends
    <2>2. toServer' = IF cut THEN <<>> ELSE rs
      BY <1>2, <1>4, <2>1, ConcatEmptySeq
    <2>3. Len(toClient') = 0 /\ Len(out') = 0
      BY <2>1, EmptySeq
    <2>4. \A i \in 1 .. n : rs[i].op = "command" /\ rs[i].id = asked + i
      BY DEF Request
    <2>5. call'.op = op /\ call'.id = asked + 1 /\ call'.wait = n
      BY <1>4 DEF Call
    <2>6. Len(toServer') = IF cut THEN 0 ELSE n
      BY <1>2, <2>2, EmptySeq
    <2>7. Asking'
      <3>. HIDE DEF c
      <3>1. Numbered(toClient, call.id)' /\ Numbered(out, call.id + Len(toClient))'
        BY <2>3 DEF Numbered
      <3>2. \A i \in 1 .. Len(toServer') :
               /\ toServer'[i].op = "command"
               /\ toServer'[i].id = call'.id + Len(toClient') + Len(out') + i - 1
        BY <1>1, <2>2, <2>3, <2>4, <2>5, <2>6
      <3>. QED
        BY <1>1, <2>1, <2>3, <2>5, <2>6, <3>1, <3>2 DEF Asking
    <2>. QED
      BY <2>5, <2>7 DEF Phases
  <1>. QED
    BY <1>2, <1>3, <1>4, SendsStep

\* Connection.send_command keeps the invariant.
LEMMA SendCommandStep ==
  ASSUME CInv, SendCommand
  PROVE  CInv'
  <1>. DEFINE rs == <<Request(asked + 1, "command", {})>>
  <1>1. rs = [i \in 1 .. 1 |-> Request(asked + i, "command", {})]
    OBVIOUS
  <1>2. open /\ call.op = "idle" /\ Sends(rs, Call("command", asked + 1, 1, {}, "none"))
    BY DEF SendCommand, MaySend
  <1>3. 1 \in Nat \ {0} /\ "command" \in {"command", "pipeline"}
    OBVIOUS
  <1>. HIDE DEF rs
  <1>. QED
    BY <1>1, <1>2, <1>3, AskStep, Zenon

\* So does Connection.send_pipeline.
LEMMA SendPipelineStep ==
  ASSUME CInv, NEW n \in 1 .. MaxPipeline, SendPipeline(n)
  PROVE  CInv'
  <1>. DEFINE rs == [i \in 1 .. n |-> Request(asked + i, "command", {})]
  <1>1. n \in Nat \ {0}
    BY BoundAssumption
  <1>2. open /\ call.op = "idle" /\ Sends(rs, Call("pipeline", asked + 1, n, {}, "none"))
    BY DEF SendPipeline, MaySend
  <1>3. rs = [i \in 1 .. n |-> Request(asked + i, "command", {})]
    OBVIOUS
  <1>. HIDE DEF rs
  <1>. QED
    BY <1>1, <1>2, <1>3, AskStep

\* The number of channels is a number.
LEMMA ChannelCount ==
  ASSUME NEW cs \in SUBSET Channels
  PROVE  /\ Cardinality(cs) \in Nat
         /\ cs # {} => Cardinality(cs) > 0
  BY ChannelsAssumption, FS_Subset, FS_CardinalityType, FS_EmptySet

\* A sequence of one request.
LEMMA OneRequest ==
  ASSUME NEW S, NEW r \in S
  PROVE  <<r>> \in Seq(S) /\ Len(<<r>>) = 1 /\ <<r>>[1] = r /\ <<r>> # <<>>
  OBVIOUS

\* subscribe() and listen() send SUBSCRIBE when nothing is under way.
LEMMA SubscribeStep ==
  ASSUME CInv, NEW cs \in (SUBSET Channels) \ {{}}, NEW kind \in {"subscribe", "listen"},
         Subscribe(cs, kind)
  PROVE  CInv'
  <1>. DEFINE r == Request(asked + 1, "SUBSCRIBE", cs)
              c == Call("confirm", asked + 1, Cardinality(cs), cs, kind)
  <1>1. asked \in Nat /\ Cardinality(cs) \in Nat /\ Cardinality(cs) > 0
    BY ChannelCount DEF CInv, TypeOK
  <1>2. r \in RequestType /\ c \in CallType
    BY <1>1 DEF Request, RequestType, Call, CallType, Ops, Kinds
  <1>3. open /\ call.op = "idle" /\ Sends(<<r>>, c)
    BY DEF Subscribe, MaySend
  <1>4. /\ r.op = "SUBSCRIBE" /\ r.channels = cs
        /\ c.op = "confirm" /\ c.wait = Cardinality(cs) /\ c.channels = cs
    BY DEF Request, Call
  <1>. HIDE DEF r, c
  <1>5. ASSUME spoilt = {}, call' = c,
               toServer' = IF cut THEN toServer ELSE toServer \o <<r>>
        PROVE  Phases'
    <2>1. /\ toServer = <<>>
          /\ toClient' = <<>> /\ out' = <<>> /\ subs' = {} /\ cut' = cut
      BY <1>3, <1>5 DEF CInv, Phases, Resting, Sends
    <2>2. toServer' = IF cut THEN <<>> ELSE <<r>>
      BY <1>2, <1>5, <2>1, OneRequest, ConcatEmptySeq
    <2>3. Answers(toClient') = 0 /\ Len(out') = 0
      BY <2>1, NoAnswers
    <2>4. Confirming'
      BY <1>1, <1>2, <1>4, <1>5, <2>1, <2>2, <2>3, OneRequest DEF Confirming
    <2>. QED
      BY <1>4, <1>5, <2>4 DEF Phases
  <1>. QED
    BY <1>2, <1>3, <1>5, OneRequest, SendsStep

\* listen() sends UNSUBSCRIBE while only events are under way: the client will
\* wait for as many answers as the handler will give.
LEMMA DrainBegins ==
  ASSUME Listening, CutIsSilent, call.channels \in SUBSET Channels, asked \in Nat,
         toClient \in Seq(Nat),
         NEW r, r = Request(asked + 1, "UNSUBSCRIBE", {}),
         call' = Call("drain", asked + 1, Cardinality(call.channels), {}, "none"),
         toServer' = IF cut THEN <<>> ELSE <<r>>,
         toClient' \in Seq(Nat), EventsOnly(toClient)', UNCHANGED <<out, subs, cut>>
  PROVE  Phases'
  <1>1. r \in RequestType /\ r.op = "UNSUBSCRIBE"
    BY DEF Request, RequestType
  <1>2. Cardinality(call.channels) \in Nat /\ Cardinality(call.channels) > 0
    BY ChannelCount DEF Listening
  <1>3. call'.op = "drain" /\ call'.wait = Cardinality(call.channels)
    BY DEF Call
  <1>4. Answers(toClient') = 0 /\ Len(out') = 0
    BY AnswersType, NoAnswers DEF Listening, EventsOnly
  <1>5. ASSUME toServer' # <<>>
        PROVE  /\ toServer' = <<r>>
               /\ call'.wait = IF subs' = {} THEN 1 ELSE Cardinality(subs')
    <2>1. ~cut
      BY <1>5
    <2>2. Agreed
      BY <2>1 DEF Listening
    <2>. QED
      BY <1>3, <2>1, <2>2, AgreedOnWidth DEF Listening
  <1>6. ASSUME toServer' = <<>> PROVE cut /\ subs' = {}
    <2>1. cut
      BY <1>1, <1>6, OneRequest
    <2>. QED
      BY <2>1 DEF CutIsSilent
  <1>7. Draining'
    <2>1. toServer' # <<>> =>
             /\ Len(toServer') = 1 /\ toServer'[1].op = "UNSUBSCRIBE"
             /\ EventsOnly(toClient') /\ out' = <<>>
             /\ call'.wait = IF subs' = {} THEN 1 ELSE Cardinality(subs')
      BY <1>1, <1>5, OneRequest DEF Listening, EventsOnly
    <2>2. toServer' = <<>> =>
             /\ subs' = {} /\ cut'
             /\ \A i, j \in 1 .. Len(toClient') : i <= j /\ toClient'[i] # 0 => toClient'[j] # 0
             /\ Answers(toClient') + Len(out') <= call'.wait
      <3>1. Answers(toClient') + Len(out') <= call'.wait
        BY <1>2, <1>3, <1>4
      <3>2. \A i, j \in 1 .. Len(toClient') :
               i <= j /\ toClient'[i] # 0 => toClient'[j] # 0
        BY DEF EventsOnly
      <3>. QED
        BY <1>6, <3>1, <3>2
    <2>. QED
      BY <1>2, <1>3, <2>1, <2>2 DEF Draining
  <1>. QED
    BY <1>3, <1>7 DEF Phases

\* The type of a request and of the call for its answers.
LEMMA DrainTypes ==
  ASSUME TypeOK
  PROVE  /\ Request(asked + 1, "UNSUBSCRIBE", {}) \in RequestType
         /\ Call("drain", asked + 1, Cardinality(call.channels), {}, "none") \in CallType
  <1>1. asked \in Nat /\ Cardinality(call.channels) \in Nat
    BY ChannelCount DEF TypeOK, CallType
  <1>. QED
    BY <1>1 DEF Request, RequestType, Call, CallType, Ops, Kinds

\* listen() ends with UNSUBSCRIBE, with as many answers as it will read.
LEMMA LeavesStep ==
  ASSUME CInv, open, call.op = "listening", Leaves
  PROVE  CInv'
  <1>. DEFINE r == Request(asked + 1, "UNSUBSCRIBE", {})
              c == Call("drain", asked + 1, Cardinality(call.channels), {}, "none")
  <1>0. TypeOK /\ CutIsSilent /\ Sends(<<r>>, c)
    BY DEF CInv, Leaves
  <1>1. r \in RequestType /\ c \in CallType /\ call.channels \in SUBSET Channels
    BY <1>0, DrainTypes DEF TypeOK, CallType
  <1>2. ASSUME spoilt = {}, call' = c,
               toServer' = IF cut THEN toServer ELSE toServer \o <<r>>
        PROVE  Phases'
    <2>1. Listening
      BY <1>2 DEF CInv, Phases
    <2>2. UNCHANGED <<toClient, out, subs, cut>>
      BY <1>0 DEF Sends
    <2>. HIDE DEF r
    <2>3. toServer' = IF cut THEN <<>> ELSE <<r>>
      BY <1>1, <1>2, <2>1, OneRequest, ConcatEmptySeq DEF Listening
    <2>4. toClient' \in Seq(Nat) /\ EventsOnly(toClient)'
      BY <1>0, <2>1, <2>2 DEF TypeOK, Listening, EventsOnly
    <2>. QED
      BY <1>0, <1>1, <1>2, <2>1, <2>2, <2>3, <2>4, DrainBegins DEF TypeOK, r
  <1>. HIDE DEF r, c
  <1>. QED
    BY <1>0, <1>1, <1>2, OneRequest, SendsStep

\* What is left when the first message is taken.
LEMMA TailTypes ==
  ASSUME TypeOK, toClient # <<>>
  PROVE  /\ Tail(toClient) \in Seq(Nat) /\ Len(toClient) \in Nat /\ Len(toClient) > 0
         /\ Len(Tail(toClient)) = Len(toClient) - 1
         /\ \A i \in 1 .. Len(toClient) - 1 : Tail(toClient)[i] = toClient[i + 1]
         /\ Head(toClient) = toClient[1]
         /\ EventsOnly(toClient) => EventsOnly(Tail(toClient))
  <1>1. /\ Tail(toClient) \in Seq(Nat) /\ Len(toClient) \in Nat /\ Len(toClient) > 0
        /\ Len(Tail(toClient)) = Len(toClient) - 1
        /\ \A i \in 1 .. Len(toClient) - 1 : Tail(toClient)[i] = toClient[i + 1]
        /\ Head(toClient) = toClient[1]
    BY HeadTailProperties, LenProperties, EmptySeq DEF TypeOK
  <1>2. ASSUME EventsOnly(toClient) PROVE EventsOnly(Tail(toClient))
    BY <1>1, <1>2 DEF EventsOnly
  <1>. QED
    BY <1>1, <1>2

\* The user breaks out of listen() at an event.
LEMMA BreakStep ==
  ASSUME CInv, Break
  PROVE  CInv'
  <1>. DEFINE r == Request(asked + 1, "UNSUBSCRIBE", {})
  <1>0. /\ TypeOK /\ CutIsSilent /\ OutIsAnswers
        /\ open /\ call.op = "listening" /\ toClient # <<>>
        /\ asked' = asked + 1
        /\ call' = Call("drain", asked + 1, Cardinality(call.channels), {}, "none")
        /\ toClient' = Tail(toClient)
        /\ toServer' = IF cut THEN toServer ELSE Append(toServer, r)
        /\ UNCHANGED <<open, spoilt, cut, out, subs>>
    BY DEF CInv, Break
  <1>1. /\ r \in RequestType /\ call' \in CallType
        /\ call.channels \in SUBSET Channels /\ asked \in Nat
    BY <1>0, DrainTypes DEF TypeOK, CallType
  <1>. HIDE DEF r
  <1>2. toClient' \in Seq(Nat)
    BY <1>0, TailTypes
  <1>3. toServer' \in Seq(RequestType)
    BY <1>0, <1>1, AppendProperties DEF TypeOK
  <1>4. TypeOK' /\ CutIsSilent' /\ OutIsAnswers'
    BY <1>0, <1>1, <1>2, <1>3 DEF TypeOK, CutIsSilent, OutIsAnswers
  <1>5. ASSUME spoilt = {} PROVE Phases'
    <2>1. Listening
      BY <1>0, <1>5 DEF CInv, Phases
    <2>2. toServer' = IF cut THEN <<>> ELSE <<r>>
      <3>1. toServer = <<>> /\ Append(<<>>, r) = <<r>>
        BY <2>1 DEF Listening
      <3>. QED
        BY <1>0, <3>1
    <2>3. EventsOnly(toClient)'
      BY <1>0, <2>1, TailTypes DEF Listening
    <2>. QED
      BY <1>0, <1>1, <1>2, <2>1, <2>2, <2>3, DrainBegins DEF TypeOK, r
  <1>. QED
    BY <1>0, <1>4, <1>5 DEF CInv

\* An event goes to the user.
LEMMA ListenStep ==
  ASSUME CInv, Listen
  PROVE  CInv'
  <1>0. /\ TypeOK /\ CutIsSilent /\ OutIsAnswers
        /\ call.op = "listening" /\ toClient # <<>> /\ toClient' = Tail(toClient)
        /\ UNCHANGED <<open, call, asked, spoilt, cut, toServer, out, subs>>
    BY DEF CInv, Listen, clientVars
  <1>1. TypeOK' /\ CutIsSilent' /\ OutIsAnswers'
    BY <1>0, TailTypes DEF TypeOK, CutIsSilent, OutIsAnswers
  <1>2. ASSUME open, spoilt = {} PROVE Phases'
    <2>1. Listening
      BY <1>0, <1>2 DEF CInv, Phases
    <2>2. EventsOnly(toClient')
      BY <1>0, <2>1, TailTypes DEF Listening
    <2>3. Listening'
      BY <1>0, <2>1, <2>2 DEF Listening, Agreed, EventsOnly
    <2>. QED
      BY <1>0, <2>3 DEF Phases
  <1>. QED
    BY <1>0, <1>1, <1>2 DEF CInv

-----------------------------------------------------------------------------
(* Reading *)

\* The call after one of its messages is again a call.
LEMMA AfterReadType ==
  ASSUME TypeOK, call.wait > 0
  PROVE  /\ Idle \in CallType /\ Idle.op = "idle" /\ Idle.wait = 0
         /\ AfterRead \in CallType
         /\ call.wait > 1 =>
               /\ AfterRead.wait = call.wait - 1 /\ AfterRead.op = call.op
               /\ AfterRead.channels = call.channels
               /\ AfterRead.id = IF call.op = "pipeline" THEN call.id + 1 ELSE call.id
         /\ call.wait = 1 /\ call.op = "confirm" =>
               /\ AfterRead.op = "listening" /\ AfterRead.wait = 0
               /\ AfterRead.channels = call.channels
         /\ call.wait = 1 /\ call.op # "confirm" => AfterRead = Idle
  <1>1. Idle \in CallType /\ Idle.op = "idle" /\ Idle.wait = 0
    BY DEF Idle, Call, CallType, Ops, Kinds
  <1>2. call \in CallType
    BY DEF TypeOK
  <1>3. CASE call.wait > 1
    <2>. DEFINE i == IF call.op = "pipeline" THEN call.id + 1 ELSE call.id
                w == call.wait - 1
    <2>1. AfterRead = [call EXCEPT !.wait = w, !.id = i]
      BY <1>3 DEF AfterRead
    <2>2. i \in Nat /\ w \in Nat
      BY <1>2, <1>3 DEF CallType
    <2>. HIDE DEF i, w
    <2>3. /\ AfterRead \in CallType
          /\ AfterRead.wait = w /\ AfterRead.op = call.op /\ AfterRead.id = i
          /\ AfterRead.channels = call.channels
      <3>1. call.op # "idle"
        BY <1>2, <1>3 DEF CallType
      <3>2. /\ AfterRead \in [op : Ops, id : Nat, wait : Nat, channels : SUBSET Channels,
                              kind : Kinds]
            /\ AfterRead.wait = w /\ AfterRead.op = call.op /\ AfterRead.id = i
            /\ AfterRead.channels = call.channels
        BY <1>2, <2>1, <2>2 DEF CallType
      <3>. QED
        BY <3>1, <3>2 DEF CallType
    <2>. QED
      BY <1>1, <1>3, <2>3 DEF i, w
  <1>4. CASE call.wait = 1 /\ call.op = "confirm"
    <2>1. AfterRead = [call EXCEPT !.wait = 0, !.op = "listening"]
      BY <1>4 DEF AfterRead
    <2>2. /\ AfterRead \in CallType
          /\ AfterRead.wait = 0 /\ AfterRead.op = "listening"
          /\ AfterRead.channels = call.channels
      BY <1>2, <2>1 DEF CallType, Ops
    <2>. QED
      BY <1>1, <1>4, <2>2
  <1>5. CASE call.wait = 1 /\ call.op # "confirm"
    BY <1>1, <1>5 DEF AfterRead
  <1>6. call.wait \in Nat
    BY <1>2 DEF CallType
  <1>. QED
    BY <1>3, <1>4, <1>5, <1>6

\* What a read changes.
Taken ==
    /\ toClient # <<>> /\ call.wait > 0
    /\ call' = AfterRead /\ toClient' = Tail(toClient)
    /\ UNCHANGED <<open, cut, toServer, out, subs>>

\* A command or a pipeline reads its next answer.
LEMMA ReadsAnswer ==
  ASSUME TypeOK, CutIsSilent, call.op \in {"command", "pipeline"}, Asking, Taken
  PROVE  Phases'
  <1>1. /\ Len(toClient') = Len(toClient) - 1 /\ Len(toClient) \in Nat /\ Len(toClient) > 0
        /\ \A i \in 1 .. Len(toClient) - 1 : toClient'[i] = toClient[i + 1]
        /\ toClient' \in Seq(Nat)
    BY TailTypes DEF Taken
  <1>2. /\ Len(out) \in Nat /\ Len(toServer) \in Nat /\ call.wait \in Nat /\ call.id \in Nat
        /\ \A i \in 1 .. Len(toServer) : toServer[i].id \in Nat
    <2>1. \A i \in 1 .. Len(toServer) : toServer[i] \in RequestType
      BY ElementOfSeq DEF TypeOK
    <2>. QED
      BY <2>1, LenProperties DEF TypeOK, CallType, RequestType
  <1>3. CASE call.wait = 1
    <2>1. call' = Idle /\ Idle.op = "idle" /\ Idle.wait = 0
      BY <1>3, AfterReadType DEF Taken
    <2>2. Len(toClient') = 0 /\ Len(out) = 0 /\ Len(toServer) = 0
      BY <1>1, <1>2, <1>3 DEF Asking
    <2>3. toClient' = <<>> /\ out = <<>> /\ toServer = <<>>
      BY <1>1, <2>2, EmptySeq DEF TypeOK
    <2>4. Resting'
      BY <2>1, <2>3 DEF Resting, Asking, Taken
    <2>. QED
      BY <2>1, <2>4 DEF Phases
  <1>4. CASE call.wait > 1
    <2>1. /\ call.op = "pipeline" /\ call'.op = "pipeline"
          /\ call'.wait = call.wait - 1 /\ call'.id = call.id + 1
      BY <1>2, <1>4, AfterReadType DEF Taken, Asking
    <2>2. Numbered(toClient', call'.id)
      BY <1>1, <1>2, <2>1 DEF Numbered, Asking
    <2>3. Numbered(out', call'.id + Len(toClient'))
      BY <1>1, <1>2, <2>1 DEF Numbered, Asking, Taken
    <2>4. \A i \in 1 .. Len(toServer') :
             /\ toServer'[i].op = "command"
             /\ toServer'[i].id = call'.id + Len(toClient') + Len(out') + i - 1
      BY <1>1, <1>2, <2>1 DEF Asking, Taken
    <2>5. Asking'
      BY <1>1, <1>2, <1>4, <2>1, <2>2, <2>3, <2>4 DEF Asking, Taken, Numbered
    <2>. QED
      BY <2>1, <2>5 DEF Phases
  <1>. QED
    BY <1>2, <1>3, <1>4 DEF Taken

\* subscribe() and listen() read a confirmation.
LEMMA ReadsConfirmation ==
  ASSUME TypeOK, CutIsSilent, call.op = "confirm", Confirming, Taken, Head(toClient) # 0
  PROVE  Phases'
  <1>1. toClient' \in Seq(Nat) /\ Answers(toClient) = Answers(toClient') + 1
    BY TailTypes, AnswersOfTail DEF Taken, TypeOK
  <1>2. /\ Answers(toClient') \in Nat /\ Len(out) \in Nat /\ call.wait \in Nat
        /\ Answers(toClient') = 0 <=> EventsOnly(toClient')
    BY <1>1, AnswersType, LenProperties DEF TypeOK, CallType
  <1>3. toServer = <<>> /\ Answers(toClient) + Len(out) <= call.wait
        /\ (cut \/ Answers(toClient) + Len(out) < call.wait \/ Agreed)
    BY DEF Confirming, Taken
  <1>4. CASE call.wait > 1
    <2>1. /\ call'.op = "confirm" /\ call'.wait = call.wait - 1
          /\ call'.channels = call.channels
      BY <1>4, AfterReadType DEF Taken
    <2>2. Agreed => Agreed'
      BY <2>1 DEF Agreed, Taken
    <2>3. Confirming'
      <3>1. /\ Answers(toClient') + Len(out) <= call'.wait
            /\ cut \/ Answers(toClient') + Len(out) < call'.wait \/ Agreed'
        BY <1>1, <1>2, <1>3, <2>1, <2>2
      <3>2. call'.wait > 0 /\ call'.channels # {} /\ toServer' = <<>>
            /\ out' = out /\ cut' = cut
        BY <1>2, <1>3, <1>4, <2>1 DEF Confirming, Taken
      <3>. QED
        BY <3>1, <3>2 DEF Confirming
    <2>. QED
      BY <2>1, <2>3 DEF Phases
  <1>5. CASE call.wait = 1
    <2>1. call'.op = "listening" /\ call'.wait = 0 /\ call'.channels = call.channels
      BY <1>5, AfterReadType DEF Taken
    <2>2. Agreed => Agreed'
      BY <2>1 DEF Agreed, Taken
    <2>3. Answers(toClient') = 0 /\ Len(out) = 0 /\ (cut \/ Agreed)
      BY <1>1, <1>2, <1>3, <1>5
    <2>4. out = <<>>
      BY <2>3, EmptySeq DEF TypeOK
    <2>5. Listening'
      BY <1>2, <1>3, <2>1, <2>2, <2>3, <2>4 DEF Listening, Confirming, Taken, EventsOnly
    <2>. QED
      BY <2>1, <2>5 DEF Phases
  <1>. QED
    BY <1>2, <1>4, <1>5 DEF Taken

\* The drain of listen() reads an answer to UNSUBSCRIBE.
LEMMA ReadsDrained ==
  ASSUME TypeOK, CutIsSilent, call.op = "drain", Draining, Taken, Head(toClient) # 0
  PROVE  Phases'
  <1>0. /\ toClient' \in Seq(Nat) /\ Len(toClient') = Len(toClient) - 1
        /\ Len(toClient) \in Nat /\ Len(toClient) > 0
        /\ \A i \in 1 .. Len(toClient) - 1 : toClient'[i] = toClient[i + 1]
        /\ Head(toClient) = toClient[1]
    BY TailTypes DEF Taken
  <1>1. Answers(toClient) = Answers(toClient') + 1
    BY AnswersOfTail DEF Taken, TypeOK
  <1>2. /\ Answers(toClient') \in Nat /\ Len(out) \in Nat /\ call.wait \in Nat
    BY <1>0, AnswersType, LenProperties DEF TypeOK, CallType
  <1>3. toServer = <<>>
    BY <1>0 DEF Draining, EventsOnly
  <1>4. /\ subs = {} /\ \A j \in 1 .. Len(toClient) : toClient[j] # 0
        /\ Answers(toClient) + Len(out) <= call.wait
        /\ ~cut => Answers(toClient) + Len(out) = call.wait
    BY <1>0, <1>3 DEF Draining
  <1>5. \A j \in 1 .. Len(toClient') : toClient'[j] # 0
    BY <1>0, <1>4
  <1>6. CASE call.wait > 1
    <2>1. call'.op = "drain" /\ call'.wait = call.wait - 1
      BY <1>6, AfterReadType DEF Taken
    <2>2. Draining'
      BY <1>1, <1>2, <1>3, <1>4, <1>5, <1>6, <2>1 DEF Draining, Taken
    <2>. QED
      BY <2>1, <2>2 DEF Phases
  <1>7. CASE call.wait = 1
    <2>1. call'.op = "idle" /\ call'.wait = 0
      BY <1>7, AfterReadType DEF Taken
    <2>2. Answers(toClient') = 0 /\ Len(out) = 0
      BY <1>1, <1>2, <1>4, <1>7
    <2>3. Len(toClient') = 0
      BY <1>0, <1>5, <2>2, AnswersOfAll
    <2>4. toClient' = <<>> /\ out = <<>>
      BY <1>0, <2>2, <2>3, EmptySeq DEF TypeOK
    <2>5. Resting'
      BY <1>3, <1>4, <2>1, <2>4 DEF Resting, Taken
    <2>. QED
      BY <2>1, <2>5 DEF Phases
  <1>. QED
    BY <1>2, <1>6, <1>7 DEF Taken

\* _parse_one: the message that a call counts.
LEMMA ReadStep ==
  ASSUME CInv, Read
  PROVE  CInv'
  <1>0. /\ TypeOK /\ CutIsSilent /\ OutIsAnswers /\ Taken
        /\ asked' = asked
    BY DEF CInv, Read, Taken
  <1>1. TypeOK' /\ CutIsSilent' /\ OutIsAnswers'
    BY <1>0, TailTypes, AfterReadType DEF TypeOK, CutIsSilent, OutIsAnswers, Taken
  <1>2. ASSUME open', spoilt' = {} PROVE Phases'
    <2>1. /\ open /\ spoilt = {}
          /\ call.op \in {"confirm", "drain"} => Head(toClient) # 0
      BY <1>2 DEF Read
    <2>2. Phases
      BY <2>1 DEF CInv
    <2>3. call.op \notin {"idle", "listening"}
      BY <2>2, <1>0 DEF Phases, Resting, Listening, Taken
    <2>4. call.op \in Ops
      BY <1>0 DEF TypeOK, CallType
    <2>. QED
      BY <1>0, <2>1, <2>2, <2>3, <2>4, ReadsAnswer, ReadsConfirmation, ReadsDrained
         DEF Phases, Ops
  <1>. QED
    BY <1>0, <1>1, <1>2 DEF CInv

\* After a timeout nothing is promised, but for listen(), which leaves.
LEMMA TimeoutStep ==
  ASSUME CInv, Timeout
  PROVE  CInv'
  <1>1. CASE call.op = "listening" /\ call.kind = "listen"
    BY <1>1, LeavesStep DEF Timeout
  <1>2. CASE ~(call.op = "listening" /\ call.kind = "listen")
    <2>1. /\ TypeOK /\ CutIsSilent /\ OutIsAnswers
          /\ call' = (IF call.op = "pipeline" THEN AfterRead ELSE Idle)
          /\ spoilt' # {}
          /\ UNCHANGED <<open, asked, cut, toServer, toClient, out, subs>>
      BY <1>2 DEF Timeout, CInv, serverVars
    <2>2. Idle \in CallType /\ AfterRead \in CallType
      <3>1. Idle \in CallType
        BY DEF Idle, Call, CallType, Ops, Kinds
      <3>2. call \in CallType
        BY <2>1 DEF TypeOK
      <3>3. CASE call.wait > 0
        BY <2>1, <3>3, AfterReadType
      <3>4. CASE ~(call.wait > 0)
        <4>1. CASE call.op = "confirm"
          <5>1. AfterRead = [call EXCEPT !.wait = 0, !.op = "listening"]
            BY <3>2, <3>4, <4>1 DEF AfterRead, CallType
          <5>. QED
            BY <3>1, <3>2, <5>1 DEF CallType, Ops
        <4>2. CASE call.op # "confirm"
          BY <3>1, <3>2, <3>4, <4>2 DEF AfterRead, CallType
        <4>. QED
          BY <4>1, <4>2
      <3>. QED
        BY <3>3, <3>4
    <2>3. TypeOK' /\ CutIsSilent' /\ OutIsAnswers'
      BY <2>1, <2>2 DEF TypeOK, CutIsSilent, OutIsAnswers
    <2>. QED
      BY <2>1, <2>3 DEF CInv
  <1>. QED
    BY <1>1, <1>2

\* The end of the stream closes the socket.
LEMMA EofStep ==
  ASSUME CInv, Eof
  PROVE  CInv'
  <1>1. /\ TypeOK /\ CutIsSilent /\ OutIsAnswers
        /\ open' = FALSE /\ call' = Idle
        /\ UNCHANGED <<asked, spoilt, cut, toServer, toClient, out, subs>>
    BY DEF Eof, CInv, serverVars
  <1>2. Idle \in CallType
    BY DEF Idle, Call, CallType, Ops, Kinds
  <1>3. TypeOK' /\ CutIsSilent' /\ OutIsAnswers'
    BY <1>1, <1>2 DEF TypeOK, CutIsSilent, OutIsAnswers
  <1>. QED
    BY <1>1, <1>3 DEF CInv

\* reconnect() begins anew; a thread that is in no call waits for nothing.
LEMMA ReconnectStep ==
  ASSUME CInv, Reconnect
  PROVE  CInv'
  <1>1. /\ TypeOK /\ call.op = "idle"
        /\ open' = TRUE /\ cut' = FALSE
        /\ toServer' = <<>> /\ toClient' = <<>> /\ out' = <<>> /\ subs' = {}
        /\ UNCHANGED <<call, asked>>
    BY DEF Reconnect, CInv
  <1>2. <<>> \in Seq(RequestType) /\ <<>> \in Seq(Nat)
    BY EmptySeq
  <1>3. TypeOK' /\ CutIsSilent'
    BY <1>1, <1>2 DEF TypeOK, CutIsSilent
  <1>4. OutIsAnswers'
    BY <1>1, NoAnswers DEF OutIsAnswers
  <1>5. call.wait = 0
    BY <1>1 DEF TypeOK, CallType
  <1>6. Phases'
    BY <1>1, <1>5 DEF Phases, Resting
  <1>. QED
    BY <1>3, <1>4, <1>6 DEF CInv

-----------------------------------------------------------------------------
(* The server's steps *)

\* The handler takes the first request and gives it n answers, which wait for
\* the monitors or are written at once.
LEMMA RespondsEffect ==
  ASSUME TypeOK, toServer # <<>>, out = <<>>, NEW n \in Nat, Responds(Head(toServer), n)
  PROVE  /\ toServer' = Tail(toServer) /\ toServer' \in Seq(RequestType)
         /\ Len(toServer) \in Nat \ {0} /\ Len(toServer') = Len(toServer) - 1
         /\ \A i \in 1 .. Len(toServer) - 1 : toServer'[i] = toServer[i + 1]
         /\ Head(toServer) = toServer[1] /\ toServer[1] \in RequestType
         /\ \E r \in Seq(Nat) :
               /\ Len(r) = n /\ \A i \in 1 .. n : r[i] = toServer[1].id
               /\ \/ out' = r /\ toClient' = toClient
                  \/ out' = <<>> /\ toClient' = toClient \o r
         /\ Answers(toClient') + Len(out') = Answers(toClient) + n
         /\ toClient' \in Seq(Nat) /\ out' \in Seq(Nat) /\ OutIsAnswers'
  <1>1. /\ toServer' = Tail(toServer) /\ toServer' \in Seq(RequestType)
        /\ Len(toServer) \in Nat \ {0} /\ Len(toServer') = Len(toServer) - 1
        /\ \A i \in 1 .. Len(toServer) - 1 : toServer'[i] = toServer[i + 1]
        /\ Head(toServer) = toServer[1] /\ toServer[1] \in RequestType
    BY HeadTailProperties, LenProperties, EmptySeq DEF TypeOK, Responds
  <1>2. toServer[1].id \in Nat \ {0}
    BY <1>1 DEF RequestType
  <1>. DEFINE r == [i \in 1 .. n |-> toServer[1].id]
  <1>3. r \in Seq(Nat) /\ Len(r) = n /\ \A i \in 1 .. n : r[i] = toServer[1].id
    <2>1. r \in [1 .. n -> Nat]
      BY <1>2
    <2>. QED
      BY <2>1
  <1>4. \/ out' = r /\ toClient' = toClient
        \/ out' = <<>> /\ toClient' = toClient \o r
    BY <1>1 DEF Responds
  <1>. HIDE DEF r
  <1>5. \A i \in 1 .. Len(r) : r[i] # 0
    BY <1>2, <1>3
  <1>6. Answers(toClient \o r) = Answers(toClient) + n /\ Answers(toClient) \in Nat
    BY <1>3, <1>5, AnswersOfConcat, AnswersType DEF TypeOK
  <1>7. <<>> \in Seq(Nat) /\ Len(<<>>) = 0 /\ toClient \o r \in Seq(Nat)
    BY <1>3, EmptySeq, ConcatProperties DEF TypeOK
  <1>8. Answers(toClient') + Len(out') = Answers(toClient) + n
    <2>1. CASE out' = r /\ toClient' = toClient
      BY <1>3, <2>1
    <2>2. CASE out' = <<>> /\ toClient' = toClient \o r
      BY <1>6, <1>7, <2>2
    <2>. QED
      BY <1>4, <2>1, <2>2
  <1>9. toClient' \in Seq(Nat) /\ out' \in Seq(Nat) /\ OutIsAnswers'
    <2>1. CASE out' = r /\ toClient' = toClient
      BY <1>3, <1>5, <2>1 DEF TypeOK, OutIsAnswers
    <2>2. CASE out' = <<>> /\ toClient' = toClient \o r
      <3>1. \A i \in 1 .. Len(out') : out'[i] # 0
        BY <1>7, <2>2
      <3>. QED
        BY <1>7, <2>2, <3>1 DEF OutIsAnswers
    <2>. QED
      BY <1>4, <2>1, <2>2
  <1>. QED
    BY <1>1, <1>3, <1>4, <1>8, <1>9

\* So a handler's step keeps the types.
LEMMA HandlesTypes ==
  ASSUME TypeOK, ~cut, toServer # <<>>, out = <<>>, NEW n \in Nat,
         Responds(Head(toServer), n), UNCHANGED <<clientVars, cut>>,
         subs' \in SUBSET Channels
  PROVE  TypeOK' /\ CutIsSilent' /\ OutIsAnswers'
  BY RespondsEffect DEF TypeOK, CutIsSilent, clientVars

\* Which phase a request belongs to.
LEMMA PhaseOfRequest ==
  ASSUME TypeOK, Phases, toServer # <<>>
  PROVE  /\ toServer[1].op = "command" => call.op \in {"command", "pipeline"} /\ Asking
         /\ toServer[1].op = "SUBSCRIBE" => call.op = "confirm" /\ Confirming
         /\ toServer[1].op = "UNSUBSCRIBE" => call.op = "drain" /\ Draining
  <1>1. 1 \in 1 .. Len(toServer)
    BY EmptySeq DEF TypeOK
  <1>2. call.op \in Ops
    BY DEF TypeOK, CallType
  <1>3. call.op \notin {"idle", "listening"}
    BY DEF Phases, Resting, Listening
  <1>. QED
    BY <1>1, <1>2, <1>3 DEF Ops, Phases, Asking, Confirming, Draining

\* A command's answer is the one that is due.
LEMMA HandleCommandStep ==
  ASSUME CInv, HandleCommand
  PROVE  CInv'
  <1>0. /\ TypeOK /\ ~cut /\ toServer # <<>> /\ out = <<>>
        /\ Responds(Head(toServer), 1) /\ Head(toServer).op = "command"
        /\ UNCHANGED <<open, call, asked, spoilt, cut, subs>>
    BY DEF CInv, HandleCommand, Handling, clientVars
  <1>1. TypeOK' /\ CutIsSilent' /\ OutIsAnswers'
    BY <1>0, HandlesTypes DEF TypeOK, clientVars
  <1>2. /\ Len(toServer) \in Nat \ {0} /\ Len(toServer') = Len(toServer) - 1
        /\ \A i \in 1 .. Len(toServer) - 1 : toServer'[i] = toServer[i + 1]
        /\ Head(toServer) = toServer[1]
    BY <1>0, RespondsEffect
  <1>3. PICK r \in Seq(Nat) :
           /\ Len(r) = 1 /\ \A i \in 1 .. 1 : r[i] = toServer[1].id
           /\ \/ out' = r /\ toClient' = toClient
              \/ out' = <<>> /\ toClient' = toClient \o r
    BY <1>0, RespondsEffect
  <1>4. ASSUME open, spoilt = {} PROVE Phases'
    <2>1. call.op \in {"command", "pipeline"} /\ Asking
      BY <1>0, <1>2, <1>4, PhaseOfRequest DEF CInv
    <2>2. /\ Len(toClient) \in Nat /\ Len(out) = 0 /\ call.id \in Nat /\ call.wait \in Nat
      BY <1>0, NoAnswers, LenProperties DEF TypeOK, CallType
    <2>3. r[1] = call.id + Len(toClient)
      BY <1>2, <1>3, <2>1, <2>2 DEF Asking
    <2>4. /\ Len(toClient \o r) = Len(toClient) + 1
          /\ \A i \in 1 .. Len(toClient) : (toClient \o r)[i] = toClient[i]
          /\ (toClient \o r)[Len(toClient) + 1] = r[1]
      <3>1. /\ Len(toClient \o r) = Len(toClient) + Len(r)
            /\ \A i \in 1 .. Len(toClient) + Len(r) :
                  (toClient \o r)[i] = IF i <= Len(toClient) THEN toClient[i]
                                       ELSE r[i - Len(toClient)]
        BY <1>0, ConcatProperties DEF TypeOK
      <3>. QED
        BY <1>3, <2>2, <3>1
    <2>5. /\ Numbered(toClient', call.id) /\ Numbered(out', call.id + Len(toClient'))
          /\ Len(toClient') + Len(out') = Len(toClient) + 1
          /\ Len(toClient') \in Nat /\ Len(out') \in Nat
      <3>1. CASE out' = r /\ toClient' = toClient
        <4>1. Numbered(toClient', call.id)
          BY <2>1, <3>1 DEF Numbered, Asking
        <4>2. Len(out') = 1 /\ out'[1] = call.id + Len(toClient')
          BY <1>3, <2>3, <3>1
        <4>3. Numbered(out', call.id + Len(toClient'))
          BY <2>2, <3>1, <4>2 DEF Numbered
        <4>. QED
          BY <2>2, <3>1, <4>1, <4>2, <4>3
      <3>2. CASE out' = <<>> /\ toClient' = toClient \o r
        <4>1. \A i \in 1 .. Len(toClient) + 1 : (toClient \o r)[i] = call.id + i - 1
          <5>1. \A i \in 1 .. Len(toClient) : toClient[i] = call.id + i - 1
            BY <2>1 DEF Asking, Numbered
          <5>. QED
            BY <2>2, <2>3, <2>4, <5>1
        <4>. QED
          BY <2>2, <2>4, <3>2, <4>1, NoAnswers DEF Numbered
      <3>. QED
        BY <1>3, <3>1, <3>2
    <2>6. \A i \in 1 .. Len(toServer') :
             /\ toServer'[i].op = "command"
             /\ toServer'[i].id = call.id + Len(toClient') + Len(out') + i - 1
      <3>. TAKE i \in 1 .. Len(toServer')
      <3>1. i + 1 \in 1 .. Len(toServer) /\ i \in Nat /\ toServer'[i] = toServer[i + 1]
        BY <1>2
      <3>2. /\ toServer[i + 1].op = "command"
            /\ toServer[i + 1].id = call.id + Len(toClient) + Len(out) + (i + 1) - 1
        BY <2>1, <3>1 DEF Asking
      <3>3. call.id + Len(toClient') + Len(out') + i - 1
               = call.id + Len(toClient) + Len(out) + (i + 1) - 1
        <4>1. PICK d \in Nat, m \in Nat, m1 \in Nat, o1 \in Nat :
                 /\ d = call.id /\ m = Len(toClient)
                 /\ m1 = Len(toClient') /\ o1 = Len(out')
          BY <2>2, <2>5
        <4>2. m1 + o1 = m + 1
          BY ONLY <2>5, <4>1
        <4>3. d + m1 + o1 + i - 1 = d + m + 0 + (i + 1) - 1
          BY ONLY <3>1, <4>2, d \in Nat, m \in Nat, m1 \in Nat, o1 \in Nat
        <4>. QED
          BY ONLY <2>2, <4>1, <4>3
      <3>. QED
        BY <3>1, <3>2, <3>3
    <2>7. /\ Len(toClient') + Len(out') + Len(toServer') <= call.wait
          /\ ~cut => Len(toClient') + Len(out') + Len(toServer') = call.wait
      <3>1. /\ Len(toClient) + Len(out) + Len(toServer) <= call.wait
            /\ ~cut => Len(toClient) + Len(out) + Len(toServer) = call.wait
        BY <2>1 DEF Asking
      <3>2. Len(toClient') + Len(out') + Len(toServer')
               = Len(toClient) + Len(out) + Len(toServer)
        <4>1. PICK m \in Nat, m1 \in Nat, o1 \in Nat, t \in Nat :
                 /\ m = Len(toClient) /\ m1 = Len(toClient') /\ o1 = Len(out')
                 /\ t = Len(toServer)
          BY <1>2, <2>2, <2>5
        <4>2. m1 + o1 = m + 1
          BY ONLY <2>5, <4>1
        <4>3. m1 + o1 + (t - 1) = m + 0 + t
          BY ONLY <4>2, m \in Nat, m1 \in Nat, o1 \in Nat, t \in Nat
        <4>. QED
          BY ONLY <1>2, <2>2, <4>1, <4>3
      <3>. QED
        BY <3>1, <3>2
    <2>8. Numbered(toClient, call.id)' /\ Numbered(out, call.id + Len(toClient))'
      BY <1>0, <2>5
    <2>9. Asking'
      BY <1>0, <2>1, <2>6, <2>7, <2>8 DEF Asking
    <2>. QED
      BY <1>0, <2>1, <2>9 DEF Phases
  <1>. QED
    BY <1>0, <1>1, <1>4 DEF CInv

\* What handling the only request leaves.
LEMMA LastRequest ==
  ASSUME TypeOK, toServer # <<>>, out = <<>>, NEW n \in Nat, Responds(Head(toServer), n),
         Len(toServer) = 1
  PROVE  toServer' = <<>>
  <1>1. toServer' \in Seq(RequestType) /\ Len(toServer') = 0
    BY RespondsEffect
  <1>. QED
    BY <1>1, EmptySeq

\* The confirmations of SUBSCRIBE, or its refusal.
LEMMA HandlesSubscribe ==
  ASSUME CInv, Handling("SUBSCRIBE"), NEW n \in Nat, Responds(Head(toServer), n),
         UNCHANGED <<clientVars, cut>>, subs' \in SUBSET Channels,
         open /\ spoilt = {} => n <= Cardinality(call.channels)
                                /\ (n < Cardinality(call.channels) \/ Agreed')
  PROVE  CInv'
  <1>0. /\ TypeOK /\ ~cut /\ toServer # <<>> /\ out = <<>> /\ Head(toServer).op = "SUBSCRIBE"
        /\ UNCHANGED <<open, call, asked, spoilt, cut>>
    BY DEF CInv, Handling, clientVars
  <1>1. TypeOK' /\ CutIsSilent' /\ OutIsAnswers'
    BY <1>0, HandlesTypes
  <1>2. ASSUME open, spoilt = {} PROVE Phases'
    <2>1. call.op = "confirm" /\ Confirming
      <3>1. Head(toServer) = toServer[1]
        BY <1>0, RespondsEffect
      <3>. QED
        BY <1>0, <1>2, <3>1, PhaseOfRequest DEF CInv
    <2>2. toServer' = <<>>
      BY <1>0, <2>1, LastRequest DEF Confirming
    <2>3. Answers(toClient') + Len(out') = n
      <3>1. Answers(toClient') + Len(out') = Answers(toClient) + n
        BY <1>0, RespondsEffect
      <3>2. Answers(toClient) = 0
        BY <1>0, <2>1, NoAnswers DEF Confirming
      <3>. QED
        BY <3>1, <3>2
    <2>4. call.wait = Cardinality(call.channels) /\ call.wait > 0 /\ call.channels # {}
      BY <1>0, <2>1 DEF Confirming
    <2>5. Confirming'
      <3>1. /\ Answers(toClient') + Len(out') <= call'.wait
            /\ Answers(toClient') + Len(out') < call'.wait \/ Agreed'
        BY <1>0, <1>2, <2>3, <2>4
      <3>. QED
        BY <1>0, <2>2, <2>4, <3>1 DEF Confirming
    <2>. QED
      BY <1>0, <2>1, <2>5 DEF Phases
  <1>. QED
    BY <1>0, <1>1, <1>2 DEF CInv

\* The channels of a SUBSCRIBE that is being handled are those of the call.
LEMMA SubscribesForCall ==
  ASSUME CInv, Handling("SUBSCRIBE")
  PROVE  /\ Head(toServer).channels \in SUBSET Channels
         /\ open /\ spoilt = {} => Head(toServer).channels = call.channels /\ subs = {}
                                   /\ call.channels # {}
  <1>0. TypeOK /\ toServer # <<>> /\ Head(toServer).op = "SUBSCRIBE"
    BY DEF CInv, Handling
  <1>1. Head(toServer) \in RequestType /\ Head(toServer) = toServer[1]
    BY <1>0, HeadTailProperties DEF TypeOK
  <1>2. ASSUME open, spoilt = {} PROVE Confirming
    BY <1>0, <1>1, <1>2, PhaseOfRequest DEF CInv
  <1>. QED
    BY <1>0, <1>1, <1>2 DEF RequestType, Confirming

\* handle_subscribe gives as many confirmations as are awaited.
LEMMA HandleSubscribeStep ==
  ASSUME CInv, HandleSubscribe
  PROVE  CInv'
  <1>. DEFINE cs == Head(toServer).channels
  <1>1. /\ Handling("SUBSCRIBE") /\ subs' = subs \cup cs
        /\ Responds(Head(toServer), Cardinality(cs)) /\ UNCHANGED <<clientVars, cut>>
    BY DEF HandleSubscribe
  <1>2. /\ cs \in SUBSET Channels
        /\ open /\ spoilt = {} => cs = call.channels /\ subs = {}
    BY <1>1, SubscribesForCall
  <1>. HIDE DEF cs
  <1>3. Cardinality(cs) \in Nat
    BY <1>2, ChannelCount
  <1>4. subs' \in SUBSET Channels
    BY <1>1, <1>2 DEF CInv, TypeOK
  <1>5. ASSUME open, spoilt = {} PROVE Cardinality(cs) <= Cardinality(call.channels) /\ Agreed'
    BY <1>1, <1>2, <1>3, <1>5 DEF Agreed, clientVars
  <1>. QED
    BY <1>1, <1>3, <1>4, <1>5, HandlesSubscribe

\* A proper part of one channel is none.
LEMMA PartOfOne ==
  ASSUME NEW cs \in SUBSET Channels, Cardinality(cs) = 1,
         NEW valid \in SUBSET cs, valid # cs
  PROVE  valid = {}
  <1>1. PICK c : cs = {c}
    BY ChannelsAssumption, FS_Subset, FS_Singleton
  <1>. QED
    BY <1>1

\* A refusal is one answer: too few, or the only one, without subscriptions.
LEMMA RefuseSubscribeStep ==
  ASSUME CInv, RefuseSubscribe
  PROVE  CInv'
  <1>. DEFINE cs == Head(toServer).channels
  <1>1. /\ Handling("SUBSCRIBE")
        /\ Responds(Head(toServer), 1) /\ UNCHANGED <<clientVars, cut>>
    BY DEF RefuseSubscribe
  <1>2. PICK valid \in SUBSET cs : valid # cs /\ subs' = subs \cup valid
    BY DEF RefuseSubscribe
  <1>3. /\ cs \in SUBSET Channels
        /\ open /\ spoilt = {} => cs = call.channels /\ subs = {} /\ call.channels # {}
    BY <1>1, SubscribesForCall
  <1>. HIDE DEF cs
  <1>4. subs' \in SUBSET Channels
    BY <1>2, <1>3 DEF CInv, TypeOK
  <1>5. ASSUME open, spoilt = {}
        PROVE  1 <= Cardinality(call.channels)
               /\ (1 < Cardinality(call.channels) \/ Agreed')
    <2>1. call.channels = cs /\ call'.channels = cs /\ subs = {} /\ cs # {}
      BY <1>1, <1>3, <1>5 DEF clientVars
    <2>2. Cardinality(cs) \in Nat /\ Cardinality(cs) > 0
      BY <1>3, <2>1, ChannelCount
    <2>3. CASE Cardinality(cs) = 1
      <3>1. valid = {}
        BY <1>2, <1>3, <2>3, PartOfOne
      <3>. QED
        BY <1>2, <2>1, <2>3, <3>1 DEF Agreed
    <2>. QED
      BY <2>1, <2>2, <2>3
  <1>. QED
    BY <1>1, <1>4, <1>5, HandlesSubscribe

\* handle_unsubscribe gives as many answers as listen() will read.
LEMMA HandleUnsubscribeStep ==
  ASSUME CInv, HandleUnsubscribe
  PROVE  CInv'
  <1>. DEFINE n == IF subs = {} THEN 1 ELSE Cardinality(subs)
  <1>0. /\ TypeOK /\ ~cut /\ toServer # <<>> /\ out = <<>>
        /\ Head(toServer).op = "UNSUBSCRIBE" /\ subs' = {}
        /\ Responds(Head(toServer), n)
        /\ UNCHANGED <<open, call, asked, spoilt, cut>>
    BY DEF CInv, HandleUnsubscribe, Handling, clientVars
  <1>1. n \in Nat
    BY <1>0, ChannelCount DEF TypeOK
  <1>. HIDE DEF n
  <1>2. TypeOK' /\ CutIsSilent' /\ OutIsAnswers'
    BY <1>0, <1>1, HandlesTypes DEF clientVars
  <1>3. ASSUME open, spoilt = {} PROVE Phases'
    <2>1. call.op = "drain" /\ Draining
      <3>1. Head(toServer) = toServer[1]
        BY <1>0, <1>1, RespondsEffect
      <3>. QED
        BY <1>0, <1>3, <3>1, PhaseOfRequest DEF CInv
    <2>2. toServer' = <<>>
      BY <1>0, <1>1, <2>1, LastRequest DEF Draining
    <2>3. EventsOnly(toClient) /\ call.wait = n /\ call.wait > 0
      BY <1>0, <2>1 DEF Draining, n
    <2>4. Answers(toClient') + Len(out') = call.wait
      <3>1. Answers(toClient') + Len(out') = Answers(toClient) + n
        BY <1>0, <1>1, RespondsEffect
      <3>2. Answers(toClient) = 0
        BY <1>0, <2>3, AnswersType DEF TypeOK
      <3>. QED
        BY <1>1, <2>3, <3>1, <3>2
    <2>5. \A i, j \in 1 .. Len(toClient') : i <= j /\ toClient'[i] # 0 => toClient'[j] # 0
      <3>1. PICK r \in Seq(Nat) :
               /\ Len(r) = n /\ \A i \in 1 .. n : r[i] = toServer[1].id
               /\ \/ out' = r /\ toClient' = toClient
                  \/ out' = <<>> /\ toClient' = toClient \o r
        BY <1>0, <1>1, RespondsEffect
      <3>2. toServer[1].id # 0
        BY <1>0, <1>1, RespondsEffect DEF RequestType
      <3>3. CASE toClient' = toClient
        BY <2>3, <3>3 DEF EventsOnly
      <3>4. CASE toClient' = toClient \o r
        <4>1. /\ Len(toClient') = Len(toClient) + n /\ Len(toClient) \in Nat
              /\ \A i \in 1 .. Len(toClient) + n :
                    toClient'[i] = IF i <= Len(toClient) THEN toClient[i]
                                   ELSE r[i - Len(toClient)]
          <5>1. /\ Len(toClient \o r) = Len(toClient) + Len(r)
                /\ \A i \in 1 .. Len(toClient) + Len(r) :
                      (toClient \o r)[i] = IF i <= Len(toClient) THEN toClient[i]
                                           ELSE r[i - Len(toClient)]
            BY <1>0, ConcatProperties DEF TypeOK
          <5>2. Len(toClient) \in Nat /\ Len(r) = n
            BY <1>0, <3>1, LenProperties DEF TypeOK
          <5>. QED
            BY <3>4, <5>1, <5>2
        <4>2. \A i \in 1 .. Len(toClient) + n : i > Len(toClient) => toClient'[i] # 0
          BY <1>1, <3>1, <3>2, <4>1
        <4>3. \A i \in 1 .. Len(toClient) + n : i <= Len(toClient) => toClient'[i] = 0
          BY <1>1, <2>3, <4>1 DEF EventsOnly
        <4>. QED
          BY <1>1, <4>1, <4>2, <4>3
      <3>. QED
        BY <3>1, <3>3, <3>4
    <2>6. Answers(toClient') + Len(out') <= call'.wait
      BY <1>0, <1>1, <2>3, <2>4
    <2>7. Draining'
      BY <1>0, <2>2, <2>3, <2>4, <2>5, <2>6 DEF Draining
    <2>. QED
      BY <1>0, <2>1, <2>7 DEF Phases
  <1>. QED
    BY <1>0, <1>2, <1>3 DEF CInv

\* The handler writes the response it was holding.
LEMMA WriteResponseStep ==
  ASSUME CInv, WriteResponse
  PROVE  CInv'
  <1>0. /\ TypeOK /\ out # <<>> /\ toClient' = toClient \o out /\ out' = <<>>
        /\ UNCHANGED <<open, call, asked, spoilt, cut, toServer, subs>>
    BY DEF CInv, WriteResponse, clientVars
  <1>1. /\ toClient' \in Seq(Nat) /\ Len(toClient) \in Nat /\ Len(out) \in Nat
        /\ Len(toClient') = Len(toClient) + Len(out)
        /\ \A i \in 1 .. Len(toClient) + Len(out) :
              toClient'[i] = IF i <= Len(toClient) THEN toClient[i] ELSE out[i - Len(toClient)]
    BY <1>0, ConcatProperties, LenProperties DEF TypeOK
  <1>2. out' \in Seq(Nat) /\ Len(out') = 0
    BY <1>0, EmptySeq
  <1>3. ~cut /\ \A i \in 1 .. Len(out) : out[i] # 0
    BY <1>0 DEF CInv, CutIsSilent, OutIsAnswers
  <1>4. Answers(toClient') + Len(out') = Answers(toClient) + Len(out)
    <2>1. Answers(toClient \o out) = Answers(toClient) + Len(out) /\ Answers(toClient) \in Nat
      BY <1>0, <1>3, AnswersOfConcat, AnswersType DEF TypeOK
    <2>. QED
      BY <1>0, <1>1, <1>2, <2>1
  <1>5. TypeOK' /\ CutIsSilent' /\ OutIsAnswers'
    <2>1. TypeOK'
      BY <1>0, <1>1, <1>2 DEF TypeOK
    <2>2. CutIsSilent'
      BY <1>0, <1>3 DEF CutIsSilent
    <2>3. OutIsAnswers'
      BY <1>2 DEF OutIsAnswers
    <2>. QED
      BY <2>1, <2>2, <2>3
  <1>6. ASSUME open, spoilt = {} PROVE Phases'
    <2>1. Phases /\ call.op \in Ops
      BY <1>0, <1>6 DEF CInv, TypeOK, CallType
    <2>2. call.op \notin {"idle", "listening"}
      BY <1>0, <2>1 DEF Phases, Resting, Listening
    <2>3. CASE call.op \in {"command", "pipeline"}
      <3>1. Asking
        BY <2>1, <2>3 DEF Phases
      <3>2. PICK d \in Nat, m \in Nat, o \in Nat :
               d = call.id /\ m = Len(toClient) /\ o = Len(out)
        BY <1>0, <1>1 DEF TypeOK, CallType
      <3>3. Len(toClient') = m + o
        BY <1>1, <3>2
      <3>4. \A i \in 1 .. m + o : toClient'[i] = d + i - 1
        <4>. TAKE i \in 1 .. m + o
        <4>1. CASE i <= m
          <5>1. i \in 1 .. Len(toClient) /\ toClient'[i] = toClient[i]
            BY <1>1, <3>2, <4>1
          <5>. QED
            BY <3>1, <3>2, <5>1 DEF Asking, Numbered
        <4>2. CASE i > m
          <5>1. i - m \in 1 .. o
            BY ONLY <4>2, i \in 1 .. m + o, m \in Nat, o \in Nat
          <5>3. i \in 1 .. Len(toClient) + Len(out) /\ ~(i <= m)
            <6>1. i \in 1 .. m + o /\ ~(i <= m)
              BY ONLY <4>2, i \in 1 .. m + o, m \in Nat, o \in Nat
            <6>. QED
              BY ONLY <3>2, <6>1
          <5>4. toClient'[i] = out[i - m]
            BY <1>1, <3>2, <5>3
          <5>2. out[i - m] = d + m + (i - m) - 1
            BY <3>1, <3>2, <5>1 DEF Asking, Numbered
          <5>5. d + m + (i - m) - 1 = d + i - 1
            BY ONLY i \in 1 .. m + o, d \in Nat, m \in Nat, o \in Nat
          <5>. QED
            BY ONLY <5>2, <5>4, <5>5
        <4>. QED
          BY <4>1, <4>2
      <3>5. Numbered(toClient, call.id)' /\ Numbered(out, call.id + Len(toClient))'
        BY <1>0, <1>2, <3>2, <3>3, <3>4 DEF Numbered
      <3>6. \A i \in 1 .. Len(toServer') :
               /\ toServer'[i].op = "command"
               /\ toServer'[i].id = call'.id + Len(toClient') + Len(out') + i - 1
        <4>. TAKE i \in 1 .. Len(toServer')
        <4>1. toServer'[i].op = "command" /\ toServer'[i].id = d + m + o + i - 1
          BY <1>0, <3>1, <3>2 DEF Asking
        <4>2. d + m + o + i - 1 = d + (m + o) + 0 + i - 1
          <5>1. i \in Int
            OBVIOUS
          <5>. QED
            BY ONLY <5>1, d \in Nat, m \in Nat, o \in Nat
        <4>. QED
          BY <1>0, <1>2, <3>2, <3>3, <4>1, <4>2
      <3>7. PICK t \in Nat : t = Len(toServer)
        BY <1>0, LenProperties DEF TypeOK
      <3>8. m + o + t <= call.wait /\ (~cut => m + o + t = call.wait)
        BY <3>1, <3>2, <3>7 DEF Asking
      <3>9. (m + o) + 0 + t = m + o + t
        OBVIOUS
      <3>10. /\ Len(toClient') + Len(out') + Len(toServer') <= call'.wait
             /\ ~cut' => Len(toClient') + Len(out') + Len(toServer') = call'.wait
        BY <1>0, <1>2, <3>3, <3>7, <3>8, <3>9
      <3>11. Asking'
        BY <1>0, <3>1, <3>5, <3>6, <3>10 DEF Asking
      <3>. QED
        BY <1>0, <2>3, <3>11 DEF Phases
    <2>4. CASE call.op = "confirm"
      <3>1. Confirming
        BY <2>1, <2>4 DEF Phases
      <3>2. toServer = <<>>
        BY <1>0, <3>1 DEF Confirming
      <3>3. Confirming'
        BY <1>0, <1>4, <3>1, <3>2 DEF Confirming, Agreed
      <3>. QED
        BY <1>0, <2>4, <3>3 DEF Phases
    <2>5. CASE call.op = "drain"
      <3>1. Draining
        BY <2>1, <2>5 DEF Phases
      <3>2. toServer = <<>>
        BY <1>0, <3>1 DEF Draining
      <3>3. \A i, j \in 1 .. Len(toClient') : i <= j /\ toClient'[i] # 0 => toClient'[j] # 0
        <4>1. \A i, j \in 1 .. Len(toClient) : i <= j /\ toClient[i] # 0 => toClient[j] # 0
          BY <3>1, <3>2 DEF Draining
        <4>2. PICK m \in Nat, o \in Nat : m = Len(toClient) /\ o = Len(out)
          BY <1>1
        <4>3. \A i \in 1 .. m + o : i > m => toClient'[i] # 0
          <5>. SUFFICES ASSUME NEW i \in 1 .. m + o, i > m
                        PROVE  toClient'[i] # 0
            OBVIOUS
          <5>1. i - m \in 1 .. o /\ ~(i <= m)
            BY ONLY i > m, i \in 1 .. m + o, m \in Nat, o \in Nat
          <5>2. toClient'[i] = out[i - m]
            BY <1>1, <4>2, <5>1
          <5>. QED
            BY <1>3, <4>2, <5>1, <5>2
        <4>4. \A i \in 1 .. m : toClient'[i] = toClient[i]
          BY <1>1, <4>2
        <4>5. Len(toClient') = m + o
          BY <1>1, <4>2
        <4>6. SUFFICES ASSUME NEW i \in 1 .. m + o, NEW j \in 1 .. m + o, i <= j,
                              toClient'[i] # 0
                       PROVE  toClient'[j] # 0
          BY <4>5
        <4>7. CASE j <= m
          BY <4>1, <4>2, <4>4, <4>6, <4>7
        <4>8. CASE j > m
          BY <4>3, <4>8
        <4>. QED
          BY <4>2, <4>7, <4>8
      <3>4. Draining'
        BY <1>0, <1>4, <3>1, <3>2, <3>3 DEF Draining
      <3>. QED
        BY <1>0, <2>5, <3>4 DEF Phases
    <2>. QED
      BY <2>1, <2>2, <2>3, <2>4, <2>5 DEF Ops
  <1>. QED
    BY <1>0, <1>5, <1>6 DEF CInv

\* An event reaches the connection: only after SUBSCRIBE and before UNSUBSCRIBE
\* have been handled.
LEMMA PublishEventStep ==
  ASSUME CInv, PublishEvent
  PROVE  CInv'
  <1>0. /\ TypeOK /\ subs # {} /\ toClient' = Append(toClient, 0)
        /\ UNCHANGED <<open, call, asked, spoilt, cut, toServer, out, subs>>
    BY DEF CInv, PublishEvent, clientVars
  <1>1. /\ toClient' \in Seq(Nat) /\ Len(toClient) \in Nat
        /\ Len(toClient') = Len(toClient) + 1
        /\ \A i \in 1 .. Len(toClient) : toClient'[i] = toClient[i]
        /\ toClient'[Len(toClient) + 1] = 0
    BY <1>0, AppendProperties, LenProperties DEF TypeOK
  <1>2. Answers(toClient') = Answers(toClient)
    BY <1>0, AnswersOfEvent DEF TypeOK
  <1>3. TypeOK' /\ CutIsSilent' /\ OutIsAnswers'
    BY <1>0, <1>1 DEF CInv, TypeOK, CutIsSilent, OutIsAnswers
  <1>4. EventsOnly(toClient) => EventsOnly(toClient')
    BY <1>1 DEF EventsOnly
  <1>5. ASSUME open, spoilt = {} PROVE Phases'
    <2>1. Phases /\ call.op \in Ops
      BY <1>0, <1>5 DEF CInv, TypeOK, CallType
    <2>2. call.op \notin {"idle", "command", "pipeline"}
      BY <1>0, <2>1 DEF Phases, Resting, Asking
    <2>3. CASE call.op = "confirm"
      <3>1. Confirming /\ toServer = <<>>
        BY <1>0, <2>1, <2>3 DEF Phases, Confirming
      <3>2. Confirming'
        BY <1>0, <1>2, <3>1 DEF Confirming, Agreed
      <3>. QED
        BY <1>0, <2>3, <3>2 DEF Phases
    <2>4. CASE call.op = "listening"
      <3>1. Listening
        BY <2>1, <2>4 DEF Phases
      <3>2. Listening'
        BY <1>0, <1>4, <3>1 DEF Listening, Agreed
      <3>. QED
        BY <1>0, <2>4, <3>2 DEF Phases
    <2>5. CASE call.op = "drain"
      <3>1. Draining /\ toServer # <<>>
        BY <1>0, <2>1, <2>5 DEF Phases, Draining
      <3>2. Draining'
        BY <1>0, <1>4, <3>1 DEF Draining
      <3>. QED
        BY <1>0, <2>5, <3>2 DEF Phases
    <2>. QED
      BY <2>1, <2>2, <2>3, <2>4, <2>5 DEF Ops
  <1>. QED
    BY <1>0, <1>3, <1>5 DEF CInv

\* The handler ends; what it has written is still to be read.
LEMMA ServerClosesStep ==
  ASSUME CInv, ServerCloses
  PROVE  CInv'
  <1>0. /\ TypeOK /\ cut' = TRUE /\ toServer' = <<>> /\ out' = <<>> /\ subs' = {}
        /\ UNCHANGED <<open, call, asked, spoilt, toClient>>
    BY DEF CInv, ServerCloses, clientVars
  <1>1. <<>> \in Seq(RequestType) /\ <<>> \in Seq(Nat) /\ Len(out') = 0 /\ Len(toServer') = 0
    BY <1>0, EmptySeq
  <1>2. TypeOK' /\ CutIsSilent' /\ OutIsAnswers'
    BY <1>0, <1>1 DEF TypeOK, CutIsSilent, OutIsAnswers
  <1>3. /\ Len(toClient) \in Nat /\ Len(out) \in Nat /\ Len(toServer) \in Nat
        /\ Answers(toClient) \in Nat
        /\ Answers(toClient) = 0 <=> EventsOnly(toClient)
        /\ call.wait \in Nat /\ call.op \in Ops
    BY <1>0, LenProperties, AnswersType DEF TypeOK, CallType
  <1>4. ASSUME open, spoilt = {} PROVE Phases'
    <2>1. Phases
      BY <1>4 DEF CInv
    <2>2. CASE call.op = "idle"
      BY <1>0, <2>1, <2>2 DEF Phases, Resting
    <2>3. CASE call.op \in {"command", "pipeline"}
      <3>1. Asking
        BY <2>1, <2>3 DEF Phases
      <3>2. Numbered(toClient, call.id)' /\ Numbered(out, call.id + Len(toClient))'
        BY <1>0, <1>1, <3>1 DEF Asking, Numbered
      <3>3. Len(toClient') + Len(out') + Len(toServer') <= call'.wait
        <4>1. Len(toClient) + Len(out) + Len(toServer) <= call.wait
          BY <3>1 DEF Asking
        <4>. QED
          BY <1>0, <1>1, <1>3, <4>1
      <3>4. Asking'
        BY <1>0, <1>1, <3>1, <3>2, <3>3 DEF Asking
      <3>. QED
        BY <1>0, <2>3, <3>4 DEF Phases
    <2>4. CASE call.op = "confirm"
      <3>1. Confirming
        BY <2>1, <2>4 DEF Phases
      <3>2. Answers(toClient) <= call.wait
        <4>1. CASE toServer = <<>>
          BY <1>3, <3>1, <4>1 DEF Confirming
        <4>2. CASE toServer # <<>>
          BY <1>3, <3>1, <4>2, NoAnswers DEF Confirming
        <4>. QED
          BY <4>1, <4>2
      <3>3. Answers(toClient') + Len(out') <= call'.wait
        BY <1>0, <1>1, <1>3, <3>2
      <3>4. Confirming'
        BY <1>0, <3>1, <3>3 DEF Confirming
      <3>. QED
        BY <1>0, <2>4, <3>4 DEF Phases
    <2>5. CASE call.op = "listening"
      <3>1. Listening'
        BY <1>0, <2>1, <2>5 DEF Phases, Listening
      <3>. QED
        BY <1>0, <2>5, <3>1 DEF Phases
    <2>6. CASE call.op = "drain"
      <3>1. Draining
        BY <2>1, <2>6 DEF Phases
      <3>2. /\ Answers(toClient) <= call.wait
            /\ \A i, j \in 1 .. Len(toClient) : i <= j /\ toClient[i] # 0 => toClient[j] # 0
        <4>1. CASE toServer = <<>>
          BY <1>3, <3>1, <4>1 DEF Draining
        <4>2. CASE toServer # <<>>
          BY <1>3, <3>1, <4>2 DEF Draining, EventsOnly
        <4>. QED
          BY <4>1, <4>2
      <3>3. Answers(toClient') + Len(out') <= call'.wait
        BY <1>0, <1>1, <1>3, <3>2
      <3>4. Draining'
        BY <1>0, <3>1, <3>2, <3>3 DEF Draining
      <3>. QED
        BY <1>0, <2>6, <3>4 DEF Phases
    <2>. QED
      BY <1>3, <2>2, <2>3, <2>4, <2>5, <2>6 DEF Ops
  <1>. QED
    BY <1>0, <1>2, <1>4 DEF CInv

-----------------------------------------------------------------------------
(* The invariant, for every behaviour *)

\* A new connection.
LEMMA InitCInv == Init => CInv
  <1>. SUFFICES ASSUME Init PROVE CInv
    OBVIOUS
  <1>1. <<>> \in Seq(RequestType) /\ <<>> \in Seq(Nat)
    BY EmptySeq
  <1>2. Idle \in CallType /\ Idle.op = "idle" /\ Idle.wait = 0
    BY DEF Idle, Call, CallType, Ops, Kinds
  <1>3. TypeOK /\ CutIsSilent
    BY <1>1, <1>2 DEF Init, TypeOK, CutIsSilent
  <1>4. OutIsAnswers
    BY NoAnswers DEF Init, OutIsAnswers
  <1>5. Phases
    BY <1>2 DEF Init, Phases, Resting
  <1>. QED
    BY <1>3, <1>4, <1>5 DEF CInv

\* Every step of either end keeps the invariant.
LEMMA NextCInv == CInv /\ [Next]_vars => CInv'
  <1>. SUFFICES ASSUME CInv, [Next]_vars PROVE CInv'
    OBVIOUS
  <1>1. CASE SendCommand
    BY <1>1, SendCommandStep
  <1>2. ASSUME NEW n \in 1 .. MaxPipeline, SendPipeline(n) PROVE CInv'
    BY <1>2, SendPipelineStep
  <1>3. ASSUME NEW cs \in (SUBSET Channels) \ {{}}, NEW kind \in {"subscribe", "listen"},
               Subscribe(cs, kind)
        PROVE  CInv'
    BY <1>3, SubscribeStep
  <1>4. CASE Reading
    BY <1>4, ReadStep, ListenStep, BreakStep, TimeoutStep, EofStep DEF Reading
  <1>5. CASE Reconnect
    BY <1>5, ReconnectStep
  <1>6. CASE HandleCommand \/ HandleSubscribe \/ RefuseSubscribe \/ HandleUnsubscribe
    BY <1>6, HandleCommandStep, HandleSubscribeStep, RefuseSubscribeStep,
       HandleUnsubscribeStep
  <1>7. CASE WriteResponse \/ PublishEvent \/ ServerCloses
    BY <1>7, WriteResponseStep, PublishEventStep, ServerClosesStep
  <1>8. CASE UNCHANGED vars
    <2>1. /\ UNCHANGED <<open, call, asked, spoilt>>
          /\ UNCHANGED <<cut, toServer, toClient, out, subs>>
      BY <1>8 DEF vars, clientVars, serverVars
    <2>2. TypeOK' /\ CutIsSilent' /\ OutIsAnswers'
      BY <2>1 DEF CInv, TypeOK, CutIsSilent, OutIsAnswers
    <2>3. Phases => Phases'
      <3>1. /\ Resting => Resting'
            /\ Listening => Listening'
        BY <2>1 DEF Resting, Listening, EventsOnly, Agreed
      <3>2. Asking => Asking'
        BY <2>1 DEF Asking, Numbered
      <3>3. Confirming => Confirming'
        BY <2>1 DEF Confirming, Agreed, Answers
      <3>4. Draining => Draining'
        BY <2>1 DEF Draining, EventsOnly, Answers
      <3>. QED
        BY <2>1, <3>1, <3>2, <3>3, <3>4 DEF Phases
    <2>. QED
      BY <2>1, <2>2, <2>3 DEF CInv
  <1>. QED
    BY <1>1, <1>2, <1>3, <1>4, <1>5, <1>6, <1>7, <1>8 DEF Next

\* On a connection on which no read has timed out, every phase of a call knows
\* what is under way.
THEOREM ClientInductive == Spec => []CInv
  BY InitCInv, NextCInv, PTL DEF Spec

\* client.py, connection.py: send_command and send_pipeline take the next
\* message for the answer to the next request, and it is.
THEOREM AnswersMatchHolds == Spec => []AnswersMatch
  <1>1. CInv => AnswersMatch
    <2>. SUFFICES ASSUME CInv, open, spoilt = {}, call.op \in {"command", "pipeline"},
                         toClient # <<>>
                  PROVE  Head(toClient) = call.id
      BY DEF AnswersMatch, AnswersMatchUnless
    <2>1. toClient \in Seq(Nat) /\ call.id \in Nat /\ Numbered(toClient, call.id)
      BY DEF CInv, TypeOK, CallType, Phases, Asking
    <2>2. 1 \in 1 .. Len(toClient) /\ Head(toClient) = toClient[1]
      BY <2>1, HeadTailProperties, LenProperties, EmptySeq
    <2>. QED
      BY <2>1, <2>2 DEF Numbered
  <1>. QED
    BY <1>1, ClientInductive, PTL

\* The answers to requests that are still to be handled: none.
LEMMA NothingOwed ==
  ASSUME toServer = <<>>
  PROVE  Cardinality(Owed) = 0
  <1>1. Owed = {}
    BY DEF Owed
  <1>. QED
    BY <1>1, FS_EmptySet

\* One for each request of a pipeline.
LEMMA CommandsOwed ==
  ASSUME TypeOK, \A i \in 1 .. Len(toServer) : toServer[i].op = "command"
  PROVE  Cardinality(Owed) = Len(toServer)
  <1>. DEFINE D == 1 .. Len(toServer)
  <1>1. Len(toServer) \in Nat /\ DOMAIN toServer = D
    BY LenProperties DEF TypeOK
  <1>2. \A i \in D : Width(toServer[i]) = 1
    BY DEF Width
  <1>3. IsFiniteSet(D) /\ Cardinality(D) = Len(toServer)
        /\ IsFiniteSet(1 .. 1) /\ Cardinality(1 .. 1) = 1
    BY <1>1, IntervalSize
  <1>. HIDE DEF D
  <1>4. Owed = D \X (1 .. 1)
    <2>1. Owed = UNION {{i} \X (1 .. 1) : i \in D}
      BY <1>1, <1>2 DEF Owed
    <2>. HIDE <1>2
    <2>2. UNION {{i} \X (1 .. 1) : i \in D} = D \X (1 .. 1)
      OBVIOUS
    <2>. QED
      BY <2>1, <2>2
  <1>5. Cardinality(Owed) = Len(toServer) * 1
    BY <1>3, <1>4, FS_Product, ZenonT(30)
  <1>. QED
    BY <1>1, <1>5

\* As many for UNSUBSCRIBE as there are subscriptions, or one.
LEMMA UnsubscribeOwed ==
  ASSUME TypeOK, Len(toServer) = 1, toServer[1].op = "UNSUBSCRIBE"
  PROVE  Cardinality(Owed) = IF subs = {} THEN 1 ELSE Cardinality(subs)
  <1>. DEFINE w == IF subs = {} THEN 1 ELSE Cardinality(subs)
  <1>1. w \in Nat
    BY ChannelCount DEF TypeOK
  <1>2. Width(toServer[1]) = w
    BY DEF Width
  <1>3. DOMAIN toServer = {1}
    BY LenProperties DEF TypeOK
  <1>. HIDE DEF w
  <1>4. Owed = {1} \X (1 .. w)
    BY <1>2, <1>3 DEF Owed
  <1>5. IsFiniteSet(1 .. w) /\ Cardinality(1 .. w) = w
    BY <1>1, IntervalSize
  <1>6. IsFiniteSet({1}) /\ Cardinality({1}) = 1
    BY FS_Singleton
  <1>7. Cardinality({1} \X (1 .. w)) = Cardinality({1}) * Cardinality(1 .. w)
    BY <1>5, <1>6, FS_Product, Zenon
  <1>8. Cardinality(Owed) = 1 * w
    BY <1>4, <1>5, <1>6, <1>7
  <1>. QED
    BY <1>1, <1>8 DEF w

\* client.py: at every moment outside subscribe()'s confirmations, exactly the
\* answers that the call under way will read are still to come.
THEOREM InStepHolds == Spec => []InStep
  <1>1. CInv => InStep
    <2>. SUFFICES ASSUME CInv, open, ~cut, spoilt = {}, call.op # "confirm"
                  PROVE  Outstanding = call.wait
      BY DEF InStep
    <2>1. TypeOK /\ Phases
      BY DEF CInv
    <2>2. /\ Answers(toClient) \in Nat /\ Len(out) \in Nat /\ call.wait \in Nat
          /\ Answers(toClient) = 0 <=> EventsOnly(toClient)
          /\ call.op \in Ops /\ toClient \in Seq(Nat)
      BY <2>1, AnswersType, LenProperties DEF TypeOK, CallType
    <2>3. CASE call.op = "idle"
      <3>1. toServer = <<>> /\ toClient = <<>> /\ out = <<>> /\ call.wait = 0
        BY <2>1, <2>3 DEF Phases, Resting
      <3>. QED
        BY <3>1, NoAnswers, NothingOwed DEF Outstanding
    <2>4. CASE call.op \in {"command", "pipeline"}
      <3>1. Asking
        BY <2>1, <2>4 DEF Phases
      <3>2. \A i \in 1 .. Len(toClient) : toClient[i] # 0
        <4>1. PICK d \in Nat : d = call.id /\ d > 0
          BY <2>1, <3>1 DEF TypeOK, CallType, Asking
        <4>. QED
          BY <3>1, <4>1 DEF Asking, Numbered
      <3>3. Answers(toClient) = Len(toClient)
        BY <2>2, <3>2, AnswersOfAll
      <3>4. Cardinality(Owed) = Len(toServer)
        BY <2>1, <3>1, CommandsOwed DEF Asking
      <3>5. Len(toClient) + Len(out) + Len(toServer) = call.wait
        BY <3>1 DEF Asking
      <3>. QED
        BY <3>3, <3>4, <3>5 DEF Outstanding
    <2>5. CASE call.op = "listening"
      <3>1. toServer = <<>> /\ out = <<>> /\ EventsOnly(toClient) /\ call.wait = 0
        BY <2>1, <2>5 DEF Phases, Listening
      <3>. QED
        BY <2>2, <3>1, NoAnswers, NothingOwed DEF Outstanding
    <2>6. CASE call.op = "drain"
      <3>1. Draining
        BY <2>1, <2>6 DEF Phases
      <3>2. CASE toServer = <<>>
        <4>1. Answers(toClient) + Len(out) = call.wait
          BY <3>1, <3>2 DEF Draining
        <4>. QED
          BY <2>2, <3>2, <4>1, NothingOwed DEF Outstanding
      <3>3. CASE toServer # <<>>
        <4>1. /\ Len(toServer) = 1 /\ toServer[1].op = "UNSUBSCRIBE"
              /\ EventsOnly(toClient) /\ out = <<>>
              /\ call.wait = IF subs = {} THEN 1 ELSE Cardinality(subs)
          BY <3>1, <3>3 DEF Draining
        <4>2. Cardinality(Owed) = call.wait
          BY <2>1, <4>1, UnsubscribeOwed
        <4>. QED
          BY <2>2, <4>1, <4>2, NoAnswers DEF Outstanding
      <3>. QED
        BY <3>2, <3>3
    <2>. QED
      BY <2>2, <2>3, <2>4, <2>5, <2>6 DEF Ops
  <1>. QED
    BY <1>1, ClientInductive, PTL

=============================================================================
