----------------------------- MODULE QueueProofs ------------------------------
(***************************************************************************)
(* Proofs about the queues of inst._lock in Bench: who waits where, and    *)
(* that the command which holds the dispatch lock waits somewhere.  Then   *)
(* what Bench promises where drivers behave: no driver call runs into its  *)
(* timeout, safe_state() works, or nobody removes an instrument; each of   *)
(* those theorems names the one of these that it needs.                    *)
(***************************************************************************)
EXTENDS BenchProofs, PicksProofs

\* The calls of guards and health tasks.
Background == WatchEntries \cup {PingEntry}

\* A queue q holds the background calls B once each, and of the command in
\* progress no call, one call or many calls.
Fits(q, B, room) ==
    /\ q \in Seq(Entry)
    /\ \A e \in Background : e \in B <=> \E i \in 1 .. Len(q) : q[i] = e
    /\ \A i \in 1 .. Len(q) :
          IF q[i].who = "cmd" THEN room # "none" ELSE q[i] \in Background
    /\ \A i, j \in 1 .. Len(q) :
          \/ i = j
          \/ q[i] # q[j]
          \/ q[i].who = "cmd" /\ room = "many"
    /\ \A i, j \in 1 .. Len(q) :
          q[i].who = "cmd" /\ q[j].who = "cmd" => i = j \/ room = "many"

\* The background calls that the tasks of instrument n wait in.
Calling(n) ==
    {e \in Background : IF e.who = "watch" THEN watch[n][e.res] = "call"
                                           ELSE health[n] = "call"}

\* No command is in progress, or one that calls no driver.
Quiet == cmd.op \in Unqueued

\* How many calls the command in progress may have on n.
Room(n) == IF Quiet \/ n \notin cmd.at THEN "none"
           ELSE IF cmd.op = "mread" THEN "many" ELSE "one"

\* Types of the variables that TypeOK leaves out.
BusTypeOK ==
    /\ lockq \in [Names -> Seq(Entry)]
    /\ orphan \in [Names -> SUBSET Calls]

\* Every queue fits its tasks.
QueuesFit == \A n \in Names : Fits(lockq[n], Calling(n), Room(n))

\* All commands but IMREAD call one driver at a time, and IALIGN each once.
OneAtATime ==
    /\ cmd.op \in {"call", "ping", "init", "align"} => \E n \in Names : cmd.at = {n}
    /\ cmd.op = "align" => cmd.at \cap cmd.rest = {}

\* The command in progress has a call in some queue.
CommandWaits ==
    ~Quiet =>
        \E n \in cmd.at : \E i \in 1 .. Len(lockq[n]) : lockq[n][i].who = "cmd"

\* The inductive invariant of the queues, beside that of the registry.
QInv == BusTypeOK /\ QueuesFit /\ OneAtATime /\ CommandWaits

-----------------------------------------------------------------------------
(* Queues *)

\* A background call is an entry, known by its fields.
LEMMA BackgroundCalls ==
  ASSUME NEW e \in Background
  PROVE  /\ e \in Entry /\ e.who # "cmd"
         /\ e.who = "watch" => e.res \in Resources /\ e = WatchEntry(e.res)
         /\ e.who # "watch" => e = PingEntry
  BY ResAssumption DEF Background, WatchEntries, WatchEntry, PingEntry, DriverCall, Entry,
                       Calls, Drives

\* A call of the command in progress is no background call.
LEMMA CommandCalls ==
  ASSUME NEW call \in Calls, NEW r \in Resources \cup {NoRes}
  PROVE  /\ DriverCall("cmd", call, r) \in Entry
         /\ DriverCall("cmd", call, r).who = "cmd"
         /\ DriverCall("cmd", call, r) \notin Background
  BY DEF Background, WatchEntries, WatchEntry, PingEntry, DriverCall, Entry

\* What a queue allows the command in progress may grow when it has no calls,
\* and when it has many anyway.
LEMMA FitsMore ==
  ASSUME NEW q, NEW B, NEW room, NEW more, Fits(q, B, room),
         room = "none" \/ more = "many" \/ more = room
  PROVE  Fits(q, B, more)
  BY DEF Fits

\* An empty queue fits nobody.
LEMMA FitsNobody ==
  ASSUME NEW room
  PROVE  Fits(<<>>, {}, room)
  <1>1. <<>> \in Seq(Entry) /\ Len(<<>>) = 0
    BY EmptySeq
  <1>2. \A i \in 1 .. Len(<<>>) : FALSE
    BY <1>1
  <1>. QED
    BY <1>1, <1>2 DEF Fits

\* What Append does, in the terms of Fits.
LEMMA AppendElements ==
  ASSUME NEW S, NEW q \in Seq(S), NEW e \in S
  PROVE  /\ Append(q, e) \in Seq(S) /\ Len(q) \in Nat /\ Len(Append(q, e)) = Len(q) + 1
         /\ \A i \in 1 .. Len(q) : i \in 1 .. Len(Append(q, e)) /\ Append(q, e)[i] = q[i]
         /\ Len(q) + 1 \in 1 .. Len(Append(q, e)) /\ Append(q, e)[Len(q) + 1] = e
         /\ \A i \in 1 .. Len(Append(q, e)) : i \in 1 .. Len(q) \/ i = Len(q) + 1
  BY AppendProperties, LenProperties

\* A guard or a health task waits behind the others.
LEMMA FitsJoin ==
  ASSUME NEW q, NEW B, NEW room, Fits(q, B, room), NEW e \in Background, e \notin B
  PROVE  Fits(Append(q, e), B \cup {e}, room)
  <1>. DEFINE p == Append(q, e)
              n == Len(q)
  <1>0. q \in Seq(Entry) /\ e \in Entry /\ e.who # "cmd"
    BY BackgroundCalls DEF Fits
  <1>1. /\ p \in Seq(Entry) /\ n \in Nat
        /\ \A i \in 1 .. n : i \in 1 .. Len(p) /\ p[i] = q[i]
        /\ n + 1 \in 1 .. Len(p) /\ p[n + 1] = e
        /\ \A i \in 1 .. Len(p) : i \in 1 .. n \/ i = n + 1
    BY <1>0, AppendElements
  <1>. HIDE DEF p, n
  <1>2. \A i \in 1 .. n : q[i] # e
    BY DEF Fits, n
  <1>3. \A f \in Background : f \in B \cup {e} <=> \E i \in 1 .. Len(p) : p[i] = f
    BY <1>1 DEF Fits, n
  <1>4. \A i \in 1 .. Len(p) :
           IF p[i].who = "cmd" THEN room # "none" ELSE p[i] \in Background
    BY <1>0, <1>1 DEF Fits, n
  <1>5. \A i, j \in 1 .. Len(p) : i = j \/ p[i] # p[j] \/ (p[i].who = "cmd" /\ room = "many")
    BY <1>1, <1>2 DEF Fits, n
  <1>6. \A i, j \in 1 .. Len(p) :
           p[i].who = "cmd" /\ p[j].who = "cmd" => i = j \/ room = "many"
    BY <1>0, <1>1 DEF Fits, n
  <1>. QED
    BY <1>1, <1>3, <1>4, <1>5, <1>6 DEF Fits, p

\* So does a command that has no call in this queue yet.
LEMMA FitsCommand ==
  ASSUME NEW q, NEW B, Fits(q, B, "none"), NEW e \in Entry, e.who = "cmd",
         NEW room \in {"one", "many"}
  PROVE  Fits(Append(q, e), B, room)
  <1>. DEFINE p == Append(q, e)
              n == Len(q)
  <1>0. q \in Seq(Entry) /\ e \notin Background
    BY BackgroundCalls DEF Fits
  <1>1. /\ p \in Seq(Entry) /\ n \in Nat
        /\ \A i \in 1 .. n : i \in 1 .. Len(p) /\ p[i] = q[i]
        /\ n + 1 \in 1 .. Len(p) /\ p[n + 1] = e
        /\ \A i \in 1 .. Len(p) : i \in 1 .. n \/ i = n + 1
    BY <1>0, AppendElements
  <1>. HIDE DEF p, n
  <1>2. \A i \in 1 .. n : q[i].who # "cmd" /\ q[i] # e
    BY DEF Fits, n
  <1>3. \A f \in Background : f \in B <=> \E i \in 1 .. Len(p) : p[i] = f
    BY <1>0, <1>1 DEF Fits, n
  <1>4. \A i \in 1 .. Len(p) :
           IF p[i].who = "cmd" THEN room # "none" ELSE p[i] \in Background
    BY <1>1, <1>2 DEF Fits, n
  <1>5. \A i, j \in 1 .. Len(p) : i = j \/ p[i] # p[j] \/ (p[i].who = "cmd" /\ room = "many")
    BY <1>1, <1>2 DEF Fits, n
  <1>6. \A i, j \in 1 .. Len(p) :
           p[i].who = "cmd" /\ p[j].who = "cmd" => i = j \/ room = "many"
    BY <1>1, <1>2
  <1>. QED
    BY <1>1, <1>3, <1>4, <1>5, <1>6 DEF Fits, p

\* What Tail does, in the terms of Fits.
LEMMA TailElements ==
  ASSUME NEW S, NEW q \in Seq(S), q # <<>>
  PROVE  /\ Tail(q) \in Seq(S) /\ Len(q) \in Nat /\ 1 \in 1 .. Len(q) /\ Head(q) = q[1]
         /\ \A i \in 1 .. Len(Tail(q)) : i + 1 \in 2 .. Len(q) /\ Tail(q)[i] = q[i + 1]
         /\ \A i \in 2 .. Len(q) : i - 1 \in 1 .. Len(Tail(q)) /\ Tail(q)[i - 1] = q[i]
  BY HeadTailProperties, LenProperties, EmptySeq

\* A guard's or a health task's call ends.
LEMMA FitsLeave ==
  ASSUME NEW q, NEW B, NEW room, Fits(q, B, room), q # <<>>, Head(q) \in Background
  PROVE  Fits(Tail(q), B \ {Head(q)}, room)
  <1>. DEFINE p == Tail(q)
              n == Len(q)
              m == Len(p)
  <1>0. q \in Seq(Entry)
    BY DEF Fits
  <1>1. /\ p \in Seq(Entry) /\ n \in Nat /\ 1 \in 1 .. n /\ Head(q) = q[1]
        /\ \A i \in 1 .. m : i + 1 \in 2 .. n /\ p[i] = q[i + 1]
        /\ \A i \in 2 .. n : i - 1 \in 1 .. m /\ p[i - 1] = q[i]
    BY <1>0, TailElements
  <1>2. m \in Nat
    BY <1>1, LenProperties
  <1>. HIDE DEF p, n, m
  <1>3. q[1].who # "cmd"
    BY <1>1, BackgroundCalls
  <1>4. \A i \in 2 .. n : i \in 1 .. n /\ q[i] # q[1]
    <2>1. \A i \in 2 .. n : i \in 1 .. n /\ i # 1
      BY <1>1
    <2>. QED
      BY <1>1, <1>3, <2>1 DEF Fits, n
  <1>5. \A i \in 1 .. n : i = 1 \/ i \in 2 .. n
    BY <1>1
  <1>6. \A f \in Background : f \in B \ {Head(q)} <=> \E i \in 1 .. m : p[i] = f
    <2>1. \A f : (\E i \in 1 .. m : p[i] = f) <=> \E i \in 2 .. n : q[i] = f
      BY <1>1, SMTT(30)
    <2>2. \A f \in Background : f \in B <=> \E i \in 1 .. n : q[i] = f
      BY DEF Fits, n
    <2>. QED
      BY <1>1, <1>4, <1>5, <2>1, <2>2
  <1>7. \A i \in 1 .. m : IF p[i].who = "cmd" THEN room # "none" ELSE p[i] \in Background
    <2>1. \A i \in 2 .. n : IF q[i].who = "cmd" THEN room # "none" ELSE q[i] \in Background
      BY <1>4 DEF Fits, n
    <2>. QED
      BY <1>1, <2>1
  <1>8. \A i, j \in 1 .. m :
           /\ i = j \/ p[i] # p[j] \/ (p[i].who = "cmd" /\ room = "many")
           /\ p[i].who = "cmd" /\ p[j].who = "cmd" => i = j \/ room = "many"
    <2>1. \A i, j \in 2 .. n :
             /\ i = j \/ q[i] # q[j] \/ (q[i].who = "cmd" /\ room = "many")
             /\ q[i].who = "cmd" /\ q[j].who = "cmd" => i = j \/ room = "many"
      BY <1>4 DEF Fits, n
    <2>2. \A i, j \in 1 .. m : i + 1 = j + 1 => i = j
      BY <1>2
    <2>. QED
      BY <1>1, <2>1, <2>2
  <1>. QED
    BY <1>1, <1>6, <1>7, <1>8 DEF Fits, p, m
\* What is left to the command in progress once one of its calls has ended.
RoomLeft(room) == IF room = "many" THEN "many" ELSE "none"

\* The call of the command in progress ends.
LEMMA FitsCommandLeaves ==
  ASSUME NEW q, NEW B, NEW room, Fits(q, B, room), q # <<>>, Head(q).who = "cmd"
  PROVE  Fits(Tail(q), B, RoomLeft(room))
  <1>. DEFINE p == Tail(q)
              n == Len(q)
              m == Len(p)
  <1>0. q \in Seq(Entry) /\ \A f \in Background : f # Head(q)
    BY BackgroundCalls DEF Fits
  <1>1. /\ p \in Seq(Entry) /\ n \in Nat /\ 1 \in 1 .. n /\ Head(q) = q[1]
        /\ \A i \in 1 .. m : i + 1 \in 2 .. n /\ p[i] = q[i + 1]
        /\ \A i \in 2 .. n : i - 1 \in 1 .. m /\ p[i - 1] = q[i]
    BY <1>0, TailElements
  <1>2. m \in Nat
    BY <1>1, LenProperties
  <1>. HIDE DEF p, n, m
  <1>3. \A i \in 2 .. n : i \in 1 .. n /\ i # 1
    BY <1>1
  <1>4. \A i \in 1 .. n : i = 1 \/ i \in 2 .. n
    BY <1>1
  <1>5. \A i \in 2 .. n : q[i].who = "cmd" => room = "many"
    BY <1>1, <1>3 DEF Fits, n
  <1>6. \A f \in Background : f \in B <=> \E i \in 1 .. m : p[i] = f
    <2>1. \A f : (\E i \in 1 .. m : p[i] = f) <=> \E i \in 2 .. n : q[i] = f
      BY <1>1
    <2>2. \A f \in Background : f \in B <=> \E i \in 1 .. n : q[i] = f
      BY DEF Fits, n
    <2>. QED
      BY <1>0, <1>1, <1>3, <1>4, <2>1, <2>2
  <1>7. \A i \in 1 .. m :
           IF p[i].who = "cmd" THEN RoomLeft(room) # "none" ELSE p[i] \in Background
    <2>1. \A i \in 2 .. n : IF q[i].who = "cmd" THEN room = "many" ELSE q[i] \in Background
      BY <1>3, <1>5 DEF Fits, n
    <2>. QED
      BY <1>1, <2>1 DEF RoomLeft
  <1>8. \A i, j \in 1 .. m :
           /\ i = j \/ p[i] # p[j] \/ (p[i].who = "cmd" /\ RoomLeft(room) = "many")
           /\ p[i].who = "cmd" /\ p[j].who = "cmd" => i = j \/ RoomLeft(room) = "many"
    <2>1. \A i, j \in 2 .. n :
             /\ i = j \/ q[i] # q[j] \/ (q[i].who = "cmd" /\ room = "many")
             /\ q[i].who = "cmd" /\ q[j].who = "cmd" => i = j \/ room = "many"
      BY <1>3 DEF Fits, n
    <2>2. \A i, j \in 1 .. m : i + 1 = j + 1 => i = j
      BY <1>2
    <2>3. RoomLeft(room) = "many" <=> room = "many"
      BY DEF RoomLeft
    <2>. QED
      BY <1>1, <2>1, <2>2, <2>3
  <1>. QED
    BY <1>1, <1>6, <1>7, <1>8 DEF Fits, p, m

\* Guards and health tasks are cancelled.
LEMMA FitsCancel ==
  ASSUME NEW q, NEW B, NEW room, Fits(q, B, room), NEW gone
  PROVE  Fits(Without(q, gone), B \ gone, room)
  <1>. DEFINE p == Without(q, gone)
              K == {i \in 1 .. Len(q) : q[i] \notin gone}
  <1>1. p \in Seq(Entry) /\ Selection(p, q, K)
    BY WithoutElements DEF Fits
  <1>2. \A i : i \in K <=> i \in 1 .. Len(q) /\ q[i] \notin gone
    OBVIOUS
  <1>. HIDE DEF p, K
  <1>3. PICK at \in [1 .. Len(p) -> K] :
           /\ \A j \in 1 .. Len(p) : p[j] = q[at[j]]
           /\ \A i \in K : \E j \in 1 .. Len(p) : at[j] = i
           /\ \A j, k \in 1 .. Len(p) : j < k => at[j] < at[k]
    BY <1>1 DEF Selection
  <1>4. \A j \in 1 .. Len(p) :
           at[j] \in 1 .. Len(q) /\ p[j] = q[at[j]] /\ q[at[j]] \notin gone
    BY <1>2, <1>3
  <1>5. \A j, k \in 1 .. Len(p) : at[j] = at[k] => j = k
    <2>. SUFFICES ASSUME NEW j \in 1 .. Len(p), NEW k \in 1 .. Len(p), at[j] = at[k], j # k
                  PROVE  FALSE
      OBVIOUS
    <2>1. Len(q) \in Nat /\ Len(p) \in Nat
      BY <1>1, LenProperties DEF Fits
    <2>2. at[j] \in Int /\ at[k] \in Int
      <3>1. \A i \in 1 .. Len(q) : i \in Int
        BY <2>1
      <3>. QED
        BY <1>4, <3>1
    <2>3. j < k \/ k < j
      BY <2>1
    <2>. QED
      BY <1>3, <2>2, <2>3
  <1>6. \A f \in Background : f \in B \ gone <=> \E j \in 1 .. Len(p) : p[j] = f
    <2>1. \A f \in Background : f \in B <=> \E i \in 1 .. Len(q) : q[i] = f
      BY DEF Fits
    <2>. QED
      BY <1>2, <1>3, <1>4, <2>1
  <1>7. \A j \in 1 .. Len(p) :
           IF p[j].who = "cmd" THEN room # "none" ELSE p[j] \in Background
    BY <1>4 DEF Fits
  <1>8. \A j, k \in 1 .. Len(p) : j = k \/ p[j] # p[k] \/ (p[j].who = "cmd" /\ room = "many")
    BY <1>4, <1>5 DEF Fits
  <1>9. \A j, k \in 1 .. Len(p) :
           p[j].who = "cmd" /\ p[k].who = "cmd" => j = k \/ room = "many"
    BY <1>4, <1>5 DEF Fits
  <1>. QED
    BY <1>1, <1>6, <1>7, <1>8, <1>9 DEF Fits, p

\* The reads of an IMREAD.
Reads == {DriverCall("cmd", "read", r) : r \in Resources}

\* The reads of an IMREAD queue behind the background calls.
LEMMA FitsReads ==
  ASSUME NEW q, NEW B, Fits(q, B, "none"), NEW reads \in Seq(Reads)
  PROVE  Fits(q \o reads, B, "many")
  <1>. DEFINE p == q \o reads
              n == Len(q)
  <1>0. /\ q \in Seq(Entry) /\ reads \in Seq(Entry)
        /\ \A e \in Reads : e.who = "cmd" /\ e \notin Background
    <2>1. \A e \in Reads : e \in Entry /\ e.who = "cmd" /\ e \notin Background
      BY CommandCalls DEF Reads, Calls
    <2>. QED
      BY <2>1, SeqMonotonic DEF Fits
  <1>1. /\ p \in Seq(Entry) /\ n \in Nat /\ Len(reads) \in Nat /\ Len(p) = n + Len(reads)
        /\ \A i \in 1 .. Len(p) : p[i] = IF i <= n THEN q[i] ELSE reads[i - n]
    BY <1>0, ConcatProperties, LenProperties
  <1>2. \A i \in 1 .. n : i \in 1 .. Len(p) /\ p[i] = q[i]
    BY <1>1
  <1>3. \A i \in 1 .. Len(p) : i \in 1 .. n \/ p[i] \in Reads
    <2>. SUFFICES ASSUME NEW i \in 1 .. Len(p), i \notin 1 .. n PROVE p[i] \in Reads
      OBVIOUS
    <2>1. i - n \in 1 .. Len(reads) /\ p[i] = reads[i - n]
      BY <1>1
    <2>. QED
      BY <2>1, ElementOfSeq
  <1>. HIDE DEF p, n
  <1>4. \A i \in 1 .. n : p[i] \in Background /\ p[i].who # "cmd"
    BY <1>2, BackgroundCalls DEF Fits, n
  <1>5. \A f \in Background : f \in B <=> \E i \in 1 .. Len(p) : p[i] = f
    BY <1>0, <1>2, <1>3 DEF Fits, n
  <1>6. \A i \in 1 .. Len(p) :
           IF p[i].who = "cmd" THEN "many" # "none" ELSE p[i] \in Background
    BY <1>0, <1>3, <1>4
  <1>7. \A i, j \in 1 .. Len(p) : i = j \/ p[i] # p[j] \/ p[i].who = "cmd"
    BY <1>0, <1>2, <1>3, <1>4 DEF Fits, n
  <1>. QED
    BY <1>1, <1>5, <1>6, <1>7 DEF Fits, p

-----------------------------------------------------------------------------
(* What the steps have in common *)

\* The calls a background task is in depend on watch and health alone.
LEMMA CallingKept ==
  ASSUME NEW n \in Names, watch'[n] = watch[n], health'[n] = health[n]
  PROVE  Calling(n)' = Calling(n)
  BY DEF Calling

\* No command is in progress, so no call of one is queued.
LEMMA NoRoom ==
  ASSUME Quiet, NEW n \in Names
  PROVE  Room(n) = "none"
  BY DEF Room

\* The queue of an instrument that a step does not concern still fits.
LEMMA QueueKept ==
  ASSUME QueuesFit, NEW n \in Names, lockq'[n] = lockq[n], Calling(n)' = Calling(n),
         Room(n) = "none" \/ Room(n)' = Room(n)
  PROVE  Fits(lockq'[n], Calling(n)', Room(n)')
  BY FitsMore DEF QueuesFit

\* What a holder's call leaves in a thread when its await ends.
LEMMA AbandonType ==
  ASSUME BusTypeOK, NEW n \in Names, lockq[n] # <<>>, NEW o, Abandon(n, o)
  PROVE  orphan' \in [Names -> SUBSET Calls]
  <1>1. Head(lockq[n]) \in Entry
    BY HeadTailProperties DEF BusTypeOK
  <1>. QED
    BY <1>1 DEF Abandon, Entry, BusTypeOK

\* A step after which the queues fit and the command waits as before.
LEMMA SameCommand ==
  ASSUME QInv, UNCHANGED cmd \/ (Quiet /\ Quiet'), BusTypeOK', QueuesFit',
         \A n \in Names : \A i \in 1 .. Len(lockq[n]) :
             lockq[n][i].who = "cmd" =>
                 \E j \in 1 .. Len(lockq'[n]) : lockq'[n][j].who = "cmd",
         cmd.at \subseteq Names
  PROVE  QInv'
  <1>1. CASE UNCHANGED cmd
    BY <1>1 DEF QInv, OneAtATime, CommandWaits, Quiet
  <1>2. CASE Quiet /\ Quiet'
    BY <1>2 DEF QInv, OneAtATime, CommandWaits, Quiet, Unqueued
  <1>. QED
    BY <1>1, <1>2

\* A step that leaves queues and calls alone.
LEMMA StillQueues ==
  ASSUME QInv, UNCHANGED lockq, UNCHANGED cmd \/ (Quiet /\ Quiet'),
         \A n \in Names : Calling(n)' = Calling(n),
         orphan' \in [Names -> SUBSET Calls], cmd.at \subseteq Names
  PROVE  QInv'
  <1>1. \A n \in Names : Room(n)' = Room(n) /\ lockq'[n] = lockq[n]
    BY DEF Room, Quiet
  <1>2. QueuesFit' /\ BusTypeOK'
    BY <1>1, QueueKept DEF QueuesFit, QInv, BusTypeOK
  <1>. QED
    BY <1>1, <1>2, SameCommand

\* Guards and health tasks are cancelled.
LEMMA CancelQueues ==
  ASSUME QInv, NEW N, NEW gone \in SUBSET Background, Cancel(N, gone),
         UNCHANGED cmd \/ (Quiet /\ Quiet'), cmd.at \subseteq Names,
         \A n \in Names : Calling(n)' = IF n \in N THEN Calling(n) \ gone ELSE Calling(n)
  PROVE  QInv'
  <1>1. \A n \in Names :
           lockq'[n] = IF n \in N THEN Without(lockq[n], gone) ELSE lockq[n]
    BY DEF Cancel
  <1>2. \A n \in Names : Room(n)' = Room(n)
    BY DEF Room, Quiet
  <1>3. \A n \in Names : Fits(lockq'[n], Calling(n)', Room(n)')
    <2>. TAKE n \in Names
    <2>1. Fits(lockq[n], Calling(n), Room(n))
      BY DEF QInv, QueuesFit
    <2>2. CASE n \in N
      BY <1>1, <1>2, <2>1, <2>2, FitsCancel
    <2>3. CASE n \notin N
      BY <1>1, <1>2, <2>1, <2>3
    <2>. QED
      BY <2>2, <2>3
  <1>4. BusTypeOK'
    <2>1. lockq' \in [Names -> Seq(Entry)]
      BY <1>1, <1>3 DEF Cancel, Fits
    <2>2. ASSUME NEW n \in Names, lockq[n] # <<>>
          PROVE  Head(lockq[n]).call \in Calls
      <3>1. Head(lockq[n]) \in Entry
        BY <2>2, HeadTailProperties DEF QInv, BusTypeOK
      <3>. QED
        BY <3>1 DEF Entry
    <2>3. orphan' \in [Names -> SUBSET Calls]
      BY <2>2 DEF Cancel, QInv, BusTypeOK
    <2>. QED
      BY <2>1, <2>3 DEF BusTypeOK
  <1>5. ASSUME NEW n \in Names, NEW i \in 1 .. Len(lockq[n]), lockq[n][i].who = "cmd"
        PROVE  \E j \in 1 .. Len(lockq'[n]) : lockq'[n][j].who = "cmd"
    <2>1. lockq[n] \in Seq(Entry)
      BY DEF QInv, BusTypeOK
    <2>2. lockq[n][i] \notin gone
      BY <1>5, BackgroundCalls
    <2>3. \E j \in 1 .. Len(Without(lockq[n], gone)) :
             Without(lockq[n], gone)[j] = lockq[n][i]
      BY <2>1, <2>2, WithoutElements DEF Selection
    <2>. QED
      BY <1>1, <1>5, <2>3
  <1>6. QueuesFit'
    BY <1>3 DEF QueuesFit
  <1>. QED
    BY <1>4, <1>5, <1>6, SameCommand

\* A command makes its driver call on n.
LEMMA CommandQueues ==
  ASSUME QInv, NEW s, NEW n \in Names, NEW M, NEW meas_, NEW call \in Calls,
         NEW r \in Resources \cup {NoRes}, NEW op \in {"call", "ping", "init", "align"},
         op = "align" => n \notin M,
         NEW q \in [Names -> Seq(Entry)],
         \A m \in Names : Fits(q[m], Calling(m), "none"),
         lockq' = [q EXCEPT ![n] = Append(@, DriverCall("cmd", call, r))],
         cmd' = Running(op, s, {n}, M, meas_),
         orphan' \in [Names -> SUBSET Calls],
         UNCHANGED <<watch, health>>
  PROVE  QInv'
  <1>. DEFINE e == DriverCall("cmd", call, r)
  <1>1. e \in Entry /\ e.who = "cmd"
    BY CommandCalls
  <1>2. /\ lockq'[n] = Append(q[n], e)
        /\ \A m \in Names : m # n => lockq'[m] = q[m]
    OBVIOUS
  <1>3. /\ cmd'.op = op /\ cmd'.at = {n} /\ cmd'.rest = M
        /\ Room(n)' = "one"
        /\ \A m \in Names : m # n => Room(m)' = "none"
    BY DEF Running, Room, Quiet, Unqueued
  <1>. HIDE DEF e
  <1>4. \A m \in Names : Fits(lockq'[m], Calling(m)', Room(m)')
    <2>. TAKE m \in Names
    <2>1. Calling(m)' = Calling(m)
      BY CallingKept
    <2>2. CASE m = n
      BY <1>1, <1>2, <1>3, <2>1, <2>2, FitsCommand
    <2>3. CASE m # n
      BY <1>2, <1>3, <2>1, <2>3
    <2>. QED
      BY <2>2, <2>3
  <1>5. QueuesFit' /\ BusTypeOK'
    BY <1>4 DEF QueuesFit, BusTypeOK, Fits
  <1>6. OneAtATime'
    BY <1>3 DEF OneAtATime
  <1>7. CommandWaits'
    <2>1. \E i \in 1 .. Len(lockq'[n]) : lockq'[n][i].who = "cmd"
      BY <1>1, <1>2, AppendElements
    <2>. QED
      BY <1>3, <2>1 DEF CommandWaits, Quiet
  <1>. QED
    BY <1>5, <1>6, <1>7 DEF QInv

\* A guard or a health task makes its call on n.
LEMMA BackgroundQueues ==
  ASSUME QInv, NEW n \in Names, NEW e \in Background, e \notin Calling(n),
         Enqueue(n, e),
         Calling(n)' = Calling(n) \cup {e},
         \A m \in Names : m # n => Calling(m)' = Calling(m),
         UNCHANGED <<cmd, orphan>>, cmd.at \subseteq Names
  PROVE  QInv'
  <1>0. /\ lockq \in [Names -> Seq(Entry)] /\ orphan \in [Names -> SUBSET Calls]
        /\ e \in Entry
    BY BackgroundCalls DEF QInv, BusTypeOK
  <1>1. /\ lockq'[n] = Append(lockq[n], e)
        /\ \A m \in Names : m # n => lockq'[m] = lockq[m]
    BY <1>0 DEF Enqueue
  <1>2. \A m \in Names : Room(m)' = Room(m)
    BY DEF Room, Quiet
  <1>3. \A m \in Names : Fits(lockq'[m], Calling(m)', Room(m)')
    <2>. TAKE m \in Names
    <2>1. Fits(lockq[m], Calling(m), Room(m))
      BY DEF QInv, QueuesFit
    <2>2. CASE m = n
      <3>1. Fits(lockq[n], Calling(n), Room(n))
        BY <2>1, <2>2
      <3>2. Fits(Append(lockq[n], e), Calling(n) \cup {e}, Room(n))
        BY <3>1, FitsJoin
      <3>3. Fits(lockq'[n], Calling(n)', Room(n)')
        BY <1>1, <1>2, <3>2
      <3>. QED
        BY <2>2, <3>3
    <2>3. CASE m # n
      BY <1>1, <1>2, <2>1, <2>3
    <2>. QED
      BY <2>2, <2>3
  <1>4. QueuesFit' /\ BusTypeOK'
    BY <1>0, <1>3 DEF QueuesFit, BusTypeOK, Enqueue, Fits
  <1>5. ASSUME NEW m \in Names, NEW i \in 1 .. Len(lockq[m])
        PROVE  i \in 1 .. Len(lockq'[m]) /\ lockq'[m][i] = lockq[m][i]
    <2>1. CASE m = n
      <3>1. lockq[n] \in Seq(Entry)
        BY <1>0
      <3>. QED
        BY <1>0, <1>1, <2>1, <3>1, AppendElements
    <2>2. CASE m # n
      BY <1>1, <2>2
    <2>. QED
      BY <2>1, <2>2
  <1>. QED
    BY <1>4, <1>5, SameCommand
\* A guard's or a health task's call on n ends.
LEMMA BackgroundLeaves ==
  ASSUME QInv, NEW n \in Names, lockq[n] # <<>>, Head(lockq[n]) \in Background,
         NEW o, Pop(n, o),
         Calling(n)' = Calling(n) \ {Head(lockq[n])},
         \A m \in Names : m # n => Calling(m)' = Calling(m),
         UNCHANGED cmd, cmd.at \subseteq Names
  PROVE  QInv'
  <1>0. lockq \in [Names -> Seq(Entry)] /\ lockq[n] \in Seq(Entry)
    BY DEF QInv, BusTypeOK
  <1>1. /\ lockq'[n] = Tail(lockq[n])
        /\ \A m \in Names : m # n => lockq'[m] = lockq[m]
    BY <1>0 DEF Pop
  <1>2. \A m \in Names : Room(m)' = Room(m)
    BY DEF Room, Quiet
  <1>3. \A m \in Names : Fits(lockq'[m], Calling(m)', Room(m)')
    <2>. TAKE m \in Names
    <2>1. Fits(lockq[m], Calling(m), Room(m))
      BY DEF QInv, QueuesFit
    <2>2. CASE m = n
      <3>1. Fits(lockq[n], Calling(n), Room(n))
        BY <2>1, <2>2
      <3>2. Fits(Tail(lockq[n]), Calling(n) \ {Head(lockq[n])}, Room(n))
        BY <3>1, FitsLeave
      <3>3. Fits(lockq'[n], Calling(n)', Room(n)')
        BY <1>1, <1>2, <3>2
      <3>. QED
        BY <2>2, <3>3
    <2>3. CASE m # n
      BY <1>1, <1>2, <2>1, <2>3
    <2>. QED
      BY <2>2, <2>3
  <1>4. QueuesFit' /\ BusTypeOK'
    <2>1. lockq' \in [Names -> Seq(Entry)]
      BY <1>0, <1>3 DEF Pop, Fits
    <2>2. orphan' \in [Names -> SUBSET Calls]
      BY AbandonType DEF Pop, QInv
    <2>. QED
      BY <1>3, <2>1, <2>2 DEF QueuesFit, BusTypeOK
  <1>5. ASSUME NEW m \in Names, NEW i \in 1 .. Len(lockq[m]), lockq[m][i].who = "cmd"
        PROVE  \E j \in 1 .. Len(lockq'[m]) : lockq'[m][j].who = "cmd"
    <2>1. CASE m = n
      <3>1. Head(lockq[n]).who # "cmd" /\ Head(lockq[n]) = lockq[n][1]
        BY <1>0, BackgroundCalls, TailElements
      <3>2. i \in 2 .. Len(lockq[n])
        <4>1. i # 1 /\ Len(lockq[n]) \in Nat
          BY <1>0, <1>5, <2>1, <3>1, LenProperties
        <4>. QED
          BY <2>1, <4>1
      <3>3. /\ i - 1 \in 1 .. Len(Tail(lockq[n]))
            /\ Tail(lockq[n])[i - 1] = lockq[n][i]
        BY <1>0, <3>2, TailElements
      <3>. QED
        BY <1>1, <1>5, <2>1, <3>3
    <2>2. CASE m # n
      BY <1>1, <1>5, <2>2
    <2>. QED
      BY <2>1, <2>2
  <1>. QED
    BY <1>4, <1>5, SameCommand

\* When a call on n of a command that calls one driver at a time ends, no call
\* of that command is queued anywhere.
LEMMA CommandLeft ==
  ASSUME QInv, NEW n \in Names, Holds(n, "cmd"), n \in cmd.at,
         cmd.op \in {"call", "ping", "init", "align"},
         NEW q, q = [lockq EXCEPT ![n] = Tail(@)]
  PROVE  /\ q \in [Names -> Seq(Entry)]
         /\ \A m \in Names : Fits(q[m], Calling(m), "none")
  <1>0. lockq \in [Names -> Seq(Entry)] /\ lockq[n] \in Seq(Entry) /\ lockq[n] # <<>>
    BY DEF QInv, BusTypeOK, Holds
  <1>1. cmd.at = {n}
    BY DEF QInv, OneAtATime
  <1>2. Room(n) = "one" /\ \A m \in Names : m # n => Room(m) = "none"
    BY <1>1 DEF Room, Quiet, Unqueued
  <1>3. \A m \in Names : Fits(q[m], Calling(m), "none")
    <2>. TAKE m \in Names
    <2>1. Fits(lockq[m], Calling(m), Room(m))
      BY DEF QInv, QueuesFit
    <2>2. CASE m = n
      <3>1. Fits(lockq[n], Calling(n), "one")
        BY <1>2, <2>1, <2>2
      <3>2. Fits(Tail(lockq[n]), Calling(n), RoomLeft("one"))
        BY <1>0, <3>1, FitsCommandLeaves DEF Holds
      <3>3. RoomLeft("one") = "none"
        BY DEF RoomLeft
      <3>. QED
        BY <1>0, <2>2, <3>2, <3>3
    <2>3. CASE m # n
      BY <1>0, <1>2, <2>1, <2>3
    <2>. QED
      BY <2>2, <2>3
  <1>4. q \in [Names -> Seq(Entry)]
    BY <1>0, <1>3 DEF Fits
  <1>. QED
    BY <1>3, <1>4

\* The last call of the command in progress ends, and the command with it.
LEMMA CommandLeaves ==
  ASSUME QInv, NEW n \in Names, Holds(n, "cmd"), n \in cmd.at,
         cmd.op \in {"call", "ping", "init", "align"},
         NEW o, Pop(n, o), cmd' = NoCmd, UNCHANGED <<watch, health>>
  PROVE  QInv'
  <1>1. /\ lockq' \in [Names -> Seq(Entry)]
        /\ \A m \in Names : Fits(lockq'[m], Calling(m), "none")
    BY CommandLeft DEF Pop
  <1>2. Quiet' /\ \A m \in Names : Room(m)' = "none"
    BY DEF Quiet, Unqueued, NoCmd, Room
  <1>3. \A m \in Names : Fits(lockq'[m], Calling(m)', Room(m)')
    BY <1>1, <1>2, CallingKept
  <1>4. orphan' \in [Names -> SUBSET Calls]
    BY AbandonType DEF Pop, QInv, Holds
  <1>. QED
    BY <1>1, <1>2, <1>3, <1>4
       DEF QInv, QueuesFit, BusTypeOK, OneAtATime, CommandWaits, Quiet, Unqueued, NoCmd

-----------------------------------------------------------------------------
(* One lemma per action: it preserves QInv. *)

\* A guard's task no longer waits in a call: what that does to Calling.
LEMMA CallingWithoutGuard ==
  ASSUME WatchTypeOK, NEW n \in Names, NEW r \in Resources, NEW pc, pc # "call",
         watch' = [watch EXCEPT ![n][r] = pc], UNCHANGED health
  PROVE  \A m \in Names : Calling(m)' = IF m = n THEN Calling(m) \ {WatchEntry(r)}
                                                 ELSE Calling(m)
  <1>1. \A e \in Background : e = WatchEntry(r) => e.who = "watch" /\ e.res = r
    BY DEF WatchEntry, DriverCall
  <1>. QED
    BY <1>1, BackgroundCalls DEF Calling, WatchTypeOK

\* The same for all guards of instruments.
LEMMA CallingWithoutGuards ==
  ASSUME NEW N, UNCHANGED health,
         watch' = [n \in Names |-> IF n \in N THEN [r \in Resources |-> "none"]
                                              ELSE watch[n]]
  PROVE  \A m \in Names : Calling(m)' = IF m \in N THEN Calling(m) \ WatchEntries
                                                   ELSE Calling(m)
  <1>1. \A e \in WatchEntries : e.who = "watch"
    BY DEF WatchEntries, WatchEntry, DriverCall
  <1>2. \A e \in Background : e.who = "watch" => e \in WatchEntries /\ e.res \in Resources
    BY BackgroundCalls DEF WatchEntries
  <1>. QED
    BY <1>1, <1>2 DEF Calling

\* The health task of n no longer waits in a call.
LEMMA CallingWithoutPing ==
  ASSUME HealthTypeOK, NEW n \in Names, NEW pc, pc # "call",
         health' = [health EXCEPT ![n] = pc], UNCHANGED watch
  PROVE  \A m \in Names : Calling(m)' = IF m = n THEN Calling(m) \ {PingEntry}
                                                 ELSE Calling(m)
  <1>1. PingEntry.who = "health"
    BY DEF PingEntry, DriverCall
  <1>. QED
    BY <1>1, BackgroundCalls DEF Calling, HealthTypeOK

\* What the step lemmas need of the types.
LEMMA Types ==
  ASSUME IInv
  PROVE  /\ cmd \in CmdType /\ cmd.at \subseteq Names /\ cmd.rest \subseteq Names
         /\ WatchTypeOK /\ HealthTypeOK
  BY DEF IInv, TypeOK, SessionTypeOK, CmdType

\* IADD preserves QInv.
LEMMA IADDQueues ==
  ASSUME IInv, QInv, NEW s, NEW n \in Names, IADD(s, n)
  PROVE  QInv'
  <1>1. health[n] # "call" /\ watch' = watch
    BY DEF IADD, Add, IInv, TasksOnRegistered
  <1>2. PICK pc \in {"sleep", "off"} : health' = [health EXCEPT ![n] = pc]
    BY DEF IADD, StartHealth
  <1>3. \A m \in Names : Calling(m)' = IF m = n THEN Calling(m) \ {PingEntry}
                                               ELSE Calling(m)
    BY <1>1, <1>2, Types, CallingWithoutPing
  <1>4. PingEntry \notin Calling(n)
    BY <1>1 DEF Calling, PingEntry, DriverCall
  <1>. QED
    BY <1>3, <1>4, Types, StillQueues DEF IADD, busVars, sessionVars, QInv, BusTypeOK

\* Steps that touch neither queues nor calls nor the command preserve QInv.
LEMMA OtherQueues ==
  ASSUME IInv, QInv, UNCHANGED <<busVars, watch, health, cmd>>
  PROVE  QInv'
  <1>1. \A n \in Names : Calling(n)' = Calling(n)
    BY CallingKept DEF busVars
  <1>. QED
    BY <1>1, Types, StillQueues DEF busVars, QInv, BusTypeOK

\* So do the steps of ILOCK and IUNLOCK that only touch the command.
LEMMA QuietQueues ==
  ASSUME IInv, QInv, UNCHANGED <<busVars, watch, health>>, Quiet, Quiet'
  PROVE  QInv'
  <1>1. \A n \in Names : Calling(n)' = Calling(n)
    BY CallingKept
  <1>. QED
    BY <1>1, Types, StillQueues DEF busVars, QInv, BusTypeOK

\* An ILOCK or IUNLOCK begins, an ILOCK runs, an IUNLOCK ends early.
LEMMA LockingQueues ==
  ASSUME IInv, QInv,
         \/ HandleLock \/ UnlockAborts
         \/ \E s \in Sessions : \E N \in SUBSET Names : ILOCK(s, N) \/ IUNLOCK(s, N)
  PROVE  QInv'
  <1>1. UNCHANGED <<busVars, watch, health>>
    BY DEF HandleLock, UnlockAborts, ILOCK, IUNLOCK, GivenLock, instVars, busVars, healthVars
  <1>2. Quiet /\ Quiet'
    BY DEF HandleLock, UnlockAborts, ILOCK, IUNLOCK, GivenLock, Dispatch, Running,
           Quiet, Unqueued, NoCmd
  <1>. QED
    BY <1>1, <1>2, QuietQueues

\* A guard that trips preserves QInv.
LEMMA GuardTripQueues ==
  ASSUME IInv, QInv, NEW n \in Names, NEW r \in Resources, GuardTrip(n, r),
         UNCHANGED <<healthVars, sessionVars>>
  PROVE  QInv'
  <1>1. PICK pc \in {"sleep", "dead"} : watch' = [watch EXCEPT ![n][r] = pc]
    BY DEF GuardTrip
  <1>2. \A m \in Names : Calling(m)' = IF m = n THEN Calling(m) \ {WatchEntry(r)}
                                               ELSE Calling(m)
    BY <1>1, Types, CallingWithoutGuard DEF healthVars
  <1>3. WatchEntry(r) \notin Calling(n)
    BY DEF Calling, GuardTrip, WatchEntry, DriverCall
  <1>. QED
    BY <1>2, <1>3, Types, StillQueues DEF GuardTrip, busVars, sessionVars, QInv, BusTypeOK

\* The hardware preserves QInv.
LEMMA HardwareQueues ==
  ASSUME IInv, QInv, NEW n \in Names, Hardware(n)
  PROVE  QInv'
  <1>1. orphan' \in [Names -> SUBSET Calls]
    BY DEF Hardware, WriteLands, OrphanEnds, busVars, QInv, BusTypeOK
  <1>2. \A m \in Names : Calling(m)' = Calling(m)
    BY CallingKept DEF Hardware, healthVars
  <1>. QED
    BY <1>1, <1>2, Types, StillQueues
       DEF Hardware, WriteLands, OrphanEnds, busVars, sessionVars

\* Stopping the guards of instruments preserves QInv.
LEMMA StopInstrumentsQueues ==
  ASSUME IInv, QInv, NEW N, StopInstruments(N, {}), UNCHANGED health,
         UNCHANGED cmd \/ (Quiet /\ Quiet')
  PROVE  QInv'
  <1>1. Cancel(N, WatchEntries) /\ WatchEntries \in SUBSET Background
    BY DEF StopInstruments, Background
  <1>2. \A m \in Names : Calling(m)' = IF m \in N THEN Calling(m) \ WatchEntries
                                                  ELSE Calling(m)
    BY CallingWithoutGuards DEF StopInstruments
  <1>. QED
    BY <1>1, <1>2, Types, CancelQueues

\* IREMOVE preserves QInv.
LEMMA IREMOVEQueues ==
  ASSUME IInv, QInv, NEW s, NEW n \in Names, IREMOVE(s, n)
  PROVE  QInv'
  <1>1. Cancel({n}, Background)
    BY DEF IREMOVE, StopInstruments, Background
  <1>2. \A m \in Names : Calling(m)' = IF m \in {n} THEN Calling(m) \ Background
                                                    ELSE Calling(m)
    <2>1. \A m \in Names : m # n => watch'[m] = watch[m] /\ health'[m] = health[m]
      BY Types DEF IREMOVE, StopInstruments, StopHealth, WatchTypeOK, HealthTypeOK
    <2>2. /\ \A r \in Resources : watch'[n][r] = "none"
          /\ health'[n] = "off"
      BY Types DEF IREMOVE, StopInstruments, StopHealth, HealthTypeOK
    <2>3. Calling(n)' = {}
      BY <2>2, BackgroundCalls DEF Calling
    <2>4. Calling(n) \subseteq Background
      BY DEF Calling
    <2>5. \A m \in Names : m # n => Calling(m)' = Calling(m)
      BY <2>1, CallingKept
    <2>. QED
      BY <2>3, <2>4, <2>5
  <1>. QED
    BY <1>1, <1>2, Types, CancelQueues DEF IREMOVE, sessionVars

\* Starting or stopping one guard preserves QInv.
LEMMA OneGuardQueues ==
  ASSUME IInv, QInv, NEW n \in Names, NEW r \in Resources,
         StartWatch(n, r) \/ StopWatch(n, r), UNCHANGED <<health, cmd>>
  PROVE  QInv'
  <1>1. Cancel({n}, {WatchEntry(r)}) /\ {WatchEntry(r)} \in SUBSET Background
    BY DEF StartWatch, StopWatch, Background, WatchEntries
  <1>2. PICK pc \in {"sleep", "none"} : watch' = [watch EXCEPT ![n][r] = pc]
    BY DEF StartWatch, StopWatch
  <1>3. \A m \in Names : Calling(m)' = IF m \in {n} THEN Calling(m) \ {WatchEntry(r)}
                                                    ELSE Calling(m)
    BY <1>2, Types, CallingWithoutGuard
  <1>. QED
    BY <1>1, <1>3, Types, CancelQueues

\* A round of an unlock preserves QInv.
LEMMA UnlockRoundQueues ==
  ASSUME IInv, QInv, NEW s, NEW n \in Names, NEW rest, UnlockRound(s, n, rest), Quiet
  PROVE  QInv'
  <1>1. StopInstruments({n}, {}) /\ UNCHANGED health
    BY DEF UnlockRound, ReleaseInst, healthVars
  <1>2. Quiet'
    BY DEF UnlockRound, Quiet, Unqueued, NoCmd, Running
  <1>. QED
    BY <1>1, <1>2, StopInstrumentsQueues

\* A round of the release loop of close() preserves QInv.
LEMMA CloseReleaseQueues ==
  ASSUME IInv, QInv, NEW s, NEW N, CloseRelease(s, N)
  PROVE  QInv'
  BY StopInstrumentsQueues DEF CloseRelease, ReleaseInst, healthVars

\* The first driver call of a command preserves QInv.
LEMMA StartCallQueues ==
  ASSUME IInv, QInv, NEW s, NEW op \in {"call", "ping", "init"}, NEW n \in Names,
         NEW call \in Calls, NEW r \in Resources \cup {NoRes}, NEW m, cmd = NoCmd,
         StartCall(s, op, n, DriverCall("cmd", call, r), m)
  PROVE  QInv'
  <1>1. /\ lockq \in [Names -> Seq(Entry)]
        /\ \A k \in Names : Fits(lockq[k], Calling(k), "none")
    BY NoRoom DEF QInv, BusTypeOK, QueuesFit, Quiet, Unqueued, NoCmd
  <1>2. /\ lockq' = [lockq EXCEPT ![n] = Append(@, DriverCall("cmd", call, r))]
        /\ cmd' = Running(op, s, {n}, {}, m)
        /\ orphan' \in [Names -> SUBSET Calls]
        /\ UNCHANGED <<watch, health>>
    BY DEF StartCall, Enqueue, healthVars, QInv, BusTypeOK
  <1>. QED
    BY <1>1, <1>2, CommandQueues

\* IALIGN preserves QInv.
LEMMA IALIGNQueues ==
  ASSUME IInv, QInv, NEW s, NEW N \in SUBSET Names, IALIGN(s, N)
  PROVE  QInv'
  <1>1. /\ lockq \in [Names -> Seq(Entry)]
        /\ \A k \in Names : Fits(lockq[k], Calling(k), "none")
    BY NoRoom DEF QInv, BusTypeOK, QueuesFit, Quiet, Unqueued, NoCmd, IALIGN, Dispatch
  <1>2. PICK n \in N :
           /\ lockq' = [lockq EXCEPT ![n] = Append(@, DriverCall("cmd", "discover", NoRes))]
           /\ cmd' = Running("align", s, {n}, N \ {n}, FALSE)
    BY DEF IALIGN, Enqueue
  <1>3. orphan' \in [Names -> SUBSET Calls] /\ UNCHANGED <<watch, health>>
    BY DEF IALIGN, healthVars, QInv, BusTypeOK
  <1>. QED
    BY <1>1, <1>2, <1>3, CommandQueues DEF Calls

\* The sequence of reads that an IMREAD makes on one instrument.
LEMMA ReadsOnElements ==
  ASSUME NEW args \in Targets, NEW n \in Names
  PROVE  /\ ReadsOn(n, args) \in Seq(Reads)
         /\ (\A i \in DOMAIN args : args[i][1] # n) => ReadsOn(n, args) = <<>>
         /\ CheckReady(n) /\ (\E i \in DOMAIN args : args[i][1] = n)
              => Len(ReadsOn(n, args)) > 0
  <1>. DEFINE K == {i \in DOMAIN args : args[i][1] = n /\ CheckReady(n)}
              mine == Picked(args, K)
  <1>1. PICK k \in 1 .. MaxTargets : args \in [1 .. k -> Names \X Resources]
    BY DEF Targets
  <1>2. args \in Seq(Names \X Resources) /\ Len(args) = k /\ k \in Nat
    BY <1>1, MaxTargetsAssumption
  <1>3. mine \in Seq(Names \X Resources) /\ Selection(mine, args, K)
    <2>1. K \in SUBSET (1 .. Len(args))
      BY <1>1, <1>2
    <2>. QED
      BY <1>2, <2>1, PickedElements
  <1>. HIDE DEF K, mine
  <1>4. PICK at \in [1 .. Len(mine) -> K] : \A i \in K : \E j \in 1 .. Len(mine) : at[j] = i
    BY <1>3 DEF Selection
  <1>5. ReadsOn(n, args) = [i \in 1 .. Len(mine) |-> DriverCall("cmd", "read", mine[i][2])]
    BY DEF ReadsOn, K, mine
  <1>6. ReadsOn(n, args) \in Seq(Reads) /\ Len(ReadsOn(n, args)) = Len(mine)
    <2>1. Len(mine) \in Nat
      BY <1>3, LenProperties
    <2>2. \A i \in 1 .. Len(mine) : mine[i] \in Names \X Resources
      BY <1>3, ElementOfSeq
    <2>3. \A i \in 1 .. Len(mine) : DriverCall("cmd", "read", mine[i][2]) \in Reads
      BY <2>2 DEF Reads
    <2>4. ReadsOn(n, args) \in [1 .. Len(mine) -> Reads]
      BY <1>5, <2>3
    <2>. QED
      BY <2>1, <2>4
  <1>7. (\A i \in DOMAIN args : args[i][1] # n) => ReadsOn(n, args) = <<>>
    <2>1. (\A i \in DOMAIN args : args[i][1] # n) => K = {}
      BY DEF K
    <2>2. K = {} => Len(mine) = 0
      <3>1. Len(mine) \in Nat
        BY <1>3, LenProperties
      <3>2. \A j \in 1 .. Len(mine) : at[j] \in K
        BY <1>4
      <3>3. Len(mine) # 0 => 1 \in 1 .. Len(mine)
        BY <3>1
      <3>. QED
        BY <3>2, <3>3
    <2>. QED
      BY <1>6, <2>1, <2>2, EmptySeq
  <1>8. CheckReady(n) /\ (\E i \in DOMAIN args : args[i][1] = n) => Len(mine) > 0
    <2>1. CheckReady(n) /\ (\E i \in DOMAIN args : args[i][1] = n)
             => \E i : i \in K
      BY DEF K
    <2>2. Len(mine) \in Nat
      BY <1>3, LenProperties
    <2>. QED
      BY <1>4, <2>1, <2>2
  <1>. QED
    BY <1>6, <1>7, <1>8

\* IMREAD preserves QInv.
LEMMA IMREADQueues ==
  ASSUME IInv, QInv, NEW s \in Sessions, NEW args \in Targets, IMREAD(s, args)
  PROVE  QInv'
  <1>. DEFINE N == {args[i][1] : i \in DOMAIN args}
  <1>1. N \subseteq Names
    BY DEF Targets
  <1>2. /\ \A n \in Names : lockq'[n] = lockq[n] \o ReadsOn(n, args)
        /\ cmd'.op = "mread" /\ cmd'.at = N
        /\ \E n \in N : CheckReady(n)
    BY DEF IMREAD, Running
  <1>3. \A n \in Names :
           /\ Fits(lockq[n], Calling(n), "none")
           /\ lockq[n] \in Seq(Entry)
           /\ Calling(n)' = Calling(n)
           /\ Room(n)' = IF n \in N THEN "many" ELSE "none"
    <2>1. Quiet
      BY DEF IMREAD, Dispatch, Quiet, Unqueued, NoCmd
    <2>2. \A n \in Names : Calling(n)' = Calling(n)
      BY CallingKept DEF IMREAD, healthVars
    <2>3. \A n \in Names : Fits(lockq[n], Calling(n), "none")
      BY <2>1, NoRoom DEF QInv, QueuesFit
    <2>4. \A n \in Names : Room(n)' = IF n \in N THEN "many" ELSE "none"
      BY <1>2 DEF Room, Quiet, Unqueued
    <2>. QED
      BY <2>2, <2>3, <2>4 DEF QInv, BusTypeOK
  <1>4. \A n \in Names : n \notin N => ReadsOn(n, args) = <<>>
    BY ReadsOnElements
  <1>5. \A n \in N : CheckReady(n) => Len(ReadsOn(n, args)) > 0
    BY <1>1, ReadsOnElements
  <1>. HIDE DEF N
  <1>6. \A n \in Names : Fits(lockq'[n], Calling(n)', Room(n)')
    <2>. TAKE n \in Names
    <2>1. CASE n \in N
      <3>1. ReadsOn(n, args) \in Seq(Reads) /\ Fits(lockq[n], Calling(n), "none")
        BY <1>3, ReadsOnElements
      <3>2. Fits(lockq[n] \o ReadsOn(n, args), Calling(n), "many")
        BY <3>1, FitsReads
      <3>. QED
        BY <1>2, <1>3, <2>1, <3>2
    <2>2. CASE n \notin N
      <3>1. lockq'[n] = lockq[n]
        BY <1>2, <1>3, <1>4, <2>2, ConcatEmptySeq
      <3>. QED
        BY <1>3, <2>2, <3>1
    <2>. QED
      BY <2>1, <2>2
  <1>7. QueuesFit' /\ BusTypeOK'
    <2>1. lockq' \in [Names -> Seq(Entry)]
      BY <1>6 DEF IMREAD, Fits
    <2>. QED
      BY <1>6, <2>1 DEF QueuesFit, BusTypeOK, IMREAD, QInv
  <1>8. CommandWaits'
    <2>1. PICK n \in N : Len(ReadsOn(n, args)) > 0
      BY <1>2, <1>5
    <2>. DEFINE reads == ReadsOn(n, args)
                i == Len(lockq[n]) + 1
    <2>2. /\ reads \in Seq(Reads) /\ lockq[n] \in Seq(Entry)
          /\ Len(lockq[n]) \in Nat /\ Len(reads) \in Nat
      BY <1>1, <1>3, ReadsOnElements, LenProperties
    <2>3. reads[1].who = "cmd" /\ reads \in Seq(Entry)
      <3>1. \A e \in Reads : e.who = "cmd" /\ e \in Entry
        BY CommandCalls DEF Reads, Calls
      <3>2. 1 \in 1 .. Len(reads)
        BY <2>1, <2>2
      <3>3. reads[1] \in Reads
        BY <2>2, <3>2, ElementOfSeq
      <3>. QED
        BY <2>2, <3>1, <3>3, SeqMonotonic
    <2>. HIDE DEF reads
    <2>4. /\ Len(lockq[n] \o reads) = Len(lockq[n]) + Len(reads)
          /\ i \in 1 .. Len(lockq[n]) + Len(reads)
          /\ (lockq[n] \o reads)[i] = reads[1]
      <3>1. i \in 1 .. Len(lockq[n]) + Len(reads) /\ ~(i <= Len(lockq[n]))
                /\ i - Len(lockq[n]) = 1
        BY <2>1, <2>2 DEF reads
      <3>. QED
        BY <2>2, <2>3, <3>1, ConcatProperties
    <2>5. lockq'[n] = lockq[n] \o reads
      BY <1>1, <1>2 DEF reads
    <2>6. i \in 1 .. Len(lockq'[n]) /\ lockq'[n][i].who = "cmd"
      BY <2>3, <2>4, <2>5
    <2>. QED
      BY <1>2, <2>6 DEF CommandWaits
  <1>9. OneAtATime'
    BY <1>2 DEF OneAtATime
  <1>. QED
    BY <1>7, <1>8, <1>9 DEF QInv

\* A queue with no call of the command in progress.
LEMMA FitsNone ==
  ASSUME NEW q, NEW B, NEW room, Fits(q, B, room),
         \A i \in 1 .. Len(q) : q[i].who # "cmd"
  PROVE  Fits(q, B, "none")
  BY DEF Fits

\* The end of a read of an IMREAD preserves QInv.
LEMMA MreadReturnsQueues ==
  ASSUME IInv, QInv, NEW n \in Names, NEW o, MreadReturns(n, o)
  PROVE  QInv'
  <1>0. /\ lockq \in [Names -> Seq(Entry)] /\ lockq[n] \in Seq(Entry) /\ lockq[n] # <<>>
        /\ Head(lockq[n]).who = "cmd" /\ n \in cmd.at /\ cmd.op = "mread"
    BY DEF QInv, BusTypeOK, Holds, MreadReturns
  <1>1. /\ lockq'[n] = Tail(lockq[n])
        /\ \A m \in Names : m # n => lockq'[m] = lockq[m]
    BY <1>0 DEF Pop, MreadReturns
  <1>2. \A m \in Names : /\ Room(m) = IF m \in cmd.at THEN "many" ELSE "none"
                         /\ Calling(m)' = Calling(m)
    <2>1. \A m \in Names : Room(m) = IF m \in cmd.at THEN "many" ELSE "none"
      BY <1>0 DEF Room, Quiet, Unqueued
    <2>2. \A m \in Names : Calling(m)' = Calling(m)
      BY CallingKept DEF MreadReturns, healthVars
    <2>. QED
      BY <2>1, <2>2
  <1>3. \A m \in Names : Fits(lockq'[m], Calling(m)', Room(m))
    <2>. TAKE m \in Names
    <2>1. Fits(lockq[m], Calling(m), Room(m))
      BY DEF QInv, QueuesFit
    <2>2. CASE m = n
      <3>1. Fits(lockq[n], Calling(n), "many")
        BY <1>0, <1>2, <2>1, <2>2
      <3>2. Fits(Tail(lockq[n]), Calling(n), RoomLeft("many"))
        BY <1>0, <3>1, FitsCommandLeaves
      <3>3. RoomLeft("many") = "many"
        BY DEF RoomLeft
      <3>4. Fits(lockq'[n], Calling(n)', Room(n))
        BY <1>0, <1>1, <1>2, <3>2, <3>3
      <3>. QED
        BY <2>2, <3>4
    <2>3. CASE m # n
      BY <1>1, <1>2, <2>1, <2>3
    <2>. QED
      BY <2>2, <2>3
  <1>4. BusTypeOK'
    <2>1. lockq' \in [Names -> Seq(Entry)]
      BY <1>0, <1>3 DEF MreadReturns, Pop, Fits
    <2>2. orphan' \in [Names -> SUBSET Calls]
      BY <1>0, AbandonType DEF MreadReturns, Pop, QInv
    <2>. QED
      BY <2>1, <2>2 DEF BusTypeOK
  <1>5. /\ Len(lockq[n]) \in Nat
        /\ \A i \in 1 .. Len(Tail(lockq[n])) :
              i + 1 \in 2 .. Len(lockq[n]) /\ Tail(lockq[n])[i] = lockq[n][i + 1]
        /\ \A i \in 2 .. Len(lockq[n]) :
              i - 1 \in 1 .. Len(Tail(lockq[n])) /\ Tail(lockq[n])[i - 1] = lockq[n][i]
    BY <1>0, TailElements
  <1>6. CASE LastCall(n)
    <2>1. cmd' = NoCmd
      BY <1>6 DEF MreadReturns
    <2>2. \A m \in Names : \A i \in 1 .. Len(lockq'[m]) : lockq'[m][i].who # "cmd"
      <3>. SUFFICES ASSUME NEW m \in Names, NEW i \in 1 .. Len(lockq'[m])
                    PROVE  lockq'[m][i].who # "cmd"
        OBVIOUS
      <3>1. CASE m = n
        <4>1. i + 1 \in 2 .. Len(lockq[n]) /\ lockq'[n][i] = lockq[n][i + 1]
          BY <1>1, <1>5, <3>1
        <4>2. i + 1 \in DOMAIN lockq[n] /\ i + 1 # 1
          BY <1>0, <1>5, <4>1, LenProperties
        <4>3. lockq[n][i + 1].who # "cmd"
          BY <1>6, <4>2 DEF LastCall
        <4>. QED
          BY <3>1, <4>1, <4>3
      <3>2. CASE m # n
        <4>1. lockq'[m] = lockq[m] /\ lockq[m] \in Seq(Entry)
          BY <1>0, <1>1, <3>2
        <4>2. i \in DOMAIN lockq[m]
          BY <4>1, LenProperties
        <4>. QED
          BY <1>6, <3>2, <4>1, <4>2 DEF LastCall
      <3>. QED
        BY <3>1, <3>2
    <2>3. \A m \in Names : Room(m)' = "none"
      BY <2>1 DEF Room, Quiet, Unqueued, NoCmd
    <2>4. \A m \in Names : Fits(lockq'[m], Calling(m)', "none")
      BY <1>3, <2>2, FitsNone
    <2>5. QueuesFit'
      BY <2>3, <2>4 DEF QueuesFit
    <2>. QED
      BY <1>4, <2>1, <2>5 DEF QInv, OneAtATime, CommandWaits, Quiet, Unqueued, NoCmd
  <1>7. CASE ~LastCall(n)
    <2>1. cmd' = cmd
      BY <1>7 DEF MreadReturns
    <2>2. \A m \in Names : Room(m)' = Room(m)
      BY <2>1 DEF Room, Quiet
    <2>3. QueuesFit'
      BY <1>3, <2>2 DEF QueuesFit
    <2>4. PICK m \in Names : \E i \in DOMAIN lockq[m] :
             lockq[m][i].who = "cmd" /\ ~(m = n /\ i = 1)
      BY <1>7 DEF LastCall
    <2>5. PICK i \in DOMAIN lockq[m] : lockq[m][i].who = "cmd" /\ ~(m = n /\ i = 1)
      BY <2>4
    <2>6. lockq[m] \in Seq(Entry) /\ i \in 1 .. Len(lockq[m])
      BY <1>0, LenProperties
    <2>7. m \in cmd.at
      <3>1. Room(m) # "none"
        BY <2>5, <2>6 DEF QInv, QueuesFit, Fits
      <3>. QED
        BY <1>2, <3>1
    <2>8. \E j \in 1 .. Len(lockq'[m]) : lockq'[m][j].who = "cmd"
      <3>1. CASE m = n
        <4>1. i \in 2 .. Len(lockq[n])
          BY <1>5, <2>5, <2>6, <3>1
        <4>2. i - 1 \in 1 .. Len(Tail(lockq[n])) /\ Tail(lockq[n])[i - 1] = lockq[n][i]
          BY <1>5, <4>1
        <4>. QED
          BY <1>1, <2>5, <3>1, <4>2
      <3>2. CASE m # n
        BY <1>1, <2>5, <2>6, <3>2
      <3>. QED
        BY <3>1, <3>2
    <2>9. OneAtATime' /\ CommandWaits'
      BY <1>0, <2>1, <2>7, <2>8 DEF OneAtATime, CommandWaits
    <2>. QED
      BY <1>4, <2>3, <2>9 DEF QInv
  <1>. QED
    BY <1>6, <1>7

\* The call that ends a command preserves QInv.
LEMMA CommandEndsQueues ==
  ASSUME IInv, QInv, NEW n \in Names, NEW o,
         \/ CallReturns(n, o) \/ PlainCallEnds(n, o) \/ InitCompletes(n)
  PROVE  QInv'
  <1>1. /\ Holds(n, "cmd") /\ n \in cmd.at /\ cmd' = NoCmd
        /\ cmd.op \in {"call", "ping", "init", "align"}
        /\ \E out : Pop(n, out)
        /\ UNCHANGED <<watch, health>>
    BY DEF CallReturns, PlainCallEnds, InitCompletes, healthVars
  <1>. QED
    BY <1>1, CommandLeaves

\* The next call of an IINIT preserves QInv.
LEMMA InitContinuesQueues ==
  ASSUME IInv, QInv, NEW n \in Names, InitContinues(n)
  PROVE  QInv'
  <1>. DEFINE q == [lockq EXCEPT ![n] = Tail(@)]
  <1>0. /\ Holds(n, "cmd") /\ n \in cmd.at /\ cmd.op = "init" /\ cmd.at = {n}
        /\ lockq \in [Names -> Seq(Entry)]
    BY DEF InitContinues, QInv, OneAtATime, BusTypeOK
  <1>1. /\ q \in [Names -> Seq(Entry)]
        /\ \A m \in Names : Fits(q[m], Calling(m), "none")
    BY <1>0, CommandLeft
  <1>2. PICK call \in Calls : PopThenEnqueue(n, "ok", DriverCall("cmd", call, NoRes))
    BY DEF InitContinues, Calls
  <1>3. lockq' = [q EXCEPT ![n] = Append(@, DriverCall("cmd", call, NoRes))]
    BY <1>0, <1>2 DEF PopThenEnqueue
  <1>4. cmd' = Running("init", cmd.sess, {n}, cmd.rest, cmd.meas)
    BY <1>0, Types DEF CmdType, Running, InitContinues, sessionVars
  <1>5. orphan' \in [Names -> SUBSET Calls]
    BY <1>0, <1>2, AbandonType DEF PopThenEnqueue, QInv, Holds
  <1>6. UNCHANGED <<watch, health>>
    BY DEF InitContinues, healthVars
  <1>. HIDE DEF q
  <1>. QED
    BY <1>1, <1>3, <1>4, <1>5, <1>6, CommandQueues

\* The end of the discovery of one name of an IALIGN preserves QInv.
LEMMA AlignContinuesQueues ==
  ASSUME IInv, QInv, NEW n \in Names, AlignContinues(n)
  PROVE  QInv'
  <1>. DEFINE q == [lockq EXCEPT ![n] = Tail(@)]
  <1>0. /\ Holds(n, "cmd") /\ n \in cmd.at /\ cmd.op = "align"
        /\ lockq \in [Names -> Seq(Entry)] /\ Abandon(n, "ok")
        /\ UNCHANGED <<watch, health>>
    BY DEF AlignContinues, QInv, BusTypeOK, healthVars
  <1>1. /\ q \in [Names -> Seq(Entry)]
        /\ \A m \in Names : Fits(q[m], Calling(m), "none")
    BY <1>0, CommandLeft
  <1>2. orphan' \in [Names -> SUBSET Calls]
    BY <1>0, AbandonType DEF QInv, Holds
  <1>3. CASE lockq' = q /\ cmd' = NoCmd
    BY <1>0, <1>3, CommandLeaves DEF Pop
  <1>4. ASSUME NEW m \in cmd.rest,
               lockq' = [lockq EXCEPT ![n] = Tail(@), ![m] =
                            Append(@, DriverCall("cmd", "discover", NoRes))],
               cmd' = Running("align", cmd.sess, {m}, cmd.rest \ {m}, FALSE)
        PROVE  QInv'
    <2>1. m \in Names /\ m # n
      BY <1>0, Types DEF QInv, OneAtATime
    <2>2. lockq' = [q EXCEPT ![m] = Append(@, DriverCall("cmd", "discover", NoRes))]
      BY <1>0, <1>4, <2>1
    <2>. HIDE DEF q
    <2>. QED
      BY <1>0, <1>1, <1>2, <1>4, <2>1, <2>2, CommandQueues DEF Calls
  <1>. QED
    BY <1>3, <1>4 DEF AlignContinues

\* A poll that starts preserves QInv.
LEMMA WatchTickQueues ==
  ASSUME IInv, QInv, NEW n \in Names, NEW r \in Resources, WatchTick(n, r),
         UNCHANGED <<healthVars, sessionVars>>
  PROVE  QInv'
  <1>. DEFINE e == WatchEntry(r)
  <1>1. e \in Background /\ e.who = "watch" /\ e.res = r
    BY DEF Background, WatchEntries, WatchEntry, DriverCall
  <1>2. e \notin Calling(n) /\ Enqueue(n, e)
    BY <1>1 DEF Calling, WatchTick
  <1>3. \A m \in Names : Calling(m)' = IF m = n THEN Calling(m) \cup {e} ELSE Calling(m)
    <2>1. \A f \in Background : f.who = "watch" /\ f.res = r => f = e
      BY BackgroundCalls
    <2>2. WatchTypeOK /\ watch' = [watch EXCEPT ![n][r] = "call"] /\ health' = health
      BY Types DEF WatchTick, healthVars
    <2>. HIDE DEF e
    <2>. QED
      BY <1>1, <2>1, <2>2, BackgroundCalls DEF Calling, WatchTypeOK
  <1>. HIDE DEF e
  <1>. QED
    BY <1>1, <1>2, <1>3, Types, BackgroundQueues DEF WatchTick, sessionVars

\* So does a ping that starts.
LEMMA HealthTickQueues ==
  ASSUME IInv, QInv, NEW n \in Names, HealthTick(n), UNCHANGED <<watch, sessionVars>>
  PROVE  QInv'
  <1>1. PingEntry \in Background /\ PingEntry.who = "health"
    BY DEF Background, PingEntry, DriverCall
  <1>2. PingEntry \notin Calling(n) /\ Enqueue(n, PingEntry)
    BY <1>1 DEF Calling, HealthTick
  <1>3. \A m \in Names :
           Calling(m)' = IF m = n THEN Calling(m) \cup {PingEntry} ELSE Calling(m)
    <2>1. HealthTypeOK /\ health' = [health EXCEPT ![n] = "call"] /\ watch' = watch
      BY Types DEF HealthTick
    <2>. QED
      BY <1>1, <2>1, BackgroundCalls DEF Calling, HealthTypeOK
  <1>. QED
    BY <1>1, <1>2, <1>3, Types, BackgroundQueues DEF HealthTick, sessionVars

\* The end of a poll preserves QInv.
LEMMA WatchCallEndsQueues ==
  ASSUME IInv, QInv, NEW n \in Names, NEW r \in Resources, NEW o,
         WatchCallEnds(n, r, o), UNCHANGED <<healthVars, sessionVars>>
  PROVE  QInv'
  <1>1. /\ lockq[n] # <<>> /\ Head(lockq[n]) = WatchEntry(r)
        /\ WatchEntry(r) \in Background
    BY DEF WatchCallEnds, Holds, Background, WatchEntries
  <1>2. PICK pc \in {"sleep", "trip", "dead"} : watch' = [watch EXCEPT ![n][r] = pc]
    BY DEF WatchCallEnds
  <1>3. \A m \in Names : Calling(m)' = IF m = n THEN Calling(m) \ {WatchEntry(r)}
                                               ELSE Calling(m)
    BY <1>2, Types, CallingWithoutGuard DEF healthVars
  <1>4. Pop(n, o) /\ UNCHANGED cmd
    BY DEF WatchCallEnds, sessionVars
  <1>. QED
    BY <1>1, <1>3, <1>4, Types, BackgroundLeaves

\* The end of a ping preserves QInv.
LEMMA HealthCallEndsQueues ==
  ASSUME IInv, QInv, NEW n \in Names, NEW o, HealthCallEnds(n, o),
         UNCHANGED <<watch, sessionVars>>
  PROVE  QInv'
  <1>1. lockq[n] # <<>> /\ Head(lockq[n]).who = "health" /\ lockq[n] \in Seq(Entry)
    BY DEF HealthCallEnds, Holds, QInv, BusTypeOK
  <1>2. Head(lockq[n]) = PingEntry /\ PingEntry \in Background
    <2>1. 1 \in 1 .. Len(lockq[n]) /\ Head(lockq[n]) = lockq[n][1]
      BY <1>1, TailElements
    <2>2. Head(lockq[n]) \in Background
      BY <1>1, <2>1 DEF QInv, QueuesFit, Fits
    <2>. QED
      BY <1>1, <2>2, BackgroundCalls DEF Background
  <1>3. PICK pc \in {"sleep", "off"} : health' = [health EXCEPT ![n] = pc]
    BY DEF HealthCallEnds
  <1>4. \A m \in Names : Calling(m)' = IF m = n THEN Calling(m) \ {PingEntry}
                                               ELSE Calling(m)
    BY <1>3, Types, CallingWithoutPing
  <1>5. Pop(n, o) /\ UNCHANGED cmd
    BY DEF HealthCallEnds, sessionVars
  <1>. QED
    BY <1>1, <1>2, <1>4, <1>5, Types, BackgroundLeaves

-----------------------------------------------------------------------------
(* The next-state relation. *)

\* Every command preserves QInv.
LEMMA CommandStepQueues ==
  ASSUME IInv, QInv, NEW s \in Sessions, Command(s)
  PROVE  QInv'
  <1>1. ASSUME NEW n \in Names, IINIT(s, n) PROVE QInv'
    BY <1>1, StartCallQueues DEF IINIT, Dispatch, Calls, Drives
  <1>2. ASSUME NEW n \in Names, IPING(s, n) PROVE QInv'
    BY <1>2, StartCallQueues DEF IPING, Dispatch, Calls
  <1>3. ASSUME NEW n \in Names, NEW call \in Calls, NEW r \in Resources \cup {NoRes},
               NEW m, cmd = NoCmd, TrackedCall(s, n, DriverCall("cmd", call, r), m)
        PROVE  QInv'
    BY <1>3, StartCallQueues DEF TrackedCall
  <1>4. ASSUME NEW n \in Names, NEW r \in Resources, NEW m,
               IREAD(s, n, r, m) \/ IWRITE(s, n, r)
        PROVE  QInv'
    BY <1>3, <1>4 DEF IREAD, IWRITE, Dispatch, Calls, Drives
  <1>5. ASSUME NEW n \in Names, IRAW(s, n) \/ ISAVE(s, n) \/ ILOAD(s, n) \/ IWAIT(s, n)
        PROVE  QInv'
    BY <1>3, <1>5 DEF IRAW, ISAVE, ILOAD, IWAIT, Dispatch, Calls, Drives
  <1>6. ASSUME NEW N \in SUBSET Names, ILOCK(s, N) \/ IUNLOCK(s, N) PROVE QInv'
    BY <1>6, LockingQueues
  <1>7. ASSUME NEW n \in Names, NEW r \in Resources, IREADRefused(s, n, r)
        PROVE  QInv'
    BY <1>7, OtherQueues DEF IREADRefused, instVars, busVars, healthVars, sessionVars
  <1>8. ASSUME NEW n \in Names, IRESET(s, n) PROVE QInv'
    BY <1>8, OtherQueues DEF IRESET, busVars, healthVars, sessionVars
  <1>10. ASSUME NEW n \in Names, NEW r \in Resources, IWATCH(s, n, r) \/ IUNWATCH(s, n, r)
         PROVE  QInv'
    BY <1>10, OneGuardQueues DEF IWATCH, IUNWATCH, healthVars, sessionVars
  <1>11. ASSUME NEW N \in SUBSET Names, IUNWATCHAll(s, N) PROVE QInv'
    BY <1>11, StopInstrumentsQueues DEF IUNWATCHAll, healthVars, sessionVars
  <1>. QED
    BY <1>1, <1>2, <1>4, <1>5, <1>6, <1>7, <1>8, <1>10, <1>11, IADDQueues,
       IREMOVEQueues, IALIGNQueues, IMREADQueues
    DEF Command

\* So does the end of a driver call, whoever made it.
LEMMA CallEndsQueues ==
  ASSUME IInv, QInv, NEW n \in Names, CallEnds(n)
  PROVE  QInv'
  BY CommandEndsQueues, MreadReturnsQueues, HealthCallEndsQueues, WatchCallEndsQueues,
     InitContinuesQueues, AlignContinuesQueues
  DEF CallEnds

\* A step of close() preserves QInv.
LEMMA CloseQueues ==
  ASSUME IInv, QInv, NEW s \in Sessions, Disconnect(s) \/ CloseResumes(s)
  PROVE  QInv'
  <1>1. ASSUME NEW raised, CloseDone(s, raised) PROVE QInv'
    BY <1>1, OtherQueues DEF CloseDone, instVars, busVars, healthVars
  <1>. QED
    BY <1>1, CloseReleaseQueues DEF Disconnect, CloseResumes

\* Every step of the server preserves QInv.
LEMMA NextQInv == IInv /\ QInv /\ [Next]_vars => QInv'
  <1>. SUFFICES ASSUME IInv, QInv, [Next]_vars PROVE QInv'
    OBVIOUS
  <1>1. CASE UnlockResumes
    <2>1. cmd.rest \subseteq Names /\ Quiet
      BY <1>1, Types DEF UnlockResumes, Quiet, Unqueued
    <2>. QED
      BY <1>1, <2>1, UnlockRoundQueues DEF UnlockResumes
  <1>2. ASSUME NEW n \in Names, Guard(n) PROVE QInv'
    BY <1>2, WatchTickQueues, GuardTripQueues DEF Guard
  <1>3. CASE UNCHANGED vars
    BY <1>3, OtherQueues DEF vars, instVars, busVars, healthVars, sessionVars
  <1>. QED
    BY <1>1, <1>2, <1>3, CommandStepQueues, CallEndsQueues, CloseQueues,
       LockingQueues, HealthTickQueues, HardwareQueues
    DEF Next

\* The server starts with empty queues.
LEMMA InitQInv == Init => QInv
  <1>. SUFFICES ASSUME Init PROVE QInv
    OBVIOUS
  <1>. USE DEF Init, InstInit, WatchInit, HealthInit, NoCmd
  <1>1. BusTypeOK
    BY EmptySeq DEF BusTypeOK
  <1>2. \A n \in Names : Calling(n) = {}
    BY BackgroundCalls DEF Calling
  <1>3. QueuesFit
    BY <1>2, FitsNobody DEF QueuesFit
  <1>. QED
    BY <1>1, <1>3 DEF QInv, OneAtATime, CommandWaits, Quiet, Unqueued

\* Every behaviour of the server keeps both invariants.
THEOREM QueueInductive == Spec => [](IInv /\ QInv)
  BY Inductive, InitQInv, NextQInv, PTL DEF Spec

-----------------------------------------------------------------------------
(* The properties *)

\* How many positions of a sequence satisfy a condition.
LEMMA CountPositions ==
  ASSUME NEW m \in Nat, NEW P \in SUBSET (1 .. m)
  PROVE  /\ Cardinality(P) \in Nat
         /\ Cardinality(P) = 0 <=> P = {}
         /\ (\A i, j \in P : i = j) /\ P # {} => Cardinality(P) = 1
  <1>1. IsFiniteSet(P)
    <2>1. IsFiniteSet(1 .. m)
      BY FS_Interval
    <2>. QED
      BY <2>1, FS_Subset
  <1>2. Cardinality(P) \in Nat /\ (Cardinality(P) = 0 <=> P = {})
    BY <1>1, FS_CardinalityType, FS_EmptySet
  <1>3. ASSUME \A i, j \in P : i = j, P # {} PROVE Cardinality(P) = 1
    <2>1. PICK i \in P : P = {i}
      BY <1>3
    <2>. QED
      BY <2>1, FS_Singleton
  <1>. QED
    BY <1>2, <1>3

\* A background call is queued once while its task waits in it.
LEMMA QueuedOnce ==
  ASSUME QInv, NEW n \in Names, NEW e \in Background
  PROVE  Cardinality({i \in DOMAIN lockq[n] : lockq[n][i] = e})
            = IF e \in Calling(n) THEN 1 ELSE 0
  <1>. DEFINE P == {i \in DOMAIN lockq[n] : lockq[n][i] = e}
  <1>1. /\ lockq[n] \in Seq(Entry) /\ DOMAIN lockq[n] = 1 .. Len(lockq[n])
        /\ Len(lockq[n]) \in Nat
    BY LenProperties DEF QInv, BusTypeOK
  <1>2. Fits(lockq[n], Calling(n), Room(n)) /\ e.who # "cmd"
    BY BackgroundCalls DEF QInv, QueuesFit
  <1>3. \A i, j \in P : i = j
    BY <1>1, <1>2 DEF Fits
  <1>4. e \in Calling(n) <=> P # {}
    BY <1>1, <1>2 DEF Fits
  <1>5. P \in SUBSET (1 .. Len(lockq[n]))
    BY <1>1
  <1>. HIDE DEF P
  <1>6. Cardinality(P) = IF e \in Calling(n) THEN 1 ELSE 0
    BY <1>1, <1>3, <1>4, <1>5, CountPositions
  <1>. QED
    BY <1>6 DEF P

\* The calls that a command has in a queue: none but its own, one unless it is
\* an IMREAD.
LEMMA QueuedByCommand ==
  ASSUME QInv, NEW n \in Names,
         NEW P, P = {i \in DOMAIN lockq[n] : lockq[n][i].who = "cmd"}
  PROVE  /\ Cardinality(P) \in Nat
         /\ Cardinality(P) > 0 <=> \E i \in 1 .. Len(lockq[n]) : lockq[n][i].who = "cmd"
         /\ Cardinality(P) > 0 => ~Quiet /\ n \in cmd.at
         /\ Cardinality(P) > 1 => cmd.op = "mread"
  <1>1. /\ DOMAIN lockq[n] = 1 .. Len(lockq[n]) /\ Len(lockq[n]) \in Nat
        /\ P \in SUBSET (1 .. Len(lockq[n]))
    BY LenProperties DEF QInv, BusTypeOK
  <1>2. Fits(lockq[n], Calling(n), Room(n))
    BY DEF QInv, QueuesFit
  <1>3. Cardinality(P) \in Nat /\ (Cardinality(P) = 0 <=> P = {})
    BY <1>1, CountPositions
  <1>4. Cardinality(P) > 0 <=> \E i \in 1 .. Len(lockq[n]) : lockq[n][i].who = "cmd"
    BY <1>1, <1>3
  <1>5. Cardinality(P) > 0 => ~Quiet /\ n \in cmd.at
    <2>1. Cardinality(P) > 0 => Room(n) # "none"
      BY <1>2, <1>4 DEF Fits
    <2>. QED
      BY <2>1 DEF Room
  <1>6. Cardinality(P) > 1 => cmd.op = "mread"
    <2>1. cmd.op # "mread" => Room(n) # "many"
      BY DEF Room
    <2>2. cmd.op # "mread" => \A i, j \in P : i = j
      BY <1>1, <1>2, <2>1 DEF Fits
    <2>3. cmd.op # "mread" /\ P # {} => Cardinality(P) = 1
      BY <1>1, <2>2, CountPositions
    <2>. QED
      BY <1>3, <2>3
  <1>. QED
    BY <1>3, <1>4, <1>5, <1>6

\* Nobody waits on an instrument that is not registered.
LEMMA NothingOnRemoved ==
  ASSUME IInv, QInv, NEW n \in Names, n \notin reg
  PROVE  lockq[n] = <<>>
  <1>1. \A r \in Resources : watch[n][r] = "none"
    BY DEF IInv, GuardsOwned
  <1>2. health[n] = "off" /\ n \notin cmd.at
    BY DEF IInv, TasksOnRegistered
  <1>3. Calling(n) = {}
    BY <1>1, <1>2, BackgroundCalls DEF Calling
  <1>4. Room(n) = "none"
    BY <1>2 DEF Room
  <1>5. \A i \in 1 .. Len(lockq[n]) : FALSE
    BY <1>3, <1>4 DEF QInv, QueuesFit, Fits
  <1>6. lockq[n] \in Seq(Entry) /\ Len(lockq[n]) \in Nat
    BY LenProperties DEF QInv, BusTypeOK
  <1>7. Len(lockq[n]) = 0
    BY <1>5, <1>6
  <1>. QED
    BY <1>6, <1>7, EmptySeq

\* Both invariants together say what QueueMatchesTasks says.
LEMMA QueuesMatch == IInv /\ QInv => QueueMatchesTasks
  <1>. SUFFICES ASSUME IInv, QInv, NEW n \in Names
                PROVE
        /\ lockq[n] \in Seq(Entry) /\ orphan[n] \subseteq Calls
        /\ \A r \in Resources : Queued(n, LAMBDA e : e = WatchEntry(r))
              = IF watch[n][r] = "call" THEN 1 ELSE 0
        /\ Queued(n, LAMBDA e : e = PingEntry)
              = IF health[n] = "call" THEN 1 ELSE 0
        /\ LET mine == Queued(n, LAMBDA e : e.who = "cmd") IN
              /\ mine > 0 => cmd.op \notin Unqueued /\ n \in cmd.at
              /\ mine > 1 => cmd.op = "mread"
        /\ n \notin reg => lockq[n] = <<>>
    BY DEF QueueMatchesTasks
  <1>1. lockq[n] \in Seq(Entry) /\ orphan[n] \subseteq Calls
    BY DEF QInv, BusTypeOK
  <1>2. ASSUME NEW r \in Resources
        PROVE  Queued(n, LAMBDA e : e = WatchEntry(r)) = IF watch[n][r] = "call" THEN 1 ELSE 0
    <2>1. WatchEntry(r) \in Background
      BY DEF Background, WatchEntries
    <2>2. WatchEntry(r) \in Calling(n) <=> watch[n][r] = "call"
      BY <2>1 DEF Calling, WatchEntry, DriverCall
    <2>. QED
      BY <2>1, <2>2, QueuedOnce DEF Queued
  <1>3. Queued(n, LAMBDA e : e = PingEntry) = IF health[n] = "call" THEN 1 ELSE 0
    <2>1. PingEntry \in Background
      BY DEF Background
    <2>2. PingEntry \in Calling(n) <=> health[n] = "call"
      BY <2>1 DEF Calling, PingEntry, DriverCall
    <2>. QED
      BY <2>1, <2>2, QueuedOnce DEF Queued
  <1>4. LET mine == Queued(n, LAMBDA e : e.who = "cmd") IN
              /\ mine > 0 => cmd.op \notin Unqueued /\ n \in cmd.at
              /\ mine > 1 => cmd.op = "mread"
    BY QueuedByCommand DEF Queued, Quiet
  <1>. QED
    BY <1>1, <1>2, <1>3, <1>4, NothingOnRemoved

\* And so does CommandIsQueued.
LEMMA CommandQueued == IInv /\ QInv => CommandIsQueued
  <1>. SUFFICES ASSUME IInv, QInv, ~Quiet
                PROVE  \E n \in cmd.at : Queued(n, LAMBDA e : e.who = "cmd") > 0
    BY DEF CommandIsQueued, Quiet
  <1>1. PICK n \in cmd.at : \E i \in 1 .. Len(lockq[n]) : lockq[n][i].who = "cmd"
    BY DEF QInv, CommandWaits
  <1>2. n \in Names
    BY Types
  <1>. QED
    BY <1>1, <1>2, QueuedByCommand DEF Queued

\* inst._lock has exactly the waiters it should (_call_driver, WatchManager.stop,
\* HealthMonitor.stop), whatever is cancelled, times out or races.
THEOREM QueueMatchesTasksHolds == Spec => []QueueMatchesTasks
  BY QueueInductive, QueuesMatch, PTL

\* The dispatch lock is never held by a command that waits for a driver call
\* which nobody queued: every command that is in a driver call is in some queue.
THEOREM CommandIsQueuedHolds == Spec => []CommandIsQueued
  BY QueueInductive, CommandQueued, PTL

-----------------------------------------------------------------------------
(* MEAS entries without IREMOVE *)

\* An unlock makes the MEAS entries STALE.
LEMMA ReleaseMeas ==
  ASSUME IInv, MeasOkMeansOwned, NEW n \in Names, ReleaseInst(n)
  PROVE  MeasOkMeansOwned'
  <1>1. /\ meas \in [Names -> [Resources -> MeasStatus]]
        /\ owner \in [Names -> Sessions \cup {NoOwner}]
    BY DEF IInv, TypeOK, MeasTypeOK, InstTypeOK
  <1>2. \A r \in Resources : meas'[n][r] # "OK"
    BY <1>1 DEF ReleaseInst, InvalidateMeas, MeasStatus
  <1>3. \A m \in Names : m # n => meas'[m] = meas[m] /\ owner'[m] = owner[m]
    BY <1>1 DEF ReleaseInst, InvalidateMeas, Unlock
  <1>. QED
    BY <1>2, <1>3 DEF MeasOkMeansOwned

\* A status other than OK is written, or OK on an owned instrument.
LEMMA WriteKeepsOwned ==
  ASSUME IInv, MeasOkMeansOwned, NEW n \in Names, NEW r \in Resources \cup {NoRes},
         NEW status, status # "OK" \/ owner[n] # NoOwner,
         WriteMeas(n, r, status), UNCHANGED owner
  PROVE  MeasOkMeansOwned'
  <1>1. meas \in [Names -> [Resources -> MeasStatus]]
    BY DEF IInv, TypeOK, MeasTypeOK
  <1>. QED
    BY <1>1 DEF MeasOkMeansOwned, WriteMeas
\* A step that writes no MEAS entry and takes no instrument from its owner.
LEMMA OwnersStay ==
  ASSUME MeasOkMeansOwned, UNCHANGED meas,
         \A n \in Names : owner[n] # NoOwner => owner'[n] # NoOwner
  PROVE  MeasOkMeansOwned'
  BY DEF MeasOkMeansOwned

\* Stopping guards makes MEAS entries STALE.
LEMMA InvalidateKeepsOwned ==
  ASSUME IInv, MeasOkMeansOwned, NEW N, InvalidateMeas(N), UNCHANGED owner
  PROVE  MeasOkMeansOwned'
  BY DEF MeasOkMeansOwned, InvalidateMeas, IInv, TypeOK, MeasTypeOK

\* A round of an unlock keeps the rule.
LEMMA UnlockRoundMeas ==
  ASSUME IInv, MeasOkMeansOwned, NEW s, NEW n \in Names, NEW rest, UnlockRound(s, n, rest)
  PROVE  MeasOkMeansOwned'
  BY ReleaseMeas, OwnersStay DEF UnlockRound, registryVars

\* Every command but IREMOVE keeps the rule.
LEMMA CommandMeas ==
  ASSUME IInv, MeasOkMeansOwned, NEW s \in Sessions, Command(s), "IREMOVE" \notin Commands
  PROVE  MeasOkMeansOwned'
  <1>1. ASSUME NEW n \in Names, IADD(s, n) PROVE MeasOkMeansOwned'
    <2>1. owner[n] = NoOwner
      BY <1>1 DEF IADD, Add, IInv, StateMatchesFields
    <2>2. \A m \in Names : owner'[m] = owner[m]
      BY <1>1, <2>1 DEF IADD, Add, IInv, TypeOK, InstTypeOK
    <2>. QED
      BY <1>1, <2>2, OwnersStay DEF IADD
  <1>2. ASSUME NEW n \in Names, IREMOVE(s, n) PROVE FALSE
    BY <1>2 DEF IREMOVE, Dispatch
  <1>3. ASSUME UNCHANGED <<owner, meas>> PROVE MeasOkMeansOwned'
    BY <1>3, OwnersStay
  <1>4. ASSUME NEW n \in Names, IRESET(s, n) PROVE MeasOkMeansOwned'
    BY <1>3, <1>4 DEF IRESET, Reset
  <1>5. ASSUME NEW n \in Names, NEW op, NEW e, NEW v, StartCall(s, op, n, e, v), UNCHANGED meas
        PROVE  MeasOkMeansOwned'
    BY <1>3, <1>5 DEF StartCall, registryVars
  <1>6. ASSUME NEW n \in Names,
               \/ IINIT(s, n) \/ IPING(s, n)
               \/ IRAW(s, n) \/ ISAVE(s, n) \/ ILOAD(s, n) \/ IWAIT(s, n)
        PROVE  MeasOkMeansOwned'
    BY <1>5, <1>6 DEF IINIT, IPING, IRAW, ISAVE, ILOAD, IWAIT, TrackedCall
  <1>7. ASSUME NEW n \in Names, NEW r \in Resources, NEW v, IREAD(s, n, r, v) \/ IWRITE(s, n, r)
        PROVE  MeasOkMeansOwned'
    BY <1>5, <1>7 DEF IREAD, IWRITE, TrackedCall
  <1>8. ASSUME NEW n \in Names, NEW r \in Resources, IREADRefused(s, n, r)
        PROVE  MeasOkMeansOwned'
    BY <1>8, WriteKeepsOwned DEF IREADRefused, instVars
  <1>9. ASSUME NEW n \in Names, NEW r \in Resources, IWATCH(s, n, r)
        PROVE  MeasOkMeansOwned'
    BY <1>3, <1>9 DEF IWATCH, registryVars
  <1>10. ASSUME NEW n \in Names, NEW r \in Resources, IUNWATCH(s, n, r)
         PROVE  MeasOkMeansOwned'
    BY <1>3, <1>10, WriteKeepsOwned DEF IUNWATCH, registryVars
  <1>11. ASSUME NEW N \in SUBSET Names, IUNWATCHAll(s, N) PROVE MeasOkMeansOwned'
    BY <1>11, InvalidateKeepsOwned DEF IUNWATCHAll, registryVars
  <1>12. ASSUME NEW N \in SUBSET Names, IALIGN(s, N) PROVE MeasOkMeansOwned'
    BY <1>3, <1>12 DEF IALIGN, registryVars
  <1>13. ASSUME NEW N \in SUBSET Names, ILOCK(s, N) \/ IUNLOCK(s, N) PROVE MeasOkMeansOwned'
    BY <1>3, <1>13 DEF ILOCK, IUNLOCK, GivenLock, instVars
  <1>15. ASSUME NEW args \in Targets, IMREAD(s, args) PROVE MeasOkMeansOwned'
    BY <1>3, <1>15 DEF IMREAD, registryVars
  <1>. QED
    BY <1>1, <1>2, <1>4, <1>6, <1>7, <1>8, <1>9, <1>10, <1>11, <1>12, <1>13, <1>15
    DEF Command

\* A read that ends keeps the rule: a command's, because its session still owns
\* the instrument, and a guard's, because a guard is stopped before its
\* instrument is released.
LEMMA CallEndsMeas ==
  ASSUME IInv, CommandHasSession, MeasOkMeansOwned, NEW n \in Names, CallEnds(n), QInv
  PROVE  MeasOkMeansOwned'
  <1>1. ASSUME UNCHANGED <<owner, meas>> PROVE MeasOkMeansOwned'
    BY <1>1, OwnersStay
  <1>2. ASSUME NEW o, CallReturns(n, o) PROVE MeasOkMeansOwned'
    <2>1. owner[n] # NoOwner
      BY <1>2, OwnerAssumption DEF CallReturns, IInv, OwnerDuringCall, CommandHasSession
    <2>2. Head(lockq[n]).res \in Resources \cup {NoRes}
      <3>1. lockq[n] \in Seq(Entry) /\ lockq[n] # <<>>
        BY <1>2 DEF CallReturns, Holds, QInv, BusTypeOK
      <3>2. Head(lockq[n]) \in Entry
        BY <3>1, HeadTailProperties
      <3>. QED
        BY <3>2 DEF Entry
    <2>3. UNCHANGED owner
      BY <1>2 DEF CallReturns
    <2>4. UNCHANGED meas \/ \E status : WriteMeas(n, Head(lockq[n]).res, status)
      BY <1>2 DEF CallReturns
    <2>. QED
      BY <1>1, <2>1, <2>2, <2>3, <2>4, WriteKeepsOwned
  <1>3. ASSUME NEW r \in Resources, NEW o, WatchCallEnds(n, r, o) PROVE MeasOkMeansOwned'
    <2>1. owner[n] # NoOwner
      BY <1>3, OwnerAssumption DEF WatchCallEnds, IInv, GuardsOwned
    <2>2. UNCHANGED owner /\ (UNCHANGED meas \/ \E status : WriteMeas(n, r, status))
      BY <1>3 DEF WatchCallEnds
    <2>. QED
      BY <1>1, <2>1, <2>2, WriteKeepsOwned
  <1>4. ASSUME NEW o, MreadReturns(n, o) \/ PlainCallEnds(n, o) PROVE MeasOkMeansOwned'
    BY <1>1, <1>4 DEF MreadReturns, PlainCallEnds
  <1>5. ASSUME NEW o, HealthCallEnds(n, o), UNCHANGED meas PROVE MeasOkMeansOwned'
    BY <1>1, <1>5 DEF HealthCallEnds
  <1>6. ASSUME InitContinues(n) \/ InitCompletes(n) \/ AlignContinues(n)
        PROVE  MeasOkMeansOwned'
    BY <1>1, <1>6 DEF InitContinues, InitCompletes, AlignContinues, registryVars
  <1>. QED
    BY <1>2, <1>3, <1>4, <1>5, <1>6 DEF CallEnds

\* Every step keeps the rule.
LEMMA NextMeas ==
  ASSUME IInv, CommandHasSession, QInv, MeasOkMeansOwned, [Next]_vars,
         "IREMOVE" \notin Commands
  PROVE  MeasOkMeansOwned'
  <1>1. ASSUME UNCHANGED <<owner, meas>> PROVE MeasOkMeansOwned'
    BY <1>1, OwnersStay
  <1>2. ASSUME NEW s \in Sessions, Disconnect(s) \/ CloseResumes(s) PROVE MeasOkMeansOwned'
    <2>1. ASSUME NEW N, CloseRelease(s, N) PROVE MeasOkMeansOwned'
      <3>1. PICK n \in N \cap Owned(s) : ReleaseInst(n)
        BY <2>1 DEF CloseRelease
      <3>2. n \in Names
        BY <3>1 DEF Owned, IInv, TypeOK, InstTypeOK
      <3>. QED
        BY <3>1, <3>2, ReleaseMeas
    <2>2. ASSUME NEW raised, CloseDone(s, raised) PROVE MeasOkMeansOwned'
      BY <1>1, <2>2 DEF CloseDone, instVars
    <2>. QED
      BY <1>2, <2>1, <2>2 DEF Disconnect, CloseResumes
  <1>3. CASE UnlockResumes
    <2>1. cmd.rest \subseteq Names
      BY Types
    <2>. QED
      BY <1>3, <2>1, UnlockRoundMeas DEF UnlockResumes
  <1>4. CASE UnlockAborts \/ UNCHANGED vars
    BY <1>1, <1>4 DEF UnlockAborts, vars, instVars
  <1>5. ASSUME NEW n \in Names, Guard(n) PROVE MeasOkMeansOwned'
    <2>1. ASSUME NEW r \in Resources, WatchTick(n, r) PROVE MeasOkMeansOwned'
      BY <1>1, <2>1 DEF WatchTick, registryVars
    <2>2. ASSUME NEW r \in Resources, GuardTrip(n, r) PROVE MeasOkMeansOwned'
      BY <2>2, WriteKeepsOwned DEF GuardTrip
    <2>. QED
      BY <1>5, <2>1, <2>2 DEF Guard
  <1>6. ASSUME NEW n \in Names, HealthTick(n), UNCHANGED meas PROVE MeasOkMeansOwned'
    BY <1>1, <1>6 DEF HealthTick, registryVars
  <1>7. ASSUME NEW n \in Names, Hardware(n) PROVE MeasOkMeansOwned'
    BY <1>1, <1>7 DEF Hardware, WriteLands, OrphanEnds, registryVars
  <1>8. CASE HandleLock
    <2>1. cmd.sess \in Sessions
      BY <1>8 DEF HandleLock, CommandHasSession
    <2>2. \A m \in Names : owner[m] # NoOwner => owner'[m] # NoOwner
      BY <1>8, <2>1, OwnerAssumption DEF HandleLock, Take
    <2>. QED
      BY <1>8, <2>2, OwnersStay DEF HandleLock
  <1>. QED
    BY <1>2, <1>3, <1>4, <1>5, <1>6, <1>7, <1>8, CommandMeas, CallEndsMeas DEF Next

\* While nobody removes an instrument, an OK in the MEAS store (write_meas,
\* invalidate_meas) means that somebody owns the instrument: no read that was
\* under way when a lock was released writes over the STALE that the release left.
THEOREM MeasOkMeansOwnedHolds ==
  ASSUME "IREMOVE" \notin Commands
  PROVE  Spec => []MeasOkMeansOwned
  <1>1. Init => MeasOkMeansOwned
    BY DEF Init, MeasInit, MeasOkMeansOwned
  <1>2. IInv /\ CommandHasSession /\ QInv /\ MeasOkMeansOwned /\ [Next]_vars => MeasOkMeansOwned'
    BY NextMeas
  <1>. QED
    BY SessionInductive, QueueInductive, <1>1, <1>2, PTL DEF Spec

-----------------------------------------------------------------------------
(* UNRESPONSIVE without timeouts *)

\* An UNRESPONSIVE instrument has failed three pings, and its health task, which
\* skips broken instruments, is in none.
Strikes ==
    \A n \in Names :
        state[n] = "UNRESPONSIVE" =>
            failures[n] = HEALTH_MAX_FAILURES /\ health[n] # "call"

\* A step that makes nothing UNRESPONSIVE and touches no ping.
LEMMA NoStrike ==
  ASSUME Strikes, UNCHANGED <<health, failures>>,
         \A n \in Names : state'[n] = "UNRESPONSIVE" => state[n] = "UNRESPONSIVE"
  PROVE  Strikes'
  BY DEF Strikes

\* The same for one instrument, whose state the step sets.
LEMMA NoStrikeAt ==
  ASSUME IInv, Strikes, UNCHANGED <<health, failures>>, NEW n \in Names,
         NEW v, v = state[n] \/ v # "UNRESPONSIVE", state' = [state EXCEPT ![n] = v]
  PROVE  Strikes'
  <1>1. \A m \in Names : state'[m] = "UNRESPONSIVE" => state[m] = "UNRESPONSIVE"
    BY DEF IInv, TypeOK, InstTypeOK
  <1>. QED
    BY <1>1, NoStrike

\* What an unlock does to the rule.
LEMMA ReleaseStrikes ==
  ASSUME IInv, Strikes, UNCHANGED healthVars, NEW n \in Names, ReleaseInst(n)
  PROVE  Strikes'
  <1>1. PICK ok \in SafeOutcomes : state' = [state EXCEPT ![n] = IF ok THEN "IDLE" ELSE "FAULT"]
    BY DEF ReleaseInst, Unlock
  <1>. QED
    BY <1>1, NoStrikeAt DEF healthVars

\* A round of an unlock keeps the rule.
LEMMA UnlockRoundStrikes ==
  ASSUME IInv, Strikes, NEW s, NEW n \in Names, NEW rest, UnlockRound(s, n, rest)
  PROVE  Strikes'
  BY ReleaseStrikes, NoStrike DEF UnlockRound, registryVars, healthVars

\* Every command keeps the rule.
LEMMA CommandStrikes ==
  ASSUME IInv, Strikes, NEW s \in Sessions, Command(s)
  PROVE  Strikes'
  <1>0. /\ state \in [Names -> InstrumentState]
        /\ health \in [Names -> {"off", "sleep", "call"}]
        /\ failures \in [Names -> 0 .. HEALTH_MAX_FAILURES]
    BY DEF IInv, TypeOK, InstTypeOK, HealthTypeOK
  <1>1. ASSUME NEW n \in Names, NEW pc, NEW k,
               state' = [state EXCEPT ![n] = "IDLE"],
               health' = [health EXCEPT ![n] = pc], failures' = [failures EXCEPT ![n] = k]
        PROVE  Strikes'
    BY <1>0, <1>1 DEF Strikes
  <1>2. ASSUME NEW n \in Names, IADD(s, n) \/ IREMOVE(s, n) PROVE Strikes'
    BY <1>1, <1>2 DEF IADD, IREMOVE, Add, Remove, StartHealth, StopHealth
  <1>3. ASSUME UNCHANGED <<state, healthVars>> PROVE Strikes'
    BY <1>3, NoStrike DEF healthVars
  <1>4. ASSUME NEW n \in Names, IRESET(s, n) PROVE Strikes'
    <2>1. state' = [state EXCEPT ![n] = "LOCKED"] /\ UNCHANGED <<health, failures>>
      BY <1>4 DEF IRESET, Reset, healthVars
    <2>. QED
      BY <2>1, NoStrikeAt
  <1>5. ASSUME NEW n \in Names, NEW op, NEW e, NEW v, StartCall(s, op, n, e, v)
        PROVE  Strikes'
    <2>1. UNCHANGED <<state, health, failures>>
      BY <1>5 DEF StartCall, registryVars, healthVars
    <2>. QED
      BY <2>1, NoStrike
  <1>6. ASSUME NEW n \in Names,
               \/ IINIT(s, n) \/ IPING(s, n)
               \/ IRAW(s, n) \/ ISAVE(s, n) \/ ILOAD(s, n) \/ IWAIT(s, n)
        PROVE  Strikes'
    BY <1>5, <1>6 DEF IINIT, IPING, IRAW, ISAVE, ILOAD, IWAIT, TrackedCall
  <1>7. ASSUME NEW n \in Names, NEW r \in Resources, NEW v, IREAD(s, n, r, v) \/ IWRITE(s, n, r)
        PROVE  Strikes'
    BY <1>5, <1>7 DEF IREAD, IWRITE, TrackedCall
  <1>8. ASSUME NEW n \in Names, NEW r \in Resources,
               IREADRefused(s, n, r) \/ IWATCH(s, n, r) \/ IUNWATCH(s, n, r)
        PROVE  Strikes'
    BY <1>3, <1>8 DEF IREADRefused, IWATCH, IUNWATCH, instVars, registryVars, healthVars
  <1>9. ASSUME NEW N \in SUBSET Names, IALIGN(s, N) \/ IUNWATCHAll(s, N) PROVE Strikes'
    BY <1>3, <1>9 DEF IALIGN, IUNWATCHAll, registryVars
  <1>10. ASSUME NEW N \in SUBSET Names, ILOCK(s, N) \/ IUNLOCK(s, N) PROVE Strikes'
    BY <1>3, <1>10 DEF ILOCK, IUNLOCK, GivenLock, instVars
  <1>12. ASSUME NEW args \in Targets, IMREAD(s, args) PROVE Strikes'
    BY <1>3, <1>12 DEF IMREAD, registryVars
  <1>. QED
    BY <1>2, <1>4, <1>6, <1>7, <1>8, <1>9, <1>10, <1>12 DEF Command

\* A driver call that ends, not by a timeout, keeps the rule: a ping makes its
\* instrument UNRESPONSIVE when it is the third one to fail, and never before.
LEMMA CallEndsStrikes ==
  ASSUME IInv, Strikes, NEW n \in Names, CallEnds(n), "timeout" \notin Outcomes
  PROVE  Strikes'
  <1>1. ASSUME NEW o \in Outcomes, CallReturns(n, o) \/ MreadReturns(n, o) \/ PlainCallEnds(n, o)
        PROVE  Strikes'
    <2>1. PICK v : (v = state[n] \/ v # "UNRESPONSIVE") /\ state' = [state EXCEPT ![n] = v]
      BY <1>1 DEF CallReturns, MreadReturns, PlainCallEnds, AfterTrackedCall, AfterCall
    <2>2. UNCHANGED <<health, failures>>
      BY <1>1 DEF CallReturns, MreadReturns, PlainCallEnds, healthVars
    <2>. QED
      BY <2>1, <2>2, NoStrikeAt
  <1>2. ASSUME NEW o \in Outcomes, NEW r \in Resources, WatchCallEnds(n, r, o),
               UNCHANGED healthVars
        PROVE  Strikes'
    <2>1. state' = [state EXCEPT ![n] = state[n]]
      BY <1>2 DEF WatchCallEnds, AfterCall
    <2>. QED
      BY <1>2, <2>1, NoStrikeAt DEF healthVars
  <1>3. ASSUME NEW o \in Outcomes, HealthCallEnds(n, o) PROVE Strikes'
    <2>1. /\ state \in [Names -> InstrumentState]
          /\ health \in [Names -> {"off", "sleep", "call"}]
          /\ failures \in [Names -> 0 .. HEALTH_MAX_FAILURES]
          /\ AfterCall(n, o) = state[n]
      BY DEF IInv, TypeOK, InstTypeOK, HealthTypeOK, AfterCall
    <2>2. PICK pc \in {"sleep", "off"} : health' = [health EXCEPT ![n] = pc]
      BY <1>3 DEF HealthCallEnds
    <2>3. \A m \in Names : m # n => /\ state'[m] = state[m]
                                    /\ failures'[m] = failures[m]
                                    /\ health'[m] = health[m]
      BY <1>3, <2>1 DEF HealthCallEnds
    <2>4. state[n] # "UNRESPONSIVE"
      BY <1>3 DEF HealthCallEnds, Strikes
    <2>5. health'[n] # "call"
      BY <2>1, <2>2
    <2>6. state'[n] = "UNRESPONSIVE" => failures'[n] = HEALTH_MAX_FAILURES
      <3>1. state'[n] = "UNRESPONSIVE" => LastStrike(n, o)
        BY <1>3, <2>1, <2>4 DEF HealthCallEnds
      <3>2. failures'[n] = IF o = "ok" THEN 0 ELSE Failed(failures[n])
        BY <1>3, <2>1 DEF HealthCallEnds
      <3>3. failures[n] \in 0 .. HEALTH_MAX_FAILURES
        BY <2>1
      <3>4. LastStrike(n, o) => o # "ok" /\ Failed(failures[n]) = HEALTH_MAX_FAILURES
        BY <3>3 DEF LastStrike, Failed, HEALTH_MAX_FAILURES
      <3>. QED
        BY <3>1, <3>2, <3>4
    <2>. QED
      BY <2>3, <2>5, <2>6 DEF Strikes
  <1>4. ASSUME InitContinues(n) PROVE Strikes'
    BY <1>4, NoStrike DEF InitContinues, registryVars, healthVars
  <1>5. ASSUME InitCompletes(n) \/ AlignContinues(n) PROVE Strikes'
    <2>1. state' = [state EXCEPT ![n] = "READY"] /\ UNCHANGED <<health, failures>>
      BY <1>5 DEF InitCompletes, AlignContinues, BecomeReady, healthVars
    <2>. QED
      BY <2>1, NoStrikeAt
  <1>. QED
    BY <1>1, <1>2, <1>3, <1>4, <1>5 DEF CallEnds

\* Every step keeps the rule.
LEMMA NextStrikes ==
  ASSUME IInv, Strikes, [Next]_vars, "timeout" \notin Outcomes
  PROVE  Strikes'
  <1>1. ASSUME UNCHANGED <<state, healthVars>> PROVE Strikes'
    BY <1>1, NoStrike DEF healthVars
  <1>2. ASSUME NEW s \in Sessions, Disconnect(s) \/ CloseResumes(s) PROVE Strikes'
    <2>1. ASSUME NEW N, CloseRelease(s, N) PROVE Strikes'
      <3>1. PICK n \in N \cap Owned(s) : ReleaseInst(n)
        BY <2>1 DEF CloseRelease
      <3>2. n \in Names
        BY <3>1 DEF Owned, IInv, TypeOK, InstTypeOK
      <3>. QED
        BY <2>1, <3>1, <3>2, ReleaseStrikes DEF CloseRelease
    <2>2. ASSUME NEW raised, CloseDone(s, raised) PROVE Strikes'
      BY <1>1, <2>2 DEF CloseDone, instVars
    <2>. QED
      BY <1>2, <2>1, <2>2 DEF Disconnect, CloseResumes
  <1>3. CASE UnlockResumes
    <2>1. cmd.rest \subseteq Names
      BY Types
    <2>. QED
      BY <1>3, <2>1, UnlockRoundStrikes DEF UnlockResumes
  <1>4. CASE UnlockAborts \/ UNCHANGED vars
    BY <1>1, <1>4 DEF UnlockAborts, vars, instVars
  <1>5. ASSUME NEW n \in Names, Guard(n) PROVE Strikes'
    <2>1. ASSUME NEW r \in Resources, WatchTick(n, r), UNCHANGED healthVars PROVE Strikes'
      BY <1>1, <2>1 DEF WatchTick, registryVars
    <2>2. ASSUME NEW r \in Resources, GuardTrip(n, r), UNCHANGED healthVars PROVE Strikes'
      BY <2>2, NoStrikeAt DEF GuardTrip, healthVars
    <2>. QED
      BY <1>5, <2>1, <2>2 DEF Guard
  <1>6. ASSUME NEW n \in Names, HealthTick(n) PROVE Strikes'
    <2>1. state[n] # "UNRESPONSIVE" /\ UNCHANGED <<state, failures>>
      BY <1>6 DEF HealthTick, Broken, registryVars
    <2>2. \A m \in Names : m # n => health'[m] = health[m]
      BY <1>6 DEF HealthTick, IInv, TypeOK, HealthTypeOK
    <2>. QED
      BY <2>1, <2>2 DEF Strikes
  <1>7. ASSUME NEW n \in Names, Hardware(n) PROVE Strikes'
    BY <1>1, <1>7 DEF Hardware, WriteLands, OrphanEnds, registryVars
  <1>8. CASE HandleLock
    <2>1. \A n \in Names : state'[n] = "UNRESPONSIVE" => state[n] = "UNRESPONSIVE"
      BY <1>8 DEF HandleLock, Take
    <2>2. UNCHANGED <<health, failures>>
      BY <1>8 DEF HandleLock, healthVars
    <2>. QED
      BY <2>1, <2>2, NoStrike
  <1>. QED
    BY <1>2, <1>3, <1>4, <1>5, <1>6, <1>7, <1>8, CommandStrikes, CallEndsStrikes DEF Next

\* Where no driver call runs into its timeout, the health monitor
\* (_health_loop) makes an instrument UNRESPONSIVE for three pings that failed
\* in a row and for nothing less, whatever releases and resets come between.
THEOREM ThreeStrikesHolds ==
  ASSUME "timeout" \notin Outcomes
  PROVE  Spec => []ThreeStrikes
  <1>1. Init => Strikes
    BY DEF Init, InstInit, Strikes
  <1>2. IInv /\ Strikes /\ [Next]_vars => Strikes'
    BY NextStrikes
  <1>3. Strikes => ThreeStrikes
    BY DEF Strikes, ThreeStrikes
  <1>. QED
    BY Inductive, <1>1, <1>2, <1>3, PTL DEF Spec

-----------------------------------------------------------------------------
(* The hardware of IDLE instruments *)

\* The calls of Drives that only the owner of an instrument makes.
Writes == Drives \ {"configure"}

\* But for configure(), only a tracked call of the command in progress changes
\* outputs, and no thread is left that does.
DrivesTracked ==
    \A n \in Names :
        /\ orphan[n] \cap Drives = {}
        /\ \A i \in 1 .. Len(lockq[n]) : lockq[n][i].call \in Writes => cmd.op = "call"

\* A step queues no write.
NoNewDrive ==
    \A m \in Names : \A i \in 1 .. Len(lockq'[m]) :
        lockq'[m][i].call \in Writes =>
            \E j \in 1 .. Len(lockq[m]) : lockq[m][j] = lockq'[m][i]

\* Guards read, and health tasks ping.
LEMMA BackgroundDrivesNothing ==
  ASSUME NEW e \in Background
  PROVE  e.call \notin Drives
  BY DEF Background, WatchEntries, WatchEntry, PingEntry, DriverCall, Drives

\* What a step must do for DrivesTracked: begin or go on with a tracked call,
\* end the command, or queue nothing that changes outputs.
LEMMA DrivesKept ==
  ASSUME DrivesTracked, QInv', \A n \in Names : orphan'[n] \cap Drives = {},
         cmd'.op = "call" \/ Quiet' \/ (NoNewDrive /\ cmd.op # "call")
  PROVE  DrivesTracked'
  <1>1. CASE cmd'.op = "call"
    BY <1>1 DEF DrivesTracked
  <1>2. CASE Quiet'
    <2>1. ASSUME NEW n \in Names, NEW i \in 1 .. Len(lockq'[n])
          PROVE  lockq'[n][i].call \notin Writes
      <3>1. Fits(lockq'[n], Calling(n)', Room(n)')
        BY DEF QInv, QueuesFit
      <3>2. Room(n)' = "none"
        BY <1>2 DEF Room
      <3>3. lockq'[n][i] \in Background
        BY <3>1, <3>2 DEF Fits
      <3>. QED
        BY <3>3, BackgroundDrivesNothing DEF Writes
    <2>. QED
      BY <2>1 DEF DrivesTracked
  <1>3. CASE NoNewDrive /\ cmd.op # "call"
    BY <1>3 DEF DrivesTracked, NoNewDrive
  <1>. QED
    BY <1>1, <1>2, <1>3

\* A step with the same command that queues nothing new.
LEMMA DrivesSameCommand ==
  ASSUME DrivesTracked, QInv', \A n \in Names : orphan'[n] \cap Drives = {},
         UNCHANGED cmd, NoNewDrive
  PROVE  DrivesTracked'
  <1>1. CASE cmd.op = "call"
    BY <1>1, DrivesKept
  <1>2. CASE cmd.op # "call"
    BY <1>2, DrivesKept
  <1>. QED
    BY <1>1, <1>2

\* Queues q that hold none but calls that are queued.
OnlyOld(q) ==
    /\ q \in [Names -> Seq(Entry)]
    /\ \A m \in Names : \A i \in 1 .. Len(q[m]) :
          \E j \in 1 .. Len(lockq[m]) : lockq[m][j] = q[m][i]

\* The queues as they are.
LEMMA QueuesAreOld ==
  ASSUME QInv
  PROVE  OnlyOld(lockq)
  BY DEF OnlyOld, QInv, BusTypeOK

\* Queueing a call that changes no outputs.
LEMMA EnqueueNoDrive ==
  ASSUME NEW q, OnlyOld(q), NEW n \in Names, NEW e \in Entry, e.call \notin Writes,
         lockq' = [q EXCEPT ![n] = Append(@, e)]
  PROVE  NoNewDrive
  <1>0. q \in [Names -> Seq(Entry)]
    BY DEF OnlyOld
  <1>1. ASSUME NEW m \in Names, NEW i \in 1 .. Len(lockq'[m]), lockq'[m][i].call \in Writes
        PROVE  \E j \in 1 .. Len(lockq[m]) : lockq[m][j] = lockq'[m][i]
    <2>1. CASE m = n
      <3>1. q[n] \in Seq(Entry) /\ lockq'[n] = Append(q[n], e)
        BY <1>0
      <3>2. \/ i \in 1 .. Len(q[n]) /\ lockq'[n][i] = q[n][i]
            \/ lockq'[n][i] = e
        BY <2>1, <3>1, AppendElements
      <3>3. i \in 1 .. Len(q[n]) /\ lockq'[n][i] = q[n][i]
        BY <1>1, <2>1, <3>2
      <3>. QED
        BY <2>1, <3>3, SMTT(30) DEF OnlyOld
    <2>2. CASE m # n
      <3>1. lockq'[m] = q[m]
        BY <1>0, <2>2
      <3>. QED
        BY <3>1 DEF OnlyOld
    <2>. QED
      BY <2>1, <2>2
  <1>. QED
    BY <1>1 DEF NoNewDrive

\* The queues after the holder of n's lock has left.
LEMMA TailNoDrive ==
  ASSUME QInv, NEW n \in Names, lockq[n] # <<>>, NEW q, q = [lockq EXCEPT ![n] = Tail(@)]
  PROVE  OnlyOld(q)
  <1>0. lockq \in [Names -> Seq(Entry)] /\ lockq[n] \in Seq(Entry)
    BY DEF QInv, BusTypeOK
  <1>1. Tail(lockq[n]) \in Seq(Entry)
    BY <1>0, TailElements
  <1>2. q \in [Names -> Seq(Entry)]
    BY <1>0, <1>1
  <1>3. ASSUME NEW m \in Names, NEW i \in 1 .. Len(q[m])
        PROVE  \E j \in 1 .. Len(lockq[m]) : lockq[m][j] = q[m][i]
    <2>1. CASE m = n
      <3>1. q[n] = Tail(lockq[n])
        BY <1>0
      <3>2. i + 1 \in 2 .. Len(lockq[n]) /\ Tail(lockq[n])[i] = lockq[n][i + 1]
        BY <1>0, <2>1, <3>1, TailElements
      <3>3. i + 1 \in 1 .. Len(lockq[n])
        BY <3>2
      <3>. QED
        BY <2>1, <3>1, <3>2, <3>3
    <2>2. CASE m # n
      BY <1>0, <2>2
    <2>. QED
      BY <2>1, <2>2
  <1>. QED
    BY <1>2, <1>3 DEF OnlyOld

\* The same as a step.
LEMMA PopNoDrive ==
  ASSUME QInv, NEW n \in Names, lockq[n] # <<>>, NEW o, Pop(n, o)
  PROVE  NoNewDrive
  BY TailNoDrive DEF Pop, NoNewDrive, OnlyOld

\* Cancelling tasks queues nothing, and leaves their reads and pings in threads.
LEMMA CancelNoDrive ==
  ASSUME QInv, DrivesTracked, NEW N, NEW gone \in SUBSET Background, Cancel(N, gone)
  PROVE  NoNewDrive /\ \A n \in Names : orphan'[n] \cap Drives = {}
  <1>1. ASSUME NEW n \in Names PROVE orphan'[n] \cap Drives = {}
    <2>1. CASE UNCHANGED orphan[n]
      BY <2>1 DEF DrivesTracked
    <2>2. CASE Head(lockq[n]) \in gone /\ orphan'[n] = orphan[n] \cup {Head(lockq[n]).call}
      BY <2>2, BackgroundDrivesNothing DEF DrivesTracked
    <2>. QED
      BY <2>1, <2>2 DEF Cancel
  <1>2. ASSUME NEW n \in Names, NEW i \in 1 .. Len(lockq'[n])
        PROVE  \E j \in 1 .. Len(lockq[n]) : lockq[n][j] = lockq'[n][i]
    <2>1. lockq[n] \in Seq(Entry)
      BY DEF QInv, BusTypeOK
    <2>2. CASE lockq'[n] = lockq[n]
      BY <2>2
    <2>3. CASE lockq'[n] = Without(lockq[n], gone)
      <3>. DEFINE K == {j \in 1 .. Len(lockq[n]) : lockq[n][j] \notin gone}
      <3>1. Selection(Without(lockq[n], gone), lockq[n], K)
        BY <2>1, WithoutElements
      <3>2. \A j \in K : j \in 1 .. Len(lockq[n])
        OBVIOUS
      <3>. HIDE DEF K
      <3>3. \E j \in K : lockq[n][j] = Without(lockq[n], gone)[i]
        BY <2>3, <3>1 DEF Selection
      <3>. QED
        BY <2>3, <3>2, <3>3
    <2>. QED
      BY <2>2, <2>3 DEF Cancel
  <1>. QED
    BY <1>1, <1>2 DEF NoNewDrive

\* A step that cancels tasks keeps DrivesTracked.
LEMMA CancelTracked ==
  ASSUME QInv, QInv', DrivesTracked, NEW N, NEW gone \in SUBSET Background,
         Cancel(N, gone), UNCHANGED cmd \/ Quiet'
  PROVE  DrivesTracked'
  <1>1. NoNewDrive /\ \A n \in Names : orphan'[n] \cap Drives = {}
    BY CancelNoDrive
  <1>. QED
    BY <1>1, DrivesKept, DrivesSameCommand

\* So does one that leaves queues and threads alone.
LEMMA StillTracked ==
  ASSUME QInv', DrivesTracked, UNCHANGED busVars, UNCHANGED cmd \/ Quiet'
  PROVE  DrivesTracked'
  <1>1. NoNewDrive /\ \A n \in Names : orphan'[n] \cap Drives = {}
    BY DEF NoNewDrive, DrivesTracked, busVars
  <1>. QED
    BY <1>1, DrivesKept, DrivesSameCommand

\* The first call of a command: one that changes outputs is a tracked one.
LEMMA StartCallTracked ==
  ASSUME QInv, QInv', DrivesTracked, cmd = NoCmd, NEW s, NEW op, NEW n \in Names,
         NEW call \in Calls, op = "call" \/ call \notin Writes, NEW m,
         StartCall(s, op, n, DriverCall("cmd", call, NoRes), m)
  PROVE  DrivesTracked'
  <1>. DEFINE e == DriverCall("cmd", call, NoRes)
  <1>1. \A k \in Names : orphan'[k] \cap Drives = {}
    BY DEF StartCall, DrivesTracked
  <1>2. CASE op = "call"
    BY <1>1, <1>2, DrivesKept DEF StartCall, Running
  <1>3. CASE call \notin Writes
    <2>1. e \in Entry /\ e.call = call
      BY DEF DriverCall, Entry
    <2>2. OnlyOld(lockq) /\ lockq' = [lockq EXCEPT ![n] = Append(@, e)]
      BY QueuesAreOld DEF StartCall, Enqueue
    <2>. HIDE DEF e
    <2>3. NoNewDrive
      BY <1>3, <2>1, <2>2, EnqueueNoDrive
    <2>. QED
      BY <1>1, <2>3, DrivesKept DEF NoCmd
  <1>. QED
    BY <1>2, <1>3

\* Commands keep DrivesTracked.
LEMMA CommandTracked ==
  ASSUME IInv, QInv, QInv', DrivesTracked, NEW s \in Sessions, Command(s)
  PROVE  DrivesTracked'
  <1>0. ASSUME cmd = NoCmd, UNCHANGED sessionVars PROVE Quiet'
    BY <1>0 DEF sessionVars, Quiet, Unqueued, NoCmd
  <1>. USE DEF Dispatch
  <1>1. ASSUME NEW n \in Names, IADD(s, n) \/ IRESET(s, n) PROVE DrivesTracked'
    BY <1>0, <1>1, StillTracked DEF IADD, IRESET
  <1>2. ASSUME NEW n \in Names, IREMOVE(s, n) PROVE DrivesTracked'
    <2>1. Cancel({n}, Background)
      BY <1>2 DEF IREMOVE, StopInstruments, Background
    <2>. QED
      BY <1>0, <1>2, <2>1, CancelTracked DEF IREMOVE
  <1>3. ASSUME NEW n \in Names, IINIT(s, n) \/ IPING(s, n) PROVE DrivesTracked'
    BY <1>3, StartCallTracked DEF IINIT, IPING, Calls, Writes, Drives
  <1>4. ASSUME NEW n \in Names, NEW e, NEW m, TrackedCall(s, n, e, m) PROVE DrivesTracked'
    <2>1. cmd'.op = "call" /\ \A k \in Names : orphan'[k] \cap Drives = {}
      BY <1>4 DEF TrackedCall, StartCall, Running, DrivesTracked
    <2>. QED
      BY <2>1, DrivesKept
  <1>5. ASSUME NEW n \in Names, IRAW(s, n) \/ ISAVE(s, n) \/ ILOAD(s, n) \/ IWAIT(s, n)
        PROVE  DrivesTracked'
    BY <1>4, <1>5 DEF IRAW, ISAVE, ILOAD, IWAIT
  <1>6. ASSUME NEW n \in Names, NEW r \in Resources, NEW m, IREAD(s, n, r, m) \/ IWRITE(s, n, r)
        PROVE  DrivesTracked'
    BY <1>4, <1>6 DEF IREAD, IWRITE
  <1>7. ASSUME NEW n \in Names, NEW r \in Resources, IREADRefused(s, n, r)
        PROVE  DrivesTracked'
    BY <1>0, <1>7, StillTracked DEF IREADRefused, instVars, busVars
  <1>8. ASSUME NEW n \in Names, NEW r \in Resources, IWATCH(s, n, r) \/ IUNWATCH(s, n, r)
        PROVE  DrivesTracked'
    <2>1. Cancel({n}, {WatchEntry(r)}) /\ {WatchEntry(r)} \in SUBSET Background
      BY <1>8 DEF IWATCH, IUNWATCH, StartWatch, StopWatch, Background, WatchEntries
    <2>. QED
      BY <1>0, <1>8, <2>1, CancelTracked DEF IWATCH, IUNWATCH
  <1>9. ASSUME NEW N, StopInstruments(N, {}), Quiet' PROVE DrivesTracked'
    <2>1. Cancel(N, WatchEntries) /\ WatchEntries \in SUBSET Background
      BY <1>9 DEF StopInstruments, Background
    <2>. QED
      BY <1>9, <2>1, CancelTracked
  <1>10. ASSUME NEW N \in SUBSET Names, IUNWATCHAll(s, N) PROVE DrivesTracked'
    BY <1>0, <1>9, <1>10 DEF IUNWATCHAll
  <1>12. ASSUME NEW N \in SUBSET Names, ILOCK(s, N) \/ IUNLOCK(s, N) PROVE DrivesTracked'
    BY <1>12, StillTracked DEF ILOCK, IUNLOCK, GivenLock, Running, Quiet, Unqueued,
                               instVars, busVars
  <1>13. ASSUME NEW N \in SUBSET Names, IALIGN(s, N) PROVE DrivesTracked'
    <2>. DEFINE e == DriverCall("cmd", "discover", NoRes)
    <2>1. e \in Entry /\ e.call \notin Writes
      BY DEF DriverCall, Entry, Calls, Writes, Drives
    <2>2. PICK n \in N : lockq' = [lockq EXCEPT ![n] = Append(@, e)]
      BY <1>13 DEF IALIGN, Enqueue
    <2>3. OnlyOld(lockq) /\ n \in Names
      BY QueuesAreOld
    <2>. HIDE DEF e
    <2>4. NoNewDrive
      BY <2>1, <2>2, <2>3, EnqueueNoDrive
    <2>5. cmd.op # "call" /\ \A k \in Names : orphan'[k] \cap Drives = {}
      BY <1>13 DEF IALIGN, NoCmd, DrivesTracked
    <2>. QED
      BY <2>4, <2>5, DrivesKept
  <1>14. ASSUME NEW args \in Targets, IMREAD(s, args) PROVE DrivesTracked'
    <2>1. NoNewDrive
      <3>1. ASSUME NEW n \in Names, NEW i \in 1 .. Len(lockq'[n]), lockq'[n][i].call \in Writes
            PROVE  \E j \in 1 .. Len(lockq[n]) : lockq[n][j] = lockq'[n][i]
        <4>. DEFINE reads == ReadsOn(n, args)
                    q == lockq[n]
        <4>1. /\ q \in Seq(Entry) /\ reads \in Seq(Reads)
              /\ \A e \in Reads : e \in Entry /\ e.call \notin Writes
          <5>1. \A e \in Reads : e \in Entry
            BY CommandCalls DEF Reads, Calls
          <5>2. \A e \in Reads : e.call \notin Writes
            BY DEF Reads, DriverCall, Writes, Drives
          <5>. QED
            BY <5>1, <5>2, ReadsOnElements DEF QInv, BusTypeOK
        <4>2. reads \in Seq(Entry)
          BY <4>1, SeqMonotonic
        <4>3. lockq'[n] = q \o reads
          BY <1>14 DEF IMREAD
        <4>. HIDE DEF reads, q
        <4>4. /\ Len(q) \in Nat /\ Len(reads) \in Nat
              /\ Len(q \o reads) = Len(q) + Len(reads)
              /\ \A k \in 1 .. Len(q) + Len(reads) :
                    (q \o reads)[k] = IF k <= Len(q) THEN q[k] ELSE reads[k - Len(q)]
          BY <4>1, <4>2, ConcatProperties, LenProperties
        <4>5. CASE i <= Len(q)
          BY <3>1, <4>3, <4>4, <4>5 DEF q
        <4>6. CASE ~(i <= Len(q))
          <5>1. i - Len(q) \in 1 .. Len(reads) /\ lockq'[n][i] = reads[i - Len(q)]
            BY <3>1, <4>3, <4>4, <4>6
          <5>2. reads[i - Len(q)] \in Reads
            BY <4>1, <5>1, ElementOfSeq
          <5>. QED
            BY <3>1, <4>1, <5>1, <5>2
        <4>. QED
          BY <4>5, <4>6
      <3>. QED
        BY <3>1 DEF NoNewDrive
    <2>2. cmd.op # "call" /\ \A n \in Names : orphan'[n] \cap Drives = {}
      BY <1>14 DEF IMREAD, NoCmd, DrivesTracked
    <2>. QED
      BY <2>1, <2>2, DrivesKept
  <1>. QED
    BY <1>1, <1>2, <1>3, <1>5, <1>6, <1>7, <1>8, <1>10, <1>12, <1>13, <1>14 DEF Command

\* Driver calls that end, none by a timeout, keep DrivesTracked.
LEMMA CallEndsTracked ==
  ASSUME IInv, QInv, QInv', DrivesTracked, NEW n \in Names, CallEnds(n),
         "timeout" \notin Outcomes
  PROVE  DrivesTracked'
  <1>1. ASSUME NEW o \in Outcomes \cup {"ok"}, Abandon(n, o)
        PROVE  \A k \in Names : orphan'[k] \cap Drives = {}
    <2>1. orphan \in [Names -> SUBSET Calls]
      BY DEF QInv, BusTypeOK
    <2>2. orphan' = orphan
      BY <1>1, <2>1 DEF Abandon
    <2>. QED
      BY <2>2 DEF DrivesTracked
  <1>2. ASSUME NEW o \in Outcomes \cup {"ok"}, lockq[n] # <<>>, Pop(n, o),
               UNCHANGED cmd \/ Quiet'
        PROVE  DrivesTracked'
    <2>1. NoNewDrive /\ \A k \in Names : orphan'[k] \cap Drives = {}
      BY <1>1, <1>2, PopNoDrive DEF Pop
    <2>. QED
      BY <1>2, <2>1, DrivesKept, DrivesSameCommand
  <1>3. ASSUME NEW o \in Outcomes, CallReturns(n, o) \/ MreadReturns(n, o) \/ PlainCallEnds(n, o)
        PROVE  DrivesTracked'
    <2>1. lockq[n] # <<>> /\ Pop(n, o)
      BY <1>3 DEF CallReturns, MreadReturns, PlainCallEnds, Holds
    <2>2. UNCHANGED cmd \/ Quiet'
      BY <1>3 DEF CallReturns, MreadReturns, PlainCallEnds, Quiet, Unqueued, NoCmd
    <2>. QED
      BY <1>2, <2>1, <2>2
  <1>4. ASSUME NEW o \in Outcomes, HealthCallEnds(n, o), UNCHANGED cmd PROVE DrivesTracked'
    BY <1>2, <1>4 DEF HealthCallEnds, Holds
  <1>5. ASSUME NEW o \in Outcomes, NEW r \in Resources, WatchCallEnds(n, r, o), UNCHANGED cmd
        PROVE  DrivesTracked'
    BY <1>2, <1>5 DEF WatchCallEnds, Holds
  <1>6. CASE InitCompletes(n)
    BY <1>2, <1>6 DEF InitCompletes, Holds, Quiet, Unqueued, NoCmd
  <1>7. CASE InitContinues(n)
    <2>0. PICK q : q = [lockq EXCEPT ![n] = Tail(@)]
      OBVIOUS
    <2>1. PICK call \in Calls \ Writes : PopThenEnqueue(n, "ok", DriverCall("cmd", call, NoRes))
      BY <1>7 DEF InitContinues, Calls, Writes, Drives
    <2>. DEFINE e == DriverCall("cmd", call, NoRes)
    <2>2. e \in Entry /\ e.call \notin Writes
      BY DEF DriverCall, Entry
    <2>. HIDE DEF e
    <2>3. lockq' = [q EXCEPT ![n] = Append(@, e)]
      BY <2>0, <2>1 DEF PopThenEnqueue, e, QInv, BusTypeOK
    <2>4. lockq[n] # <<>> /\ UNCHANGED cmd
      BY <1>7 DEF InitContinues, Holds, sessionVars
    <2>5. OnlyOld(q)
      BY <2>0, <2>4, TailNoDrive
    <2>6. NoNewDrive
      BY <2>2, <2>3, <2>5, EnqueueNoDrive
    <2>7. \A k \in Names : orphan'[k] \cap Drives = {}
      BY <1>1, <2>1 DEF PopThenEnqueue
    <2>. QED
      BY <2>4, <2>6, <2>7, DrivesSameCommand
  <1>8. CASE AlignContinues(n)
    <2>0. PICK q : q = [lockq EXCEPT ![n] = Tail(@)]
      OBVIOUS
    <2>. DEFINE e == DriverCall("cmd", "discover", NoRes)
    <2>1. e \in Entry /\ e.call \notin Writes
      BY DEF DriverCall, Entry, Calls, Writes, Drives
    <2>2. lockq[n] # <<>> /\ Abandon(n, "ok") /\ cmd.op = "align" /\ n \in cmd.at
      BY <1>8 DEF AlignContinues, Holds
    <2>3. OnlyOld(q)
      BY <2>0, <2>2, TailNoDrive
    <2>4. CASE lockq' = q /\ cmd' = NoCmd
      BY <1>2, <2>0, <2>2, <2>4 DEF Pop, Quiet, Unqueued, NoCmd
    <2>5. ASSUME NEW m \in cmd.rest, lockq' = [lockq EXCEPT ![n] = Tail(@), ![m] = Append(@, e)]
          PROVE  DrivesTracked'
      <3>1. m \in Names /\ m # n
        BY <2>2, Types DEF QInv, OneAtATime
      <3>2. lockq \in [Names -> Seq(Entry)]
        BY DEF QInv, BusTypeOK
      <3>3. lockq' = [q EXCEPT ![m] = Append(@, e)]
        BY <2>0, <2>5, <3>1, <3>2
      <3>. HIDE DEF e
      <3>4. NoNewDrive
        BY <2>1, <2>3, <3>1, <3>3, EnqueueNoDrive
      <3>5. \A k \in Names : orphan'[k] \cap Drives = {}
        BY <1>1, <2>2
      <3>. QED
        BY <2>2, <3>4, <3>5, DrivesKept
    <2>. QED
      BY <1>8, <2>0, <2>4, <2>5 DEF AlignContinues
  <1>. QED
    BY <1>3, <1>4, <1>5, <1>6, <1>7, <1>8 DEF CallEnds, sessionVars

\* Every step keeps DrivesTracked.
LEMMA NextTracked ==
  ASSUME IInv, QInv, QInv', DrivesTracked, [Next]_vars, "timeout" \notin Outcomes
  PROVE  DrivesTracked'
  <1>1. ASSUME NEW n \in Names, StopInstruments({n}, {}), UNCHANGED cmd \/ Quiet'
        PROVE  DrivesTracked'
    <2>1. Cancel({n}, WatchEntries) /\ WatchEntries \in SUBSET Background
      BY <1>1 DEF StopInstruments, Background
    <2>. QED
      BY <1>1, <2>1, CancelTracked
  <1>2. ASSUME NEW s \in Sessions, Disconnect(s) \/ CloseResumes(s) PROVE DrivesTracked'
    <2>1. ASSUME NEW N, CloseRelease(s, N) PROVE DrivesTracked'
      <3>1. PICK n \in N \cap Owned(s) : ReleaseInst(n)
        BY <2>1 DEF CloseRelease
      <3>2. n \in Names
        BY <3>1 DEF Owned, IInv, TypeOK, InstTypeOK
      <3>. QED
        BY <1>1, <2>1, <3>1, <3>2 DEF ReleaseInst, CloseRelease
    <2>2. ASSUME NEW raised, CloseDone(s, raised) PROVE DrivesTracked'
      BY <2>2, StillTracked DEF CloseDone, instVars, busVars
    <2>. QED
      BY <1>2, <2>1, <2>2 DEF Disconnect, CloseResumes
  <1>3. CASE UnlockResumes
    <2>1. PICK n \in cmd.rest : UnlockRound(cmd.sess, n, cmd.rest \ {n})
      BY <1>3 DEF UnlockResumes
    <2>2. n \in Names
      BY Types
    <2>3. StopInstruments({n}, {}) /\ Quiet'
      BY <2>1 DEF UnlockRound, ReleaseInst, Quiet, Unqueued, NoCmd, Running
    <2>. QED
      BY <1>1, <2>2, <2>3
  <1>4. CASE HandleLock \/ UnlockAborts \/ UNCHANGED vars
    BY <1>4, StillTracked DEF HandleLock, UnlockAborts, Quiet, Unqueued, NoCmd, vars, instVars, busVars, sessionVars
  <1>5. ASSUME NEW n \in Names, NEW e \in Background, Enqueue(n, e), UNCHANGED <<orphan, cmd>>
        PROVE  DrivesTracked'
    <2>1. e \in Entry /\ e.call \notin Writes
      BY BackgroundCalls, BackgroundDrivesNothing DEF Writes
    <2>2. OnlyOld(lockq)
      BY QueuesAreOld
    <2>3. NoNewDrive
      BY <1>5, <2>1, <2>2, EnqueueNoDrive DEF Enqueue
    <2>4. \A k \in Names : orphan'[k] \cap Drives = {}
      BY <1>5 DEF DrivesTracked
    <2>. QED
      BY <1>5, <2>3, <2>4, DrivesSameCommand
  <1>6. ASSUME NEW n \in Names, Guard(n) PROVE DrivesTracked'
    <2>1. ASSUME NEW r \in Resources, WatchTick(n, r), UNCHANGED cmd PROVE DrivesTracked'
      BY <1>5, <2>1 DEF WatchTick, Background, WatchEntries
    <2>2. ASSUME NEW r \in Resources, GuardTrip(n, r), UNCHANGED cmd PROVE DrivesTracked'
      BY <2>2, StillTracked DEF GuardTrip
    <2>. QED
      BY <1>6, <2>1, <2>2 DEF Guard, sessionVars
  <1>7. ASSUME NEW n \in Names, HealthTick(n), UNCHANGED sessionVars PROVE DrivesTracked'
    BY <1>5, <1>7 DEF HealthTick, Background, sessionVars
  <1>8. ASSUME NEW n \in Names, Hardware(n) PROVE DrivesTracked'
    <2>1. CASE WriteLands(n)
      BY <1>8, <2>1, StillTracked DEF Hardware, WriteLands, sessionVars
    <2>2. CASE OrphanEnds(n)
      <3>1. orphan \in [Names -> SUBSET Calls]
        BY DEF QInv, BusTypeOK
      <3>2. \A k \in Names : orphan'[k] \subseteq orphan[k]
        BY <2>2, <3>1 DEF OrphanEnds
      <3>3. \A k \in Names : orphan'[k] \cap Drives = {}
        BY <3>2 DEF DrivesTracked
      <3>4. NoNewDrive /\ UNCHANGED cmd
        BY <1>8, <2>2 DEF Hardware, OrphanEnds, NoNewDrive, sessionVars
      <3>. QED
        BY <3>3, <3>4, DrivesSameCommand
    <2>. QED
      BY <1>8, <2>1, <2>2 DEF Hardware
  <1>. QED
    BY <1>2, <1>3, <1>4, <1>6, <1>7, <1>8, CommandTracked, CallEndsTracked DEF Next

\* But for configure(), a call that reaches the hardware is one of the owner of
\* the instrument, which is therefore not IDLE.
LEMMA DrivesOwned ==
  ASSUME IInv, QInv, CommandHasSession, DrivesTracked, NEW n \in Names,
         \/ lockq[n] # <<>> /\ Head(lockq[n]).call \in Drives
         \/ orphan[n] \cap Drives # {}
  PROVE  state[n] # "IDLE" \/ Configuring(n)
  <1>1. lockq[n] # <<>> /\ Head(lockq[n]).call \in Drives
    BY DEF DrivesTracked
  <1>2. lockq[n] \in Seq(Entry) /\ Fits(lockq[n], Calling(n), Room(n))
    BY DEF QInv, BusTypeOK, QueuesFit
  <1>3. 1 \in 1 .. Len(lockq[n]) /\ Head(lockq[n]) = lockq[n][1]
    BY <1>1, <1>2, TailElements
  <1>4. CASE Head(lockq[n]).call = "configure"
    BY <1>1, <1>4 DEF Configuring
  <1>5. CASE Head(lockq[n]).call # "configure"
    <2>1. cmd.op = "call"
      BY <1>1, <1>3, <1>5 DEF DrivesTracked, Writes
    <2>2. Head(lockq[n]) \notin Background
      BY <1>1, BackgroundDrivesNothing
    <2>3. Room(n) # "none"
      BY <1>2, <1>3, <2>2 DEF Fits
    <2>4. n \in cmd.at
      BY <2>3 DEF Room
    <2>5. owner[n] # NoOwner
      BY <2>1, <2>4, OwnerAssumption DEF IInv, OwnerDuringCall, CommandHasSession
    <2>. QED
      BY <2>5 DEF IInv, StateMatchesFields
  <1>. QED
    BY <1>4, <1>5

\* What IdleStaysSafe asks of a step.
IdleStep ==
    \A n \in Names :
        state'[n] = "IDLE" /\ hw'[n] = "driven"
            => state[n] = "IDLE" /\ (hw[n] = "driven" \/ Configuring(n))

\* A step that makes nothing IDLE without making it safe.
LEMMA IdleKept ==
  ASSUME \A n \in Names :
            state'[n] = "IDLE" => (state[n] = "IDLE" /\ hw'[n] = hw[n]) \/ hw'[n] = "safe"
  PROVE  IdleStep
  BY DEF IdleStep

\* The same for a step that sets the state of one instrument.
LEMMA IdleKeptAt ==
  ASSUME IInv, NEW n \in Names, NEW v, v = state[n] \/ v # "IDLE",
         state' = [state EXCEPT ![n] = v], UNCHANGED hw
  PROVE  IdleStep
  BY DEF IdleStep, IInv, TypeOK, InstTypeOK

\* Making an instrument safe.
LEMMA SafeStateIsSafe ==
  ASSUME IInv, NEW n \in Names, SafeState(n, TRUE), NEW v,
         state' = [state EXCEPT ![n] = v]
  PROVE  IdleStep
  <1>1. hw' = [hw EXCEPT ![n] = "safe"]
    BY DEF SafeState
  <1>2. state \in [Names -> InstrumentState] /\ hw \in [Names -> {"safe", "driven"}]
    BY DEF IInv, TypeOK, InstTypeOK
  <1>. QED
    BY <1>1, <1>2 DEF IdleStep

\* A round of an unlock.
LEMMA UnlockRoundIdle ==
  ASSUME IInv, SafeOutcomes = {TRUE}, NEW n \in Names,
         ReleaseInst(n) \/ UNCHANGED <<state, hw>>
  PROVE  IdleStep
  <1>1. CASE ReleaseInst(n)
    <2>1. SafeState(n, TRUE) /\ state' = [state EXCEPT ![n] = "IDLE"]
      BY <1>1 DEF ReleaseInst, Unlock
    <2>. QED
      BY <2>1, SafeStateIsSafe
  <1>2. CASE UNCHANGED <<state, hw>>
    BY <1>2, IdleKept
  <1>. QED
    BY <1>1, <1>2

\* Commands satisfy IdleStep.
LEMMA CommandIdle ==
  ASSUME IInv, SafeOutcomes = {TRUE}, NEW s \in Sessions, Command(s)
  PROVE  IdleStep
  <1>1. ASSUME UNCHANGED <<state, hw>> PROVE IdleStep
    BY <1>1, IdleKept
  <1>2. ASSUME NEW n \in Names, IADD(s, n) PROVE IdleStep
    <2>1. state' = [state EXCEPT ![n] = state[n]] /\ UNCHANGED hw
      BY <1>2 DEF IADD, Add, IInv, StateMatchesFields
    <2>. QED
      BY <2>1, IdleKeptAt
  <1>3. ASSUME NEW n \in Names, IREMOVE(s, n) PROVE IdleStep
    <2>1. SafeState(n, TRUE) /\ state' = [state EXCEPT ![n] = "IDLE"]
      BY <1>3 DEF IREMOVE, Remove
    <2>. QED
      BY <2>1, SafeStateIsSafe
  <1>4. ASSUME NEW n \in Names, IRESET(s, n) PROVE IdleStep
    <2>1. state' = [state EXCEPT ![n] = "LOCKED"] /\ UNCHANGED hw
      BY <1>4 DEF IRESET, Reset
    <2>. QED
      BY <2>1, IdleKeptAt
  <1>5. ASSUME NEW n \in Names, NEW op, NEW e, NEW v, StartCall(s, op, n, e, v)
        PROVE  IdleStep
    BY <1>1, <1>5 DEF StartCall, registryVars
  <1>6. ASSUME NEW n \in Names,
               \/ IINIT(s, n) \/ IPING(s, n)
               \/ IRAW(s, n) \/ ISAVE(s, n) \/ ILOAD(s, n) \/ IWAIT(s, n)
        PROVE  IdleStep
    BY <1>5, <1>6 DEF IINIT, IPING, IRAW, ISAVE, ILOAD, IWAIT, TrackedCall
  <1>7. ASSUME NEW n \in Names, NEW r \in Resources, NEW v, IREAD(s, n, r, v) \/ IWRITE(s, n, r)
        PROVE  IdleStep
    BY <1>5, <1>7 DEF IREAD, IWRITE, TrackedCall
  <1>8. ASSUME NEW n \in Names, NEW r \in Resources,
               IREADRefused(s, n, r) \/ IWATCH(s, n, r) \/ IUNWATCH(s, n, r)
        PROVE  IdleStep
    BY <1>1, <1>8 DEF IREADRefused, IWATCH, IUNWATCH, instVars, registryVars
  <1>9. ASSUME NEW N \in SUBSET Names, IALIGN(s, N) \/ IUNWATCHAll(s, N) PROVE IdleStep
    BY <1>1, <1>9 DEF IALIGN, IUNWATCHAll, registryVars
  <1>10. ASSUME NEW N \in SUBSET Names, ILOCK(s, N) \/ IUNLOCK(s, N) PROVE IdleStep
    BY <1>1, <1>10 DEF ILOCK, IUNLOCK, GivenLock, instVars
  <1>12. ASSUME NEW args \in Targets, IMREAD(s, args) PROVE IdleStep
    BY <1>1, <1>12 DEF IMREAD, registryVars
  <1>. QED
    BY <1>2, <1>3, <1>4, <1>6, <1>7, <1>8, <1>9, <1>10, <1>12 DEF Command

\* Driver calls that end satisfy IdleStep: none makes an instrument IDLE.
LEMMA CallEndsIdle ==
  ASSUME IInv, NEW n \in Names, CallEnds(n)
  PROVE  IdleStep
  <1>1. ASSUME NEW o \in Outcomes, CallReturns(n, o) \/ MreadReturns(n, o) \/ PlainCallEnds(n, o)
        PROVE  IdleStep
    <2>1. PICK v : (v = state[n] \/ v # "IDLE") /\ state' = [state EXCEPT ![n] = v]
      BY <1>1 DEF CallReturns, MreadReturns, PlainCallEnds, AfterTrackedCall, AfterCall
    <2>2. UNCHANGED hw
      BY <1>1 DEF CallReturns, MreadReturns, PlainCallEnds
    <2>. QED
      BY <2>1, <2>2, IdleKeptAt
  <1>2. ASSUME NEW o \in Outcomes, NEW r \in Resources, WatchCallEnds(n, r, o) PROVE IdleStep
    <2>1. PICK v : (v = state[n] \/ v # "IDLE") /\ state' = [state EXCEPT ![n] = v]
      BY <1>2 DEF WatchCallEnds, AfterCall
    <2>. QED
      BY <1>2, <2>1, IdleKeptAt DEF WatchCallEnds
  <1>3. ASSUME NEW o \in Outcomes, HealthCallEnds(n, o) PROVE IdleStep
    <2>1. PICK v : (v = state[n] \/ v # "IDLE") /\ state' = [state EXCEPT ![n] = v]
      BY <1>3 DEF HealthCallEnds, AfterCall
    <2>. QED
      BY <1>3, <2>1, IdleKeptAt DEF HealthCallEnds
  <1>4. ASSUME InitContinues(n) PROVE IdleStep
    BY <1>4, IdleKept DEF InitContinues, registryVars
  <1>5. ASSUME InitCompletes(n) \/ AlignContinues(n) PROVE IdleStep
    <2>1. state' = [state EXCEPT ![n] = "READY"] /\ UNCHANGED hw
      BY <1>5 DEF InitCompletes, AlignContinues, BecomeReady
    <2>. QED
      BY <2>1, IdleKeptAt
  <1>. QED
    BY <1>1, <1>2, <1>3, <1>4, <1>5 DEF CallEnds

\* Every step satisfies IdleStep.
LEMMA NextIdle ==
  ASSUME IInv, QInv, CommandHasSession, DrivesTracked, [Next]_vars,
         SafeOutcomes = {TRUE}
  PROVE  IdleStep
  <1>1. ASSUME UNCHANGED <<state, hw>> PROVE IdleStep
    BY <1>1, IdleKept
  <1>2. ASSUME NEW s \in Sessions, Disconnect(s) \/ CloseResumes(s) PROVE IdleStep
    <2>1. ASSUME NEW N, CloseRelease(s, N) PROVE IdleStep
      <3>1. PICK n \in N \cap Owned(s) : ReleaseInst(n)
        BY <2>1 DEF CloseRelease
      <3>2. n \in Names
        BY <3>1 DEF Owned, IInv, TypeOK, InstTypeOK
      <3>. QED
        BY <3>1, <3>2, UnlockRoundIdle
    <2>2. ASSUME NEW raised, CloseDone(s, raised) PROVE IdleStep
      BY <1>1, <2>2 DEF CloseDone, instVars
    <2>. QED
      BY <1>2, <2>1, <2>2 DEF Disconnect, CloseResumes
  <1>3. CASE UnlockResumes
    <2>1. cmd.rest \subseteq Names
      BY Types
    <2>. QED
      BY <1>3, <2>1, UnlockRoundIdle DEF UnlockResumes, UnlockRound, registryVars
  <1>4. CASE UnlockAborts \/ UNCHANGED vars
    BY <1>1, <1>4 DEF UnlockAborts, vars, instVars
  <1>5. ASSUME NEW n \in Names, Guard(n) PROVE IdleStep
    <2>1. ASSUME NEW r \in Resources, WatchTick(n, r) PROVE IdleStep
      BY <1>1, <2>1 DEF WatchTick, registryVars
    <2>2. ASSUME NEW r \in Resources, GuardTrip(n, r) PROVE IdleStep
      BY <2>2, SafeStateIsSafe DEF GuardTrip
    <2>. QED
      BY <1>5, <2>1, <2>2 DEF Guard
  <1>6. ASSUME NEW n \in Names, HealthTick(n) PROVE IdleStep
    BY <1>1, <1>6 DEF HealthTick, registryVars
  <1>7. ASSUME NEW n \in Names, Hardware(n) PROVE IdleStep
    <2>1. CASE WriteLands(n)
      <3>1. state[n] # "IDLE" \/ Configuring(n)
        BY <2>1, DrivesOwned DEF WriteLands
      <3>2. UNCHANGED state /\ \A m \in Names : m # n => hw'[m] = hw[m]
        BY <2>1 DEF WriteLands, registryVars, IInv, TypeOK, InstTypeOK
      <3>. QED
        BY <3>1, <3>2 DEF IdleStep
    <2>2. CASE OrphanEnds(n)
      BY <1>1, <2>2 DEF OrphanEnds, registryVars
    <2>. QED
      BY <1>7, <2>1, <2>2 DEF Hardware
  <1>8. CASE HandleLock
    <2>1. \A n \in Names : state'[n] = "IDLE" => state[n] = "IDLE" /\ hw'[n] = hw[n]
      BY <1>8 DEF HandleLock, Take
    <2>. QED
      BY <2>1, IdleKept
  <1>. QED
    BY <1>2, <1>3, <1>4, <1>5, <1>6, <1>7, <1>8, CommandIdle, CallEndsIdle DEF Next

\* Where no driver call runs into its timeout and safe_state() works, an
\* instrument that InstrumentRegistry.unlock has made IDLE is in its safe state,
\* and no write reaches it later, for a write under way belongs to the owner,
\* whose command holds the dispatch lock.  What can still drive it is the
\* configure() of an IINIT, which needs no lock.
THEOREM IdleStaysSafeHolds ==
  ASSUME "timeout" \notin Outcomes, SafeOutcomes = {TRUE}
  PROVE  Spec => IdleStaysSafe
  <1>1. Init => DrivesTracked
    <2>. SUFFICES ASSUME Init PROVE DrivesTracked
      OBVIOUS
    <2>1. \A n \in Names : orphan[n] = {} /\ lockq[n] = <<>>
      BY DEF Init, InstInit
    <2>2. Len(<<>>) = 0
      BY EmptySeq
    <2>. QED
      BY <2>1, <2>2 DEF DrivesTracked
  <1>2. IInv /\ QInv /\ DrivesTracked /\ [Next]_vars => DrivesTracked'
    BY NextTracked, NextQInv
  <1>3. IInv /\ QInv /\ CommandHasSession /\ DrivesTracked /\ [Next]_vars => IdleStep
    BY NextIdle
  <1>4. IdleStep => [\A n \in Names :
          state'[n] = "IDLE" /\ hw'[n] = "driven"
              => state[n] = "IDLE" /\ (hw[n] = "driven" \/ Configuring(n))]_vars
    BY DEF IdleStep
  <1>. QED
    BY SessionInductive, QueueInductive, <1>1, <1>2, <1>3, <1>4, PTL DEF Spec, IdleStaysSafe
=============================================================================
