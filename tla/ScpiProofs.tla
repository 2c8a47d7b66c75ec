----------------------------- MODULE ScpiProofs ------------------------------
(***************************************************************************)
(* Proofs about ScpiDriver, for any number of driver calls and transports: *)
(* who is on the line, and whose answers are on it.                        *)
(***************************************************************************)
EXTENDS ScpiDriver, PicksProofs

AllJobs == {"read", "write", "configure", "init", "watch", "ping", "connect", "info", "safe"}
Phase == {"queued", "look", "flush", "send", "read", "done", "error", "raised"}
Asking == {"flush", "send", "read"}

\* A call is at a step of its job's program; in a query it is on a transport.
ThreadOK(t) ==
    /\ t.step \in 1 .. Len(Program[t.job])
    /\ t.phase \in Asking => t.on # 0 /\ Program[t.job][t.step] = "ask"
    /\ t.phase = "queued" => t.step = 1 /\ t.got = 0

ThreadType ==
    {t \in [job : AllJobs, step : Nat, phase : Phase, on : 0 .. MaxGens, got : 0 .. MaxCalls] :
        ThreadOK(t)}

TypeOK ==
    /\ link \in {"socket", "serial"}
    /\ thread \in Seq(ThreadType) /\ Len(thread) <= MaxCalls
    /\ lockq \in Seq(DOMAIN thread)
    /\ loop \in {0} \cup DOMAIN thread
    /\ opened \in Gens /\ current \in {0} \cup Gens
    /\ blocking \in [Gens -> BOOLEAN]
    /\ wire \in [Gens -> Seq(Calls)] /\ rx \in [Gens -> Seq(Calls)]
    /\ orphans \in SUBSET DOMAIN thread /\ trusted \in SUBSET DOMAIN thread

\* The lock's queue: its head may run, the others wait, all once; they are
\* neither abandoned nor the event loop's.
LockOK ==
    /\ \A k \in 1 .. Len(lockq) :
          /\ k > 1 => thread[lockq[k]].phase = "queued"
          /\ lockq[k] \notin orphans /\ lockq[k] # loop
    /\ \A j, k \in 1 .. Len(lockq) : lockq[j] = lockq[k] => j = k

\* Who runs in a thread holds the lock, is the event loop's, or is abandoned.
Accounted ==
    /\ \A i \in Live \ orphans : i = loop \/ (Len(lockq) > 0 /\ lockq[1] = i)
    /\ loop # 0 => loop \notin orphans /\ thread[loop].phase # "queued"

\* A call that has not asked yet.
Unasked(t) == \A k \in 1 .. t.step - 1 : Program[t.job][k] = "tell"

\* What is on the line of a call that has it to itself: nothing before it asks
\* (old answers, on a socket, up to the flush), then nothing that is not its own.
Clean(i) ==
    LET t == thread[i]
        l == Line(t.on)
    IN  /\ t.phase = "look" /\ Unasked(t) /\ current # 0 =>
              /\ wire[Line(current)] = <<>>
              /\ link = "serial" => rx[Line(current)] = <<>>
        /\ t.phase = "flush" => link = "socket" /\ wire[l] = <<>>
        /\ t.phase = "send" => wire[l] = <<>> /\ rx[l] = <<>>
        /\ t.phase = "read" =>
              /\ \A k \in 1 .. Len(wire[l]) : wire[l][k] = i
              /\ \A k \in 1 .. Len(rx[l]) : rx[l][k] = i

\* A call that may be believed has its own answer or none; while it runs, only
\* safe_state() runs beside it.
Believed ==
    \A i \in trusted \ orphans :
        /\ thread[i].phase # "queued"
        /\ thread[i].got \in {0, i}
        /\ i \in Live => Clean(i) /\ \A j \in Live \ {i} : thread[j].job = "safe"

\* The inductive invariant.
DInv == TypeOK /\ LockOK /\ Accounted /\ Believed

-----------------------------------------------------------------------------
(* Programs and calls *)

\* Every program has a query at most once, and that of safe_state() none.
LEMMA Programs ==
  ASSUME NEW job \in AllJobs
  PROVE  /\ Len(Program[job]) \in {1, 2, 3}
         /\ \A k \in 1 .. Len(Program[job]) : Program[job][k] \in {"ask", "tell"}
         /\ \A j, k \in 1 .. Len(Program[job]) :
               Program[job][j] = "ask" /\ Program[job][k] = "ask" => j = k
         /\ job = "safe" => \A k \in 1 .. Len(Program[job]) : Program[job][k] = "tell"
  <1>1. CASE job \in {"read", "watch", "ping", "connect", "info"}
    <2>1. Program[job] = <<"ask">>
      BY <1>1 DEF Program
    <2>. QED
      BY <1>1, <2>1
  <1>2. CASE job \in {"write", "safe"}
    <2>1. Program[job] = <<"tell">>
      BY <1>2 DEF Program
    <2>. QED
      BY <1>2, <2>1
  <1>3. CASE job = "configure"
    <2>1. Program[job] = <<"tell", "tell">>
      BY <1>3 DEF Program
    <2>. QED
      BY <1>3, <2>1
  <1>4. CASE job = "init"
    <2>1. Program[job] = <<"tell", "ask", "tell">>
      BY <1>4 DEF Program
    <2>. QED
      BY <1>4, <2>1
  <1>. QED
    BY <1>1, <1>2, <1>3, <1>4 DEF AllJobs

\* The jobs are those that have a program.
LEMMA JobsHavePrograms == DOMAIN Program = AllJobs
  BY DEF Program, AllJobs

\* Every program has a first step.
LEMMA FirstStep ==
  ASSUME NEW job \in AllJobs
  PROVE  1 \in 1 .. Len(Program[job])
  <1>1. PICK n \in {1, 2, 3} : n = Len(Program[job])
    BY Programs
  <1>2. 1 \in 1 .. n
    OBVIOUS
  <1>. QED
    BY ONLY <1>1, <1>2

\* A new call.
LEMMA NewCall ==
  ASSUME NEW job \in AllJobs, NEW phase \in {"queued", "look"}
  PROVE  /\ New(job, phase) \in ThreadType
         /\ New(job, phase).job = job /\ New(job, phase).phase = phase
         /\ New(job, phase).step = 1 /\ New(job, phase).got = 0
  <1>1. 1 \in 1 .. Len(Program[job]) /\ 0 \in 0 .. MaxGens /\ 0 \in 0 .. MaxCalls
    BY FirstStep, MaxAssumption
  <1>. QED
    BY <1>1 DEF New, ThreadType, ThreadOK, Phase, Asking

\* A call that ends keeps its answer.
LEMMA EndedCall ==
  ASSUME NEW t \in ThreadType, NEW phase \in Ended
  PROVE  /\ End(t, phase) \in ThreadType
         /\ End(t, phase).job = t.job /\ End(t, phase).phase = phase
         /\ End(t, phase).got = t.got
  <1>1. /\ t.job \in AllJobs /\ t.got \in 0 .. MaxCalls
        /\ 1 \in 1 .. Len(Program[t.job]) /\ 0 \in 0 .. MaxGens
    BY FirstStep, MaxAssumption DEF ThreadType
  <1>2. End(t, phase) = [job |-> t.job, step |-> 1, phase |-> phase, on |-> 0, got |-> t.got]
    BY DEF End, New
  <1>. QED
    BY <1>1, <1>2 DEF Ended, ThreadType, ThreadOK, Phase, Asking

\* A call that goes on looks its transport up again.
LEMMA AdvancedCall ==
  ASSUME NEW t \in ThreadType
  PROVE  /\ Advance(t) \in ThreadType
         /\ Advance(t).job = t.job /\ Advance(t).got = t.got
         /\ Advance(t).phase \in {"look", "done"}
         /\ Advance(t).phase = "look" =>
               Advance(t).step = t.step + 1
  <1>1. /\ t.job \in AllJobs /\ t.step \in 1 .. Len(Program[t.job])
        /\ Len(Program[t.job]) \in Nat
    BY Programs DEF ThreadType, ThreadOK
  <1>2. CASE t.step < Len(Program[t.job])
    <2>1. Advance(t) = [t EXCEPT !.step = t.step + 1, !.phase = "look", !.on = 0]
      BY <1>2 DEF Advance
    <2>2. t.step + 1 \in 1 .. Len(Program[t.job])
      BY <1>1, <1>2
    <2>3. t \in [job : AllJobs, step : Nat, phase : Phase, on : 0 .. MaxGens, got : 0 .. MaxCalls]
      BY DEF ThreadType
    <2>4. t.step + 1 \in Nat /\ 0 \in 0 .. MaxGens
      BY <2>2, MaxAssumption
    <2>5. Advance(t) \in [job : AllJobs, step : Nat, phase : Phase, on : 0 .. MaxGens,
                          got : 0 .. MaxCalls]
      BY <2>1, <2>3, <2>4 DEF Phase
    <2>6. /\ Advance(t).job = t.job /\ Advance(t).got = t.got
          /\ Advance(t).phase = "look" /\ Advance(t).step = t.step + 1
      BY <2>1, <2>3
    <2>. QED
      BY <2>2, <2>5, <2>6 DEF ThreadType, ThreadOK, Asking
  <1>3. CASE ~(t.step < Len(Program[t.job]))
    <2>1. Advance(t) = End(t, "done")
      BY <1>3 DEF Advance
    <2>. QED
      BY <2>1, EndedCall DEF Ended
  <1>. QED
    BY <1>2, <1>3

\* A sequence over a set is one over a larger set.
LEMMA WiderSeq ==
  ASSUME NEW S, NEW T, S \subseteq T, NEW q \in Seq(S)
  PROVE  q \in Seq(T)
  OBVIOUS

\* The calls there are.
LEMMA CallsThere ==
  ASSUME TypeOK
  PROVE  /\ DOMAIN thread = 1 .. Len(thread) /\ Len(thread) \in Nat /\ Len(thread) <= MaxCalls
         /\ \A i \in DOMAIN thread : thread[i] \in ThreadType /\ i \in Calls
         /\ \A i \in Live : i \in DOMAIN thread /\ thread[i].phase \notin Ended \cup {"queued"}
  BY LenProperties, MaxAssumption DEF TypeOK, Live, Calls

-----------------------------------------------------------------------------
(* The steps of threads *)

\* A running call that asks is not safe_state(), so nobody else who is believed
\* is on the line.
LEMMA AskersAlone ==
  ASSUME DInv, NEW i \in Live, Step(i) = "ask", NEW j \in (trusted \ orphans) \cap Live
  PROVE  j = i
  <1>1. i \in DOMAIN thread /\ thread[i] \in ThreadType
    BY CallsThere DEF DInv
  <1>2. /\ thread[i].job \in AllJobs /\ thread[i].step \in 1 .. Len(Program[thread[i].job])
    BY <1>1 DEF ThreadType, ThreadOK
  <1>3. thread[i].job # "safe"
    BY <1>2, Programs DEF Step
  <1>. QED
    BY <1>3 DEF DInv, Believed

\* Thread i moves to t.
LEMMA ThreadMoves ==
  ASSUME DInv, NEW i \in Live, NEW t \in ThreadType, t.phase # "queued",
         t.job = thread[i].job,
         thread' = [thread EXCEPT ![i] = t],
         UNCHANGED <<link, lockq, loop, opened, current, orphans, trusted>>,
         blocking' \in [Gens -> BOOLEAN],
         wire' \in [Gens -> Seq(Calls)], rx' \in [Gens -> Seq(Calls)],
         UNCHANGED <<wire, rx>> \/ Step(i) = "ask",
         i \in trusted \ orphans =>
            t.got \in {0, i} /\ (t.phase \notin Ended => Clean(i)')
  PROVE  DInv'
  <1>0. TypeOK /\ LockOK /\ Accounted /\ Believed
    BY DEF DInv
  <1>1. /\ DOMAIN thread = 1 .. Len(thread) /\ Len(thread) \in Nat
        /\ i \in DOMAIN thread /\ thread[i].phase \notin Ended \cup {"queued"}
    BY <1>0, CallsThere
  <1>2. /\ thread' \in Seq(ThreadType) /\ Len(thread') = Len(thread)
        /\ DOMAIN thread' = DOMAIN thread
        /\ thread'[i] = t
        /\ \A j \in DOMAIN thread : j # i => thread'[j] = thread[j]
    BY <1>0, <1>1, ExceptSeq DEF TypeOK
  <1>3. TypeOK'
    BY <1>0, <1>2 DEF TypeOK
  <1>4. Live' \subseteq Live
    BY <1>2 DEF Live
  <1>5. LockOK'
    <2>1. \A k \in 1 .. Len(lockq) : lockq[k] \in DOMAIN thread
      BY <1>0, ElementOfSeq DEF TypeOK
    <2>. QED
      BY <1>0, <1>1, <1>2, <2>1 DEF LockOK
  <1>6. Accounted'
    <2>1. \A j \in Live' \ orphans' : j = loop' \/ (Len(lockq') > 0 /\ lockq'[1] = j)
      BY <1>0, <1>4 DEF Accounted
    <2>2. loop' # 0 => loop' \notin orphans' /\ thread'[loop'].phase # "queued"
      BY <1>0, <1>2 DEF Accounted, TypeOK
    <2>. QED
      BY <2>1, <2>2 DEF Accounted
  <1>7. Believed'
    <2>. SUFFICES ASSUME NEW j \in trusted \ orphans
                  PROVE  /\ thread'[j].phase # "queued"
                         /\ thread'[j].got \in {0, j}
                         /\ j \in Live' => Clean(j)' /\ \A k \in Live' \ {j} : thread'[k].job = "safe"
      BY DEF Believed
    <2>1. j \in DOMAIN thread
      BY <1>0 DEF TypeOK
    <2>2. j \in Live' => \A k \in Live' \ {j} : thread'[k].job = "safe"
      <3>1. j \in Live => \A k \in Live \ {j} : thread[k].job = "safe"
        BY <1>0 DEF Believed
      <3>. QED
        BY <1>2, <1>4, <3>1, CallsThere, <1>0
    <2>3. CASE j = i
      <3>1. i \in Live' => t.phase \notin Ended
        BY <1>2 DEF Live
      <3>. QED
        BY <1>2, <2>2, <2>3, <3>1
    <2>4. CASE j # i
      <3>1. thread'[j] = thread[j] /\ thread[j].phase # "queued" /\ thread[j].got \in {0, j}
        BY <1>0, <1>2, <2>1, <2>4 DEF Believed
      <3>2. ASSUME j \in Live' PROVE Clean(j)'
        <4>1. j \in Live /\ Clean(j)
          BY <1>0, <1>4, <3>2 DEF Believed
        <4>2. UNCHANGED <<wire, rx>>
          BY <2>4, <4>1, AskersAlone
        <4>. QED
          BY <3>1, <4>1, <4>2, ZenonT(30) DEF Clean, Unasked, Line
      <3>. QED
        BY <2>2, <3>1, <3>2
    <2>. QED
      BY <2>3, <2>4
  <1>. QED
    BY <1>3, <1>5, <1>6, <1>7 DEF DInv

\* A call that is doing something is live; in a query, it asks.
LEMMA DoingIsLive ==
  ASSUME DInv, NEW i, NEW phase \in {"look", "flush", "send", "read"}, Doing(i, phase)
  PROVE  /\ i \in Live /\ i \in DOMAIN thread /\ thread[i] \in ThreadType
         /\ thread[i].phase = phase
         /\ phase # "look" => Step(i) = "ask" /\ thread[i].on \in Gens
         /\ i \in trusted \ orphans => thread[i].got \in {0, i} /\ Clean(i)
  <1>1. i \in DOMAIN thread /\ thread[i] \in ThreadType /\ thread[i].phase = phase
    BY CallsThere DEF Doing, DInv
  <1>2. i \in Live
    BY <1>1 DEF Live, Ended
  <1>3. phase # "look" => Step(i) = "ask" /\ thread[i].on \in Gens
    BY <1>1, MaxAssumption DEF ThreadType, ThreadOK, Asking, Step, Gens
  <1>. QED
    BY <1>1, <1>2, <1>3 DEF DInv, Believed

\* A thread ends, with a result or an exception.
LEMMA ThreadEnds ==
  ASSUME DInv, NEW i \in Live, NEW phase \in Ended, Ends(i, phase),
         UNCHANGED <<link, lockq, loop, opened, current, blocking, wire, orphans, trusted>>,
         rx' \in [Gens -> Seq(Calls)], rx' = rx \/ Step(i) = "ask"
  PROVE  DInv'
  <1>. DEFINE t == End(thread[i], phase)
  <1>1. thread[i] \in ThreadType /\ i \in DOMAIN thread
    BY CallsThere DEF DInv
  <1>2. /\ t \in ThreadType /\ t.job = thread[i].job /\ t.phase = phase
        /\ t.got = thread[i].got
    BY <1>1, EndedCall
  <1>3. thread' = [thread EXCEPT ![i] = t]
    BY <1>1 DEF Ends
  <1>4. i \in trusted \ orphans => t.got \in {0, i}
    BY <1>2 DEF DInv, Believed
  <1>5. blocking' \in [Gens -> BOOLEAN] /\ wire' \in [Gens -> Seq(Calls)]
    BY DEF DInv, TypeOK
  <1>6. t.phase \in Ended /\ t.phase # "queued"
    BY <1>2 DEF Ended
  <1>. HIDE DEF t
  <1>. QED
    BY <1>2, <1>3, <1>4, <1>5, <1>6, ThreadMoves

\* self._transport is None.
LEMMA NotConnectedStep ==
  ASSUME DInv, NEW i, NotConnected(i)
  PROVE  DInv'
  <1>1. i \in Live
    BY DoingIsLive DEF NotConnected
  <1>2. rx' \in [Gens -> Seq(Calls)]
    BY DEF NotConnected, lineVars, DInv, TypeOK
  <1>. QED
    BY <1>1, <1>2, ThreadEnds DEF NotConnected, lineVars, Ended

\* The link breaks under a query: the call ends.
LEMMA SendFailsStep ==
  ASSUME DInv, NEW i, SendFails(i)
  PROVE  DInv'
  <1>1. i \in Live
    BY DoingIsLive DEF SendFails
  <1>2. rx' \in [Gens -> Seq(Calls)]
    BY DEF SendFails, lineVars, DInv, TypeOK
  <1>. QED
    BY <1>1, <1>2, ThreadEnds DEF SendFails, lineVars, Ended

\* A call that goes on has still nothing of another's on its line: before its
\* query as after the last command, and after it nothing matters.
LEMMA ThreadAdvances ==
  ASSUME DInv, NEW i \in Live, NEW t \in ThreadType,
         t.job = thread[i].job, t.phase = Advance(thread[i]).phase,
         t.step = Advance(thread[i]).step,
         i \in trusted \ orphans => t.got \in {0, i},
         thread' = [thread EXCEPT ![i] = t],
         UNCHANGED <<link, lockq, loop, opened, current, blocking, wire, orphans, trusted>>,
         rx' \in [Gens -> Seq(Calls)],
         \/ Step(i) = "ask"
         \/ rx' = rx /\ Step(i) = "tell" /\ thread[i].phase = "look"
  PROVE  DInv'
  <1>1. /\ thread[i] \in ThreadType /\ i \in DOMAIN thread
        /\ DOMAIN thread = 1 .. Len(thread)
    BY CallsThere DEF DInv
  <1>2. /\ thread[i].job \in AllJobs /\ thread[i].step \in 1 .. Len(Program[thread[i].job])
        /\ thread[i].step \in Nat
    BY <1>1 DEF ThreadType, ThreadOK
  <1>3. t.phase \in {"look", "done"} /\ (t.phase = "look" => t.step = thread[i].step + 1)
    BY <1>1, AdvancedCall
  <1>4. thread'[i] = t
    BY <1>1
  <1>5. ASSUME i \in trusted \ orphans, t.phase \notin Ended PROVE Clean(i)'
    <2>1. t.phase = "look" /\ t.step = thread[i].step + 1
      BY <1>3, <1>5 DEF Ended
    <2>2. CASE Step(i) = "ask"
      <3>1. thread[i].step \in 1 .. t.step - 1 /\ Program[t.job][thread[i].step] = "ask"
        BY <1>2, <2>1, <2>2 DEF Step
      <3>2. ~Unasked(t)
        BY <3>1 DEF Unasked
      <3>3. ~Unasked(thread[i])'
        BY <1>4, <3>2 DEF Unasked
      <3>. QED
        BY <1>4, <2>1, <3>3 DEF Clean
    <2>3. CASE rx' = rx /\ Step(i) = "tell" /\ thread[i].phase = "look"
      <3>1. Clean(i)
        BY <1>5 DEF DInv, Believed
      <3>2. Unasked(thread[i])' => Unasked(thread[i])
        BY <1>2, <1>4, <2>1 DEF Unasked
      <3>. QED
        BY <1>4, <2>1, <2>3, <3>1, <3>2 DEF Clean, Line
    <2>. QED
      BY <2>2, <2>3
  <1>6. blocking' \in [Gens -> BOOLEAN] /\ wire' \in [Gens -> Seq(Calls)]
    BY DEF DInv, TypeOK
  <1>7. t.phase # "queued"
    BY <1>3
  <1>. QED
    BY <1>5, <1>6, <1>7, ThreadMoves

\* send() of a command.
LEMMA TellStep ==
  ASSUME DInv, NEW i, Tell(i)
  PROVE  DInv'
  <1>1. /\ i \in Live /\ i \in DOMAIN thread /\ thread[i] \in ThreadType
        /\ thread[i].phase = "look"
        /\ i \in trusted \ orphans => thread[i].got \in {0, i}
    BY DoingIsLive DEF Tell
  <1>2. rx' \in [Gens -> Seq(Calls)]
    BY DEF Tell, lineVars, DInv, TypeOK
  <1>3. CASE Ends(i, "raised")
    BY <1>1, <1>2, <1>3, ThreadEnds DEF Tell, lineVars, Ended
  <1>4. CASE thread' = [thread EXCEPT ![i] = Advance(@)]
    <2>1. /\ Advance(thread[i]) \in ThreadType /\ Advance(thread[i]).job = thread[i].job
          /\ Advance(thread[i]).got = thread[i].got
      BY <1>1, AdvancedCall
    <2>2. thread' = [thread EXCEPT ![i] = Advance(thread[i])]
      BY <1>1, <1>4
    <2>. QED
      BY <1>1, <1>2, <2>1, <2>2, ThreadAdvances DEF Tell, lineVars
  <1>. QED
    BY <1>3, <1>4 DEF Tell

\* Thread i goes to a phase of its query, on transport g.
LEMMA InQuery ==
  ASSUME NEW t \in ThreadType, NEW phase \in Asking, NEW g \in Gens,
         Program[t.job][t.step] = "ask"
  PROVE  [t EXCEPT !.phase = phase, !.on = g] \in ThreadType
  <1>. DEFINE u == [t EXCEPT !.phase = phase, !.on = g]
  <1>1. t \in [job : AllJobs, step : Nat, phase : Phase, on : 0 .. MaxGens, got : 0 .. MaxCalls]
    BY DEF ThreadType
  <1>2. g \in 0 .. MaxGens /\ g # 0 /\ phase \in Phase /\ phase # "queued"
    BY MaxAssumption DEF Gens, Asking, Phase
  <1>3. /\ u \in [job : AllJobs, step : Nat, phase : Phase, on : 0 .. MaxGens, got : 0 .. MaxCalls]
        /\ u.job = t.job /\ u.step = t.step /\ u.phase = phase /\ u.on = g
    BY <1>1, <1>2
  <1>. QED
    BY <1>2, <1>3 DEF ThreadType, ThreadOK

\* The lines are transports' numbers.
LEMMA LinesAreGens ==
  ASSUME NEW g \in Gens
  PROVE  Line(g) \in Gens /\ Line(g)' \in Gens
  BY MaxAssumption DEF Line, Gens

\* query() takes the transport of now; nothing of another's is on its line, or a
\* socket will drop it.
LEMMA QueryStep ==
  ASSUME DInv, NEW i, Query(i)
  PROVE  DInv'
  <1>. DEFINE phase == IF link = "socket" THEN "flush" ELSE "send"
              t == [thread[i] EXCEPT !.phase = phase, !.on = current]
  <1>0. /\ i \in Live /\ i \in DOMAIN thread /\ thread[i] \in ThreadType
        /\ thread[i].phase = "look" /\ Step(i) = "ask"
        /\ i \in trusted \ orphans => thread[i].got \in {0, i} /\ Clean(i)
    BY DoingIsLive DEF Query
  <1>1. /\ current \in Gens /\ link \in {"socket", "serial"}
        /\ wire \in [Gens -> Seq(Calls)] /\ rx \in [Gens -> Seq(Calls)]
        /\ blocking \in [Gens -> BOOLEAN]
        /\ UNCHANGED <<link, lockq, loop, opened, current, wire, rx, orphans, trusted>>
    BY DEF DInv, TypeOK, Query
  <1>2. t \in ThreadType
    <2>1. phase \in Asking /\ Program[thread[i].job][thread[i].step] = "ask"
      BY <1>0 DEF Asking, Step
    <2>. QED
      BY <1>0, <1>1, <2>1, InQuery, Zenon
  <1>3. thread' = [thread EXCEPT ![i] = t]
    BY <1>0 DEF Query
  <1>4. t.phase = phase /\ t.on = current /\ t.job = thread[i].job /\ t.got = thread[i].got
        /\ phase \in {"flush", "send"}
    BY <1>0 DEF ThreadType
  <1>5. blocking' \in [Gens -> BOOLEAN]
    BY <1>1 DEF Query
  <1>6. thread'[i] = t
    BY <1>0, <1>3
  <1>. HIDE DEF t
  <1>7. ASSUME i \in trusted \ orphans PROVE Clean(i)'
    <2>1. Unasked(thread[i])
      <3>1. /\ thread[i].job \in AllJobs /\ thread[i].step \in 1 .. Len(Program[thread[i].job])
            /\ Len(Program[thread[i].job]) \in Nat
        BY <1>0, Programs DEF ThreadType, ThreadOK
      <3>2. \A k \in 1 .. thread[i].step - 1 :
               k \in 1 .. Len(Program[thread[i].job]) /\ k # thread[i].step
        BY <3>1
      <3>. QED
        BY <1>0, <3>1, <3>2, Programs DEF Unasked, Step
    <2>2. wire[Line(current)] = <<>> /\ (link = "serial" => rx[Line(current)] = <<>>)
      BY <1>0, <1>7, <2>1 DEF Clean, Query
    <2>. QED
      BY <1>1, <1>4, <1>6, <2>2 DEF Clean, Line
  <1>8. t.phase # "queued"
    BY <1>4
  <1>. QED
    BY <1>0, <1>1, <1>2, <1>3, <1>4, <1>5, <1>7, <1>8, ThreadMoves

\* What lies in a socket is dropped before the query goes out.
LEMMA FlushStep ==
  ASSUME DInv, NEW i, Flush(i)
  PROVE  DInv'
  <1>. DEFINE g == thread[i].on
  <1>0. /\ i \in Live /\ i \in DOMAIN thread /\ thread[i] \in ThreadType
        /\ thread[i].phase = "flush" /\ Step(i) = "ask" /\ g \in Gens
        /\ i \in trusted \ orphans => thread[i].got \in {0, i} /\ Clean(i)
    BY DoingIsLive DEF Flush
  <1>1. /\ wire \in [Gens -> Seq(Calls)] /\ rx \in [Gens -> Seq(Calls)]
        /\ blocking \in [Gens -> BOOLEAN]
        /\ UNCHANGED <<link, lockq, loop, opened, current, orphans, trusted>>
    BY DEF DInv, TypeOK, Flush
  <1>2. CASE Closed(g) /\ Ends(i, "raised") /\ UNCHANGED lineVars
    BY <1>0, <1>1, <1>2, ThreadEnds DEF lineVars, Ended
  <1>3. CASE /\ rx' = [rx EXCEPT ![g] = <<>>]
             /\ UNCHANGED <<thread, blocking, wire>>
    <2>1. thread' = [thread EXCEPT ![i] = thread[i]]
      BY <1>0, <1>3, <1>1 DEF DInv, TypeOK
    <2>2. rx' \in [Gens -> Seq(Calls)]
      BY <1>0, <1>1, <1>3, EmptySeq
    <2>3. i \in trusted \ orphans => Clean(i)'
      BY <1>0, <1>1, <1>3 DEF Clean, Line
    <2>. QED
      BY <1>0, <1>1, <1>3, <2>1, <2>2, <2>3, ThreadMoves
  <1>4. CASE /\ rx[g] = <<>>
             /\ blocking' = [blocking EXCEPT ![g] = TRUE]
             /\ At(i, "send")
             /\ UNCHANGED <<wire, rx>>
    <2>. DEFINE t == [thread[i] EXCEPT !.phase = "send", !.on = g]
    <2>1. t \in ThreadType
      <3>1. "send" \in Asking /\ Program[thread[i].job][thread[i].step] = "ask"
        BY <1>0 DEF Asking, Step
      <3>. QED
        BY <1>0, <3>1, InQuery, Zenon
    <2>2. /\ t = [thread[i] EXCEPT !.phase = "send"]
          /\ t.phase = "send" /\ t.on = g /\ t.job = thread[i].job /\ t.got = thread[i].got
      BY <1>0 DEF ThreadType
    <2>3. thread' = [thread EXCEPT ![i] = t] /\ thread'[i] = t
      BY <1>0, <1>4, <2>2 DEF At
    <2>. HIDE DEF t
    <2>4. i \in trusted \ orphans => Clean(i)'
      <3>1. i \in trusted \ orphans => wire[g] = <<>> /\ link = "socket"
        BY <1>0 DEF Clean, Line
      <3>. QED
        BY <1>1, <1>4, <2>2, <2>3, <3>1 DEF Clean, Line
    <2>5. blocking' \in [Gens -> BOOLEAN]
      BY <1>1, <1>4
    <2>6. t.phase # "queued"
      BY <2>2
    <2>. QED
      BY <1>0, <1>1, <1>4, <2>1, <2>2, <2>3, <2>4, <2>5, <2>6, ThreadMoves
  <1>. QED
    BY <1>2, <1>3, <1>4 DEF Flush

\* The query goes out on a line with nothing on it.
LEMMA SendStep ==
  ASSUME DInv, NEW i, Send(i)
  PROVE  DInv'
  <1>. DEFINE g == thread[i].on
              t == [thread[i] EXCEPT !.phase = "read", !.on = g]
  <1>0. /\ i \in Live /\ i \in DOMAIN thread /\ thread[i] \in ThreadType
        /\ thread[i].phase = "send" /\ Step(i) = "ask" /\ g \in Gens
        /\ i \in trusted \ orphans => thread[i].got \in {0, i} /\ Clean(i)
    BY DoingIsLive DEF Send
  <1>1. /\ wire \in [Gens -> Seq(Calls)] /\ rx \in [Gens -> Seq(Calls)]
        /\ blocking \in [Gens -> BOOLEAN] /\ Line(g) \in Gens /\ i \in Calls
        /\ wire' = [wire EXCEPT ![Line(g)] = Append(wire[Line(g)], i)]
        /\ UNCHANGED <<link, lockq, loop, opened, current, blocking, rx, orphans, trusted>>
    BY <1>0, LinesAreGens, CallsThere DEF DInv, TypeOK, Send
  <1>2. t \in ThreadType
    <2>1. "read" \in Asking /\ Program[thread[i].job][thread[i].step] = "ask"
      BY <1>0 DEF Asking, Step
    <2>. QED
      BY <1>0, <2>1, InQuery, Zenon
  <1>3. /\ t = [thread[i] EXCEPT !.phase = "read"]
        /\ t.phase = "read" /\ t.on = g /\ t.job = thread[i].job /\ t.got = thread[i].got
    BY <1>0 DEF ThreadType
  <1>4. thread' = [thread EXCEPT ![i] = t] /\ thread'[i] = t
    BY <1>0, <1>3 DEF Send, At
  <1>. HIDE DEF t
  <1>5. wire' \in [Gens -> Seq(Calls)]
    <2>1. Append(wire[Line(g)], i) \in Seq(Calls)
      BY <1>1, AppendProperties
    <2>. QED
      BY <1>1, <2>1
  <1>6. ASSUME i \in trusted \ orphans PROVE Clean(i)'
    <2>1. wire[Line(g)] = <<>> /\ rx[Line(g)] = <<>>
      BY <1>0, <1>6 DEF Clean
    <2>2. wire'[Line(g)] = <<i>>
      BY <1>1, <2>1
    <2>3. /\ \A k \in 1 .. Len(<<i>>) : <<i>>[k] = i
          /\ \A k \in 1 .. Len(<<>>) : <<>>[k] = i
      OBVIOUS
    <2>4. Line(thread[i].on)' = Line(g)
      BY <1>1, <1>3, <1>4 DEF Line
    <2>5. /\ \A k \in 1 .. Len(wire'[Line(g)]) : wire'[Line(g)][k] = i
          /\ \A k \in 1 .. Len(rx'[Line(g)]) : rx'[Line(g)][k] = i
      BY <1>1, <2>1, <2>2, <2>3
    <2>. QED
      BY <1>3, <1>4, <2>4, <2>5 DEF Clean
  <1>7. t.phase # "queued"
    BY <1>3
  <1>. QED
    BY <1>0, <1>1, <1>2, <1>3, <1>4, <1>5, <1>6, <1>7, ThreadMoves

\* The line that is read is the call's own.
LEMMA ReadLineStep ==
  ASSUME DInv, NEW i, ReadLine(i)
  PROVE  DInv'
  <1>. DEFINE l == Line(thread[i].on)
  <1>0. /\ i \in Live /\ i \in DOMAIN thread /\ thread[i] \in ThreadType
        /\ thread[i].phase = "read" /\ Step(i) = "ask" /\ thread[i].on \in Gens
        /\ i \in trusted \ orphans => thread[i].got \in {0, i} /\ Clean(i)
    BY DoingIsLive DEF ReadLine
  <1>1. /\ rx \in [Gens -> Seq(Calls)] /\ l \in Gens /\ rx[l] # <<>>
        /\ rx' = [rx EXCEPT ![l] = IF link = "socket" THEN <<>> ELSE Tail(rx[l])]
        /\ UNCHANGED <<link, lockq, loop, opened, current, blocking, wire, orphans, trusted>>
    BY <1>0, LinesAreGens DEF DInv, TypeOK, ReadLine
  <1>2. /\ rx[l] \in Seq(Calls) /\ Tail(rx[l]) \in Seq(Calls) /\ <<>> \in Seq(Calls)
        /\ Head(rx[l]) \in Calls /\ Head(rx[l]) = rx[l][1] /\ 1 \in 1 .. Len(rx[l])
    BY <1>1, HeadTailProperties, EmptySeq, LenProperties
  <1>3. rx' \in [Gens -> Seq(Calls)]
    BY <1>1, <1>2
  <1>4. CASE Ends(i, "error")
    BY <1>0, <1>1, <1>3, <1>4, ThreadEnds DEF Ended
  <1>5. CASE thread' = [thread EXCEPT ![i] = [Advance(@) EXCEPT !.got = Head(rx[l])]]
    <2>. DEFINE a == Advance(thread[i])
                t == [a EXCEPT !.got = Head(rx[l])]
    <2>1. a \in ThreadType /\ a.job = thread[i].job /\ a.phase \in {"look", "done"}
      BY <1>0, AdvancedCall
    <2>. HIDE DEF a
    <2>2. Head(rx[l]) \in 0 .. MaxCalls
      BY <1>2, MaxAssumption DEF Calls
    <2>3. /\ t \in [job : AllJobs, step : Nat, phase : Phase, on : 0 .. MaxGens, got : 0 .. MaxCalls]
          /\ t.job = a.job /\ t.phase = a.phase /\ t.step = a.step /\ t.on = a.on
          /\ t.got = Head(rx[l])
      BY <2>1, <2>2 DEF ThreadType
    <2>4. t \in ThreadType
      BY <2>1, <2>3 DEF ThreadType, ThreadOK
    <2>5. thread' = [thread EXCEPT ![i] = t]
      BY <1>0, <1>5 DEF a
    <2>. HIDE DEF t
    <2>6. i \in trusted \ orphans => t.got \in {0, i}
      BY <1>0, <1>2, <2>3 DEF Clean
    <2>. QED
      BY <1>0, <1>1, <1>3, <2>1, <2>3, <2>4, <2>5, <2>6, ThreadAdvances DEF a
  <1>. QED
    BY <1>4, <1>5 DEF ReadLine

\* No line comes.
LEMMA ReadNothingStep ==
  ASSUME DInv, NEW i, ReadNothing(i)
  PROVE  DInv'
  <1>0. /\ i \in Live /\ i \in DOMAIN thread /\ thread[i] \in ThreadType
        /\ thread[i].phase = "read" /\ Step(i) = "ask"
        /\ i \in trusted \ orphans => thread[i].got \in {0, i}
    BY DoingIsLive DEF ReadNothing
  <1>1. /\ rx' = rx /\ rx' \in [Gens -> Seq(Calls)]
        /\ UNCHANGED <<link, lockq, loop, opened, current, blocking, wire, orphans, trusted>>
    BY DEF DInv, TypeOK, ReadNothing, lineVars
  <1>2. CASE Ends(i, "raised")
    BY <1>0, <1>1, <1>2, ThreadEnds DEF Ended
  <1>3. CASE thread' = [thread EXCEPT ![i] = Advance(@)]
    <2>1. /\ Advance(thread[i]) \in ThreadType /\ Advance(thread[i]).job = thread[i].job
          /\ Advance(thread[i]).got = thread[i].got
      BY <1>0, AdvancedCall
    <2>2. thread' = [thread EXCEPT ![i] = Advance(thread[i])]
      BY <1>0, <1>3
    <2>. QED
      BY <1>0, <1>1, <2>1, <2>2, ThreadAdvances
  <1>. QED
    BY <1>2, <1>3 DEF ReadNothing

-----------------------------------------------------------------------------
(* The instrument *)

\* What the instrument takes from the wire or answers stays whose it was.
LEMMA AnswerStep ==
  ASSUME DInv, NEW l \in Gens, Answer(l)
  PROVE  DInv'
  <1>0. /\ TypeOK /\ LockOK /\ Accounted /\ Believed
        /\ wire[l] # <<>> /\ wire' = [wire EXCEPT ![l] = Tail(wire[l])]
        /\ rx' = rx \/ rx' = [rx EXCEPT ![l] = Append(rx[l], Head(wire[l]))]
        /\ UNCHANGED <<link, state, lockq, thread, loop, opened, current, blocking,
                       orphans, trusted>>
    BY DEF DInv, Answer
  <1>1. /\ wire \in [Gens -> Seq(Calls)] /\ rx \in [Gens -> Seq(Calls)]
        /\ wire[l] \in Seq(Calls) /\ rx[l] \in Seq(Calls)
    BY <1>0 DEF TypeOK
  <1>2. /\ Head(wire[l]) = wire[l][1] /\ Head(wire[l]) \in Calls
        /\ Tail(wire[l]) \in Seq(Calls) /\ Len(wire[l]) \in Nat /\ 1 \in 1 .. Len(wire[l])
        /\ Len(Tail(wire[l])) = Len(wire[l]) - 1
        /\ \A k \in 1 .. Len(wire[l]) - 1 : Tail(wire[l])[k] = wire[l][k + 1]
    BY <1>0, <1>1, HeadTailProperties, LenProperties, EmptySeq
  <1>3. /\ Append(rx[l], Head(wire[l])) \in Seq(Calls) /\ Len(rx[l]) \in Nat
        /\ Len(Append(rx[l], Head(wire[l]))) = Len(rx[l]) + 1
        /\ \A k \in 1 .. Len(rx[l]) : Append(rx[l], Head(wire[l]))[k] = rx[l][k]
        /\ Append(rx[l], Head(wire[l]))[Len(rx[l]) + 1] = Head(wire[l])
    BY <1>1, <1>2, AppendProperties, LenProperties
  <1>4. wire' \in [Gens -> Seq(Calls)] /\ rx' \in [Gens -> Seq(Calls)]
    BY <1>0, <1>1, <1>2, <1>3
  <1>5. TypeOK'
    BY <1>0, <1>4 DEF TypeOK
  <1>6. LockOK' /\ Accounted' /\ Live' = Live
    BY <1>0 DEF LockOK, Accounted, Live
  <1>7. ASSUME NEW m \in Gens, wire[m] = <<>> PROVE wire'[m] = <<>> /\ rx'[m] = rx[m]
    BY <1>0, <1>1, <1>7
  <1>8. ASSUME NEW m \in Gens, NEW i,
               \A k \in 1 .. Len(wire[m]) : wire[m][k] = i,
               \A k \in 1 .. Len(rx[m]) : rx[m][k] = i
        PROVE  /\ \A k \in 1 .. Len(wire'[m]) : wire'[m][k] = i
               /\ \A k \in 1 .. Len(rx'[m]) : rx'[m][k] = i
    <2>1. CASE m # l
      BY <1>0, <1>1, <1>8, <2>1
    <2>2. CASE m = l
      <3>1. wire'[m] = Tail(wire[l])
        BY <1>0, <1>1, <2>2
      <3>2. \A k \in 1 .. Len(wire'[m]) : wire'[m][k] = i
        BY <1>2, <1>8, <2>2, <3>1
      <3>3. CASE rx' = rx
        BY <1>8, <3>2, <3>3
      <3>4. CASE rx' = [rx EXCEPT ![l] = Append(rx[l], Head(wire[l]))]
        <4>1. rx'[m] = Append(rx[l], Head(wire[l]))
          BY <1>1, <2>2, <3>4
        <4>2. Head(wire[l]) = i
          BY <1>2, <1>8, <2>2
        <4>3. \A k \in 1 .. Len(rx'[m]) : rx'[m][k] = i
          BY <1>3, <1>8, <2>2, <4>1, <4>2
        <4>. QED
          BY <3>2, <4>3
      <3>. QED
        BY <1>0, <3>3, <3>4
    <2>. QED
      BY <2>1, <2>2
  <1>9. ASSUME NEW i \in (trusted \ orphans) \cap Live PROVE Clean(i)'
    <2>1. Clean(i) /\ i \in DOMAIN thread /\ thread[i] \in ThreadType
      BY <1>0, CallsThere DEF Believed
    <2>2. current # 0 => Line(current) \in Gens
      BY <1>0, LinesAreGens DEF TypeOK
    <2>3. thread[i].phase \in Asking => Line(thread[i].on) \in Gens
      <3>1. thread[i].phase \in Asking => thread[i].on \in Gens
        BY <2>1, MaxAssumption DEF ThreadType, ThreadOK, Gens
      <3>. QED
        BY <3>1, LinesAreGens
    <2>4. /\ Line(current)' = Line(current) /\ Line(thread[i].on)' = Line(thread[i].on)
          /\ Unasked(thread[i])' <=> Unasked(thread[i])
      BY <1>0 DEF Line, Unasked
    <2>5. thread[i].phase = "look" /\ Unasked(thread[i]) /\ current # 0 =>
             /\ wire'[Line(current)] = <<>>
             /\ link = "serial" => rx'[Line(current)] = <<>>
      BY <1>7, <2>1, <2>2 DEF Clean
    <2>6. thread[i].phase = "flush" => link = "socket" /\ wire'[Line(thread[i].on)] = <<>>
      BY <1>7, <2>1, <2>3 DEF Clean, Asking
    <2>7. thread[i].phase = "send" =>
             wire'[Line(thread[i].on)] = <<>> /\ rx'[Line(thread[i].on)] = <<>>
      BY <1>7, <2>1, <2>3 DEF Clean, Asking
    <2>8. thread[i].phase = "read" =>
             /\ \A k \in 1 .. Len(wire'[Line(thread[i].on)]) : wire'[Line(thread[i].on)][k] = i
             /\ \A k \in 1 .. Len(rx'[Line(thread[i].on)]) : rx'[Line(thread[i].on)][k] = i
      BY <1>8, <2>1, <2>3 DEF Clean, Asking
    <2>. QED
      BY <1>0, <2>4, <2>5, <2>6, <2>7, <2>8 DEF Clean
  <1>10. Believed'
    BY <1>0, <1>6, <1>9 DEF Believed
  <1>. QED
    BY <1>5, <1>6, <1>10 DEF DInv

-----------------------------------------------------------------------------
(* The event loop *)

\* A call is added to those there are.
LEMMA Grown ==
  ASSUME TypeOK, NEW job \in AllJobs, NEW phase \in {"queued", "look"}, NextCall \in Calls,
         thread' = Append(thread, New(job, phase))
  PROVE  /\ thread' \in Seq(ThreadType) /\ Len(thread') <= MaxCalls
         /\ DOMAIN thread' = DOMAIN thread \cup {NextCall}
         /\ NextCall \notin DOMAIN thread /\ NextCall # 0
         /\ \A i \in DOMAIN thread : thread'[i] = thread[i]
         /\ thread'[NextCall] = New(job, phase)
         /\ Live' = IF phase = "look" THEN Live \cup {NextCall} ELSE Live
  <1>1. /\ New(job, phase) \in ThreadType /\ New(job, phase).phase = phase
    BY NewCall
  <1>2. /\ Len(thread) \in Nat /\ DOMAIN thread = 1 .. Len(thread)
        /\ thread \in Seq(ThreadType)
    BY CallsThere DEF TypeOK
  <1>3. /\ thread' \in Seq(ThreadType) /\ Len(thread') = Len(thread) + 1
        /\ \A i \in 1 .. Len(thread) : thread'[i] = thread[i]
        /\ thread'[Len(thread) + 1] = New(job, phase)
        /\ DOMAIN thread' = 1 .. Len(thread) + 1
    BY <1>1, <1>2, AppendProperties, LenProperties
  <1>4. DOMAIN thread' = DOMAIN thread \cup {NextCall}
    BY <1>2, <1>3 DEF NextCall
  <1>5. NextCall \notin DOMAIN thread /\ NextCall # 0 /\ Len(thread') <= MaxCalls
    BY <1>2, <1>3, MaxAssumption DEF NextCall, Calls
  <1>6. /\ \A i \in DOMAIN thread : thread'[i] = thread[i]
        /\ thread'[NextCall] = New(job, phase)
    BY <1>2, <1>3 DEF NextCall
  <1>7. Live' = {i \in DOMAIN thread' : thread'[i].phase \notin Ended \cup {"queued"}}
    BY DEF Live
  <1>8. Live' = IF phase = "look" THEN Live \cup {NextCall} ELSE Live
    BY <1>1, <1>4, <1>5, <1>6, <1>7 DEF Live, Ended
  <1>. QED
    BY <1>3, <1>4, <1>5, <1>6, <1>8

\* Who is believed stays so when nothing but safe_state() comes, the transport is
\* not opened anew and the lines are left alone.
LEMMA KeepsBelieved ==
  ASSUME TypeOK, Believed,
         DOMAIN thread \subseteq DOMAIN thread',
         \A i \in DOMAIN thread : thread'[i] = thread[i],
         \A i \in Live' : i \in Live \/ thread'[i].job = "safe",
         trusted' = trusted, orphans \subseteq orphans',
         UNCHANGED <<link, wire, rx>>, current' \in {current, 0}
  PROVE  Believed'
  <1>. SUFFICES ASSUME NEW i \in trusted' \ orphans'
                PROVE  /\ thread'[i].phase # "queued"
                       /\ thread'[i].got \in {0, i}
                       /\ i \in Live' => Clean(i)' /\ \A j \in Live' \ {i} : thread'[j].job = "safe"
    BY DEF Believed
  <1>1. i \in trusted \ orphans /\ i \in DOMAIN thread /\ thread'[i] = thread[i]
    BY DEF TypeOK
  <1>2. ASSUME i \in Live' PROVE Clean(i)' /\ \A j \in Live' \ {i} : thread'[j].job = "safe"
    <2>1. i \in Live
      BY <1>1, <1>2 DEF Live
    <2>2. Clean(i) /\ \A j \in Live \ {i} : thread[j].job = "safe"
      BY <1>1, <2>1 DEF Believed
    <2>3. \A j \in Live' \ {i} : thread'[j].job = "safe"
      BY <2>2 DEF Live
    <2>. QED
      BY <1>1, <2>2, <2>3 DEF Clean, Unasked, Line
  <1>. QED
    BY <1>1, <1>2 DEF Believed

\* _call_driver: a caller joins the queue.
LEMMA CallStep ==
  ASSUME DInv, NEW job \in Jobs, Call(job)
  PROVE  DInv'
  <1>0. /\ TypeOK /\ LockOK /\ Accounted /\ Believed /\ job \in AllJobs
        /\ NextCall \in Calls
        /\ thread' = Append(thread, New(job, "queued"))
        /\ lockq' = Append(lockq, NextCall)
        /\ UNCHANGED <<link, loop, opened, current, blocking, wire, rx, orphans, trusted>>
    BY JobsAssumption, JobsHavePrograms DEF DInv, Call, Admits, lineVars
  <1>1. /\ thread' \in Seq(ThreadType) /\ Len(thread') <= MaxCalls
        /\ DOMAIN thread' = DOMAIN thread \cup {NextCall}
        /\ NextCall \notin DOMAIN thread /\ NextCall # 0
        /\ \A i \in DOMAIN thread : thread'[i] = thread[i]
        /\ thread'[NextCall] = New(job, "queued")
        /\ Live' = Live
    BY <1>0, Grown
  <1>2. /\ Len(lockq) \in Nat /\ \A k \in 1 .. Len(lockq) : lockq[k] \in DOMAIN thread
        /\ lockq \in Seq(DOMAIN thread')
    <2>1. lockq \in Seq(DOMAIN thread)
      BY <1>0 DEF TypeOK
    <2>2. Len(lockq) \in Nat /\ \A k \in 1 .. Len(lockq) : lockq[k] \in DOMAIN thread
      BY <2>1, LenProperties, ElementOfSeq
    <2>. QED
      BY <1>1, <2>1, <2>2, WiderSeq
  <1>3. /\ lockq' \in Seq(DOMAIN thread') /\ Len(lockq') = Len(lockq) + 1
        /\ \A k \in 1 .. Len(lockq) : lockq'[k] = lockq[k]
        /\ lockq'[Len(lockq) + 1] = NextCall
    BY <1>0, <1>1, <1>2, AppendProperties
  <1>4. TypeOK'
    BY <1>0, <1>1, <1>3 DEF TypeOK
  <1>5. LockOK'
    <2>1. thread'[NextCall].phase = "queued"
      BY <1>0, <1>1, NewCall
    <2>2. NextCall \notin orphans /\ NextCall # loop
      BY <1>0, <1>1 DEF TypeOK
    <2>3. ASSUME NEW k \in 1 .. Len(lockq')
          PROVE  /\ k > 1 => thread'[lockq'[k]].phase = "queued"
                 /\ lockq'[k] \notin orphans' /\ lockq'[k] # loop'
      <3>1. CASE k \in 1 .. Len(lockq)
        BY <1>0, <1>1, <1>2, <1>3, <3>1 DEF LockOK
      <3>2. CASE k = Len(lockq) + 1
        BY <1>0, <1>3, <2>1, <2>2, <3>2
      <3>. QED
        BY <1>2, <1>3, <3>1, <3>2
    <2>4. ASSUME NEW j \in 1 .. Len(lockq'), NEW k \in 1 .. Len(lockq'), lockq'[j] = lockq'[k]
          PROVE  j = k
      BY <1>0, <1>1, <1>2, <1>3, <2>4 DEF LockOK
    <2>. QED
      BY <2>3, <2>4 DEF LockOK
  <1>6. Accounted'
    <2>1. Len(lockq) > 0 => Len(lockq') > 0 /\ lockq'[1] = lockq[1]
      BY <1>2, <1>3
    <2>2. loop' # 0 => loop' \in DOMAIN thread
      BY <1>0 DEF TypeOK
    <2>. QED
      BY <1>0, <1>1, <2>1, <2>2 DEF Accounted
  <1>7. Believed'
    BY <1>0, <1>1, KeepsBelieved
  <1>. QED
    BY <1>4, <1>5, <1>6, <1>7 DEF DInv

\* While the event loop is free, who runs is abandoned or holds the lock.
LEMMA HolderAlone ==
  ASSUME DInv, loop = 0, NEW i \in Live \ orphans
  PROVE  lockq # <<>> /\ Head(lockq) = i
  <1>1. i # 0 /\ lockq \in Seq(DOMAIN thread)
    BY CallsThere DEF DInv, TypeOK
  <1>2. Len(lockq) > 0 /\ lockq[1] = i
    BY <1>1 DEF DInv, Accounted
  <1>. QED
    BY <1>1, <1>2, EmptySeq, HeadTailProperties

\* The first caller in the queue gets the lock; nobody else runs but abandoned
\* calls, and there are none of them when it is trusted.
LEMMA StartStep ==
  ASSUME DInv, NEW i, Start(i)
  PROVE  DInv'
  <1>. DEFINE t == [thread[i] EXCEPT !.phase = "look"]
  <1>0. /\ TypeOK /\ LockOK /\ Accounted /\ Believed
        /\ loop = 0 /\ lockq # <<>> /\ Head(lockq) = i
        /\ i \in DOMAIN thread /\ thread[i].phase = "queued" /\ thread[i] \in ThreadType
        /\ thread' = [thread EXCEPT ![i].phase = "look"]
        /\ trusted' = IF Quiet THEN trusted \cup {i} ELSE trusted
        /\ UNCHANGED <<link, lockq, loop, opened, current, blocking, wire, rx, orphans>>
    BY CallsThere DEF DInv, Start, Doing, At, lineVars
  <1>1. /\ t \in ThreadType /\ t.phase = "look" /\ t.job = thread[i].job
        /\ t.step = 1 /\ t.got = 0
    BY <1>0 DEF ThreadType, ThreadOK, Asking, Phase
  <1>2. thread' = [thread EXCEPT ![i] = t]
    BY <1>0
  <1>. HIDE DEF t
  <1>3. /\ thread' \in Seq(ThreadType) /\ Len(thread') = Len(thread)
        /\ DOMAIN thread' = DOMAIN thread /\ thread'[i] = t
        /\ \A j \in DOMAIN thread : j # i => thread'[j] = thread[j]
    <2>1. /\ thread \in Seq(ThreadType) /\ i \in 1 .. Len(thread)
          /\ DOMAIN thread = 1 .. Len(thread) /\ Len(thread) \in Nat
      BY <1>0, CallsThere DEF TypeOK
    <2>2. t \in ThreadType
      BY <1>1
    <2>. QED
      BY ONLY <1>2, <2>1, <2>2, ExceptSeq
  <1>4. Live \subseteq orphans
    <2>1. i \notin Live
      BY <1>0 DEF Live
    <2>. QED
      BY <1>0, <2>1, HolderAlone
  <1>5. Live' = Live \cup {i}
    BY <1>0, <1>1, <1>3 DEF Live, Ended
  <1>6. /\ Len(lockq) > 0 /\ Len(lockq) \in Nat /\ lockq[1] = i
        /\ \A k \in 1 .. Len(lockq) : lockq[k] \in DOMAIN thread
    <2>1. lockq \in Seq(DOMAIN thread)
      BY <1>0 DEF TypeOK
    <2>. QED
      BY <1>0, <2>1, HeadTailProperties, LenProperties, EmptySeq, ElementOfSeq
  <1>7. TypeOK'
    BY <1>0, <1>3 DEF TypeOK
  <1>8. LockOK'
    <2>1. ASSUME NEW k \in 1 .. Len(lockq), k > 1 PROVE thread'[lockq[k]].phase = "queued"
      <3>1. lockq[k] # i
        BY <1>0, <1>6, <2>1 DEF LockOK
      <3>. QED
        BY <1>0, <1>3, <1>6, <2>1, <3>1 DEF LockOK
    <2>. QED
      BY <1>0, <2>1 DEF LockOK
  <1>9. Accounted'
    BY <1>0, <1>4, <1>5, <1>6 DEF Accounted
  <1>10. Believed'
    <2>. SUFFICES ASSUME NEW j \in trusted' \ orphans
                  PROVE  /\ thread'[j].phase # "queued"
                         /\ thread'[j].got \in {0, j}
                         /\ j \in Live' => Clean(j)' /\ \A k \in Live' \ {j} : thread'[k].job = "safe"
      BY <1>0 DEF Believed
    <2>1. CASE j # i
      <3>1. j \in trusted /\ j \in DOMAIN thread /\ thread'[j] = thread[j] /\ j \notin Live'
        BY <1>0, <1>3, <1>4, <1>5, <2>1 DEF TypeOK
      <3>. QED
        BY <1>0, <3>1 DEF Believed
    <2>2. CASE j = i
      <3>1. Quiet
        BY <1>0, <2>2 DEF Believed
      <3>2. Live' = {i}
        BY <1>4, <1>5, <3>1 DEF Quiet
      <3>3. Clean(i)'
        <4>1. current # 0 => /\ wire[Line(current)] = <<>>
                             /\ link = "serial" => rx[Line(current)] = <<>>
          BY <3>1 DEF Quiet
        <4>2. Line(current)' = Line(current)
          BY <1>0 DEF Line
        <4>. QED
          BY <1>0, <1>1, <1>3, <4>1, <4>2 DEF Clean
      <3>. QED
        BY <1>1, <1>3, <2>2, <3>2, <3>3
    <2>. QED
      BY <2>1, <2>2
  <1>. QED
    BY <1>7, <1>8, <1>9, <1>10 DEF DInv

\* The call at the head of the queue gives the lock back, at its end or because
\* it is abandoned.
LEMMA LockPasses ==
  ASSUME DInv, loop = 0, lockq # <<>>, lockq' = Tail(lockq),
         orphans' = orphans \/ orphans' = orphans \cup {Head(lockq)},
         Head(lockq) \in Live => Head(lockq) \in orphans',
         UNCHANGED <<link, thread, loop, opened, current, blocking, wire, rx, trusted>>
  PROVE  DInv'
  <1>0. TypeOK /\ LockOK /\ Accounted /\ Believed
    BY DEF DInv
  <1>1. /\ lockq \in Seq(DOMAIN thread) /\ Head(lockq) = lockq[1] /\ Len(lockq) \in Nat
        /\ Len(lockq) > 0 /\ Head(lockq) \in DOMAIN thread
        /\ Tail(lockq) \in Seq(DOMAIN thread) /\ Len(Tail(lockq)) = Len(lockq) - 1
        /\ \A k \in 1 .. Len(lockq) - 1 : Tail(lockq)[k] = lockq[k + 1]
    <2>1. lockq \in Seq(DOMAIN thread)
      BY <1>0 DEF TypeOK
    <2>. QED
      BY <2>1, HeadTailProperties, LenProperties, EmptySeq
  <1>2. Live' = Live
    BY DEF Live
  <1>3. TypeOK'
    BY <1>0, <1>1 DEF TypeOK
  <1>4. LockOK'
    <2>1. \A k \in 1 .. Len(lockq') : k + 1 \in 1 .. Len(lockq) /\ lockq'[k] = lockq[k + 1]
      BY <1>1
    <2>2. ASSUME NEW k \in 1 .. Len(lockq')
          PROVE  /\ thread'[lockq'[k]].phase = "queued"
                 /\ lockq'[k] \notin orphans' /\ lockq'[k] # loop'
      <3>1. k + 1 > 1 /\ k + 1 # 1 /\ 1 \in 1 .. Len(lockq)
        BY <1>1
      <3>2. lockq'[k] # Head(lockq)
        BY <1>0, <1>1, <2>1, <3>1 DEF LockOK
      <3>. QED
        BY <1>0, <2>1, <3>1, <3>2 DEF LockOK
    <2>3. ASSUME NEW j \in 1 .. Len(lockq'), NEW k \in 1 .. Len(lockq'), lockq'[j] = lockq'[k]
          PROVE  j = k
      <3>1. j + 1 = k + 1
        BY <1>0, <2>1, <2>3 DEF LockOK
      <3>. QED
        BY <1>1, <3>1
    <2>. QED
      BY <2>2, <2>3 DEF LockOK
  <1>5. Accounted'
    <2>1. Live' \ orphans' = {}
      BY <1>2, HolderAlone
    <2>. QED
      BY <2>1 DEF Accounted
  <1>6. Believed'
    BY <1>0, <1>2, KeepsBelieved
  <1>. QED
    BY <1>3, <1>4, <1>5, <1>6 DEF DInv

\* The call ends in time.
LEMMA ReturnStep ==
  ASSUME DInv, NEW i, Return(i)
  PROVE  DInv'
  <1>1. i \notin Live
    BY DEF Return, Live
  <1>. QED
    BY <1>1, LockPasses DEF Return, Holds, lineVars

\* The watchdog abandons the call.
LEMMA WatchdogStep ==
  ASSUME DInv, NEW i, Watchdog(i)
  PROVE  DInv'
  BY LockPasses DEF Watchdog, Holds, lineVars

\* What a step leaves of the lock's queue still has a holder and waiters, and
\* while the event loop is free nobody else runs who is not abandoned.
QueueKept ==
    /\ lockq' \in Seq(DOMAIN thread) /\ Len(lockq') \in Nat
    /\ orphans' \in SUBSET DOMAIN thread /\ orphans \subseteq orphans'
    /\ \A k \in 1 .. Len(lockq') :
          /\ lockq'[k] \in DOMAIN thread /\ lockq'[k] \notin orphans'
          /\ k > 1 => thread[lockq'[k]].phase = "queued"
    /\ \A j, k \in 1 .. Len(lockq') : lockq'[j] = lockq'[k] => j = k
    /\ \A i \in Live \ orphans' : Len(lockq') > 0 /\ lockq'[1] = i

\* It is kept by a step that leaves it alone.
LEMMA QueueStays ==
  ASSUME DInv, loop = 0, UNCHANGED <<lockq, orphans>>
  PROVE  QueueKept
  <1>0. TypeOK /\ LockOK /\ Accounted
    BY DEF DInv
  <1>1. /\ lockq \in Seq(DOMAIN thread) /\ Len(lockq) \in Nat
        /\ \A k \in 1 .. Len(lockq) : lockq[k] \in DOMAIN thread
    BY <1>0, LenProperties, ElementOfSeq DEF TypeOK
  <1>2. \A i \in Live : i # 0
    BY <1>0, CallsThere
  <1>3. \A i \in Live \ orphans' : Len(lockq') > 0 /\ lockq'[1] = i
    BY <1>0, <1>2 DEF Accounted
  <1>. QED
    BY <1>0, <1>1, <1>3 DEF QueueKept, LockOK, TypeOK

\* The guards are cancelled: the queue keeps its order, and a guard that runs is
\* abandoned.
LEMMA Cancels ==
  ASSUME DInv, loop = 0, NEW G \in SUBSET DOMAIN thread, CancelAll(G)
  PROVE  QueueKept
  <1>. DEFINE K == {k \in 1 .. Len(lockq) : lockq[k] \notin G}
              p == Without(lockq, G)
  <1>0. /\ TypeOK /\ LockOK /\ Accounted /\ lockq \in Seq(DOMAIN thread)
        /\ lockq' = p /\ orphans' = orphans \cup (G \cap Live)
    BY DEF DInv, CancelAll, TypeOK
  <1>1. Len(lockq) \in Nat /\ \A k \in 1 .. Len(lockq) : lockq[k] \in DOMAIN thread
    BY <1>0, LenProperties, ElementOfSeq
  <1>2. p \in Seq(DOMAIN thread) /\ Selection(p, lockq, K)
    BY <1>0, WithoutElements
  <1>3. \A k \in K : k \in 1 .. Len(lockq) /\ lockq[k] \notin G
    OBVIOUS
  <1>4. \A k \in 1 .. Len(lockq) : lockq[k] \notin G => k \in K
    OBVIOUS
  <1>. HIDE DEF K, p
  <1>5. Len(p) \in Nat
    BY <1>2, LenProperties
  <1>6. PICK at \in [1 .. Len(p) -> K] :
               /\ \A j \in 1 .. Len(p) : p[j] = lockq[at[j]]
               /\ \A i \in K : \E j \in 1 .. Len(p) : at[j] = i
               /\ \A j, k \in 1 .. Len(p) : j < k => at[j] < at[k]
    BY <1>2 DEF Selection
  <1>7. orphans' \in SUBSET DOMAIN thread /\ orphans \subseteq orphans'
    BY <1>0 DEF TypeOK
  <1>8. ASSUME NEW k \in 1 .. Len(p)
        PROVE  /\ p[k] \in DOMAIN thread /\ p[k] \notin orphans'
               /\ k > 1 => thread[p[k]].phase = "queued"
    <2>1. /\ at[k] \in K /\ at[k] \in 1 .. Len(lockq) /\ p[k] = lockq[at[k]]
          /\ lockq[at[k]] \notin G
      BY <1>3, <1>6
    <2>2. p[k] \in DOMAIN thread /\ p[k] \notin orphans'
      BY <1>0, <1>1, <2>1 DEF LockOK
    <2>3. ASSUME k > 1 PROVE at[k] > 1
      <3>1. 1 \in 1 .. Len(p)
        BY <1>5, <2>3
      <3>2. at[1] \in 1 .. Len(lockq)
        BY <1>3, <1>6, <3>1
      <3>3. at[1] < at[k]
        BY <1>6, <2>3, <3>1
      <3>. QED
        BY <1>1, <2>1, <3>2, <3>3
    <2>. QED
      BY <1>0, <2>1, <2>2, <2>3 DEF LockOK
  <1>9. ASSUME NEW j \in 1 .. Len(p), NEW k \in 1 .. Len(p), p[j] = p[k] PROVE j = k
    <2>1. at[j] \in 1 .. Len(lockq) /\ at[k] \in 1 .. Len(lockq)
      BY <1>3, <1>6
    <2>2. at[j] = at[k]
      BY <1>0, <1>6, <1>9, <2>1 DEF LockOK
    <2>3. ~(j < k) /\ ~(k < j)
      <3>1. ~(at[j] < at[k]) /\ ~(at[k] < at[j])
        BY <1>1, <2>1, <2>2
      <3>. QED
        BY <1>6, <3>1
    <2>. QED
      BY <1>5, <2>3
  <1>10. ASSUME NEW i \in Live \ orphans' PROVE Len(p) > 0 /\ p[1] = i
    <2>1. i \in Live \ orphans /\ i \notin G /\ i # 0
      BY <1>0, CallsThere
    <2>2. Len(lockq) > 0 /\ lockq[1] = i
      BY <1>0, <2>1 DEF Accounted
    <2>3. 1 \in K
      BY <1>1, <1>4, <2>1, <2>2
    <2>4. PICK j \in 1 .. Len(p) : at[j] = 1
      BY <1>6, <2>3
    <2>5. 1 \in 1 .. Len(p)
      BY <1>5
    <2>6. at[1] \in 1 .. Len(lockq)
      BY <1>3, <1>6, <2>5
    <2>7. ~(1 < j)
      BY <1>1, <1>6, <2>4, <2>5, <2>6
    <2>8. j = 1
      BY <1>5, <2>7
    <2>. QED
      BY <1>5, <1>6, <2>2, <2>4, <2>5, <2>8
  <1>. QED
    BY <1>0, <1>2, <1>5, <1>7, <1>8, <1>9, <1>10 DEF QueueKept

\* INST.UNWATCH and the end of an instrument's guards.
LEMMA UnwatchStep ==
  ASSUME DInv, Unwatch
  PROVE  DInv'
  <1>0. /\ TypeOK /\ Accounted /\ Believed /\ loop = 0 /\ CancelAll(InProgress({"watch"}))
        /\ UNCHANGED <<link, thread, loop, opened, current, blocking, wire, rx, trusted>>
    BY DEF DInv, Unwatch, lineVars
  <1>1. InProgress({"watch"}) \in SUBSET DOMAIN thread
    BY DEF InProgress
  <1>2. QueueKept /\ Live' = Live
    BY <1>0, <1>1, Cancels DEF Live
  <1>3. TypeOK'
    BY <1>0, <1>2 DEF TypeOK, QueueKept
  <1>4. LockOK'
    <2>1. \A k \in 1 .. Len(lockq') : lockq'[k] # 0
      BY <1>0, <1>2, CallsThere DEF QueueKept
    <2>. QED
      BY <1>0, <1>2, <2>1 DEF LockOK, QueueKept
  <1>5. Accounted'
    BY <1>0, <1>2 DEF Accounted, QueueKept
  <1>6. Believed'
    BY <1>0, <1>2, KeepsBelieved DEF QueueKept
  <1>. QED
    BY <1>3, <1>4, <1>5, <1>6 DEF DInv

\* The event loop runs a method itself.
LEMMA LoopRuns ==
  ASSUME DInv, NEW job \in AllJobs, Runs(job), QueueKept,
         link' = link, opened' \in Gens, current' \in {0} \cup Gens,
         blocking' \in [Gens -> BOOLEAN],
         wire' \in [Gens -> Seq(Calls)], rx' \in [Gens -> Seq(Calls)],
         trusted' \in SUBSET (DOMAIN thread \cup {NextCall})
  PROVE  /\ TypeOK' /\ LockOK' /\ Accounted'
         /\ DOMAIN thread' = DOMAIN thread \cup {NextCall} /\ NextCall \notin DOMAIN thread
         /\ \A i \in DOMAIN thread : thread'[i] = thread[i]
         /\ thread'[NextCall] = New(job, "look")
         /\ Live' = Live \cup {NextCall} /\ NextCall \notin orphans'
  <1>0. /\ TypeOK /\ loop = 0 /\ NextCall \in Calls
        /\ thread' = Append(thread, New(job, "look")) /\ loop' = NextCall
    BY DEF DInv, Runs, Admits
  <1>1. /\ thread' \in Seq(ThreadType) /\ Len(thread') <= MaxCalls
        /\ DOMAIN thread' = DOMAIN thread \cup {NextCall}
        /\ NextCall \notin DOMAIN thread /\ NextCall # 0
        /\ \A i \in DOMAIN thread : thread'[i] = thread[i]
        /\ thread'[NextCall] = New(job, "look")
        /\ Live' = Live \cup {NextCall}
    BY <1>0, Grown
  <1>2. New(job, "look").phase = "look"
    BY NewCall
  <1>3. lockq' \in Seq(DOMAIN thread')
    BY <1>1, WiderSeq DEF QueueKept
  <1>4. TypeOK'
    BY <1>0, <1>1, <1>3 DEF TypeOK, QueueKept
  <1>5. NextCall \notin orphans'
    BY <1>1 DEF QueueKept
  <1>6. LockOK'
    <2>1. ASSUME NEW k \in 1 .. Len(lockq')
          PROVE  /\ k > 1 => thread'[lockq'[k]].phase = "queued"
                 /\ lockq'[k] \notin orphans' /\ lockq'[k] # loop'
      BY <1>0, <1>1 DEF QueueKept
    <2>2. \A j, k \in 1 .. Len(lockq') : lockq'[j] = lockq'[k] => j = k
      BY DEF QueueKept
    <2>. QED
      BY <2>1, <2>2 DEF LockOK
  <1>7. Accounted'
    <2>1. \A i \in Live' \ orphans' : i = loop' \/ (Len(lockq') > 0 /\ lockq'[1] = i)
      BY <1>0, <1>1 DEF QueueKept
    <2>. QED
      BY <1>0, <1>1, <1>2, <1>5, <2>1 DEF Accounted
  <1>. QED
    BY <1>1, <1>4, <1>5, <1>6, <1>7

\* unlock(): safe_state() asks nothing.
LEMMA IunlockStep ==
  ASSUME DInv, IUNLOCK
  PROVE  DInv'
  <1>0. /\ TypeOK /\ Believed /\ Runs("safe") /\ loop = 0 /\ CancelAll(InProgress({"watch"}))
        /\ UNCHANGED <<link, opened, current, blocking, wire, rx, trusted>>
        /\ "safe" \in AllJobs
    BY DEF DInv, IUNLOCK, Runs, Admits, lineVars, AllJobs
  <1>1. InProgress({"watch"}) \in SUBSET DOMAIN thread
    BY DEF InProgress
  <1>2. QueueKept
    BY <1>0, <1>1, Cancels
  <1>3. /\ opened' \in Gens /\ current' \in {0} \cup Gens /\ blocking' \in [Gens -> BOOLEAN]
        /\ wire' \in [Gens -> Seq(Calls)] /\ rx' \in [Gens -> Seq(Calls)]
        /\ trusted' \in SUBSET (DOMAIN thread \cup {NextCall})
    BY <1>0 DEF TypeOK
  <1>4. /\ TypeOK' /\ LockOK' /\ Accounted'
        /\ DOMAIN thread' = DOMAIN thread \cup {NextCall}
        /\ \A i \in DOMAIN thread : thread'[i] = thread[i]
        /\ thread'[NextCall] = New("safe", "look") /\ Live' = Live \cup {NextCall}
    BY <1>0, <1>2, <1>3, LoopRuns
  <1>5. thread'[NextCall].job = "safe"
    BY <1>0, <1>4, NewCall
  <1>6. Believed'
    BY <1>0, <1>2, <1>4, <1>5, KeepsBelieved DEF QueueKept
  <1>. QED
    BY <1>4, <1>6 DEF DInv

\* A query from the event loop: it is trusted when it has the line to itself, and
\* otherwise nobody is who runs.
LEMMA DisturbedStep ==
  ASSUME DInv, NEW job \in AllJobs, Runs(job), Disturbs,
         UNCHANGED <<link, lockq, orphans>>,
         opened' \in Gens, current' \in {0} \cup Gens,
         blocking' \in [Gens -> BOOLEAN],
         wire' \in [Gens -> Seq(Calls)], rx' \in [Gens -> Seq(Calls)]
  PROVE  DInv'
  <1>0. TypeOK /\ Believed /\ loop = 0 /\ trusted \in SUBSET DOMAIN thread
    BY DEF DInv, Runs, Admits, TypeOK
  <1>1. trusted' \in SUBSET (DOMAIN thread \cup {NextCall})
    BY <1>0 DEF Disturbs
  <1>2. QueueKept
    BY <1>0, QueueStays
  <1>3. /\ TypeOK' /\ LockOK' /\ Accounted'
        /\ DOMAIN thread' = DOMAIN thread \cup {NextCall} /\ NextCall \notin DOMAIN thread
        /\ \A i \in DOMAIN thread : thread'[i] = thread[i]
        /\ thread'[NextCall] = New(job, "look")
        /\ Live' = Live \cup {NextCall} /\ NextCall \notin orphans'
    BY <1>1, <1>2, LoopRuns
  <1>4. /\ New(job, "look").phase = "look" /\ New(job, "look").got = 0
    BY NewCall
  <1>5. Believed'
    <2>. SUFFICES ASSUME NEW j \in trusted' \ orphans'
                  PROVE  /\ thread'[j].phase # "queued"
                         /\ thread'[j].got \in {0, j}
                         /\ j \in Live' => Clean(j)' /\ \A k \in Live' \ {j} : thread'[k].job = "safe"
      BY DEF Believed
    <2>1. CASE j # NextCall
      <3>1. j \in trusted \ orphans /\ j \notin Live' /\ thread'[j] = thread[j]
        BY <1>0, <1>3, <2>1 DEF Disturbs
      <3>. QED
        BY <1>0, <3>1 DEF Believed
    <2>2. CASE j = NextCall
      <3>1. Quiet' /\ Live = {}
        BY <1>0, <1>3, <2>2 DEF Disturbs
      <3>2. current' # 0 => /\ wire'[Line(current)'] = <<>>
                            /\ link' = "serial" => rx'[Line(current)'] = <<>>
        BY <3>1 DEF Quiet
      <3>3. Clean(j)'
        BY <1>3, <1>4, <2>2, <3>2 DEF Clean
      <3>. QED
        BY <1>3, <1>4, <2>2, <3>1, <3>3
    <2>. QED
      BY <2>1, <2>2
  <1>. QED
    BY <1>3, <1>5 DEF DInv

\* INST.INFO.
LEMMA IinfoStep ==
  ASSUME DInv, IINFO
  PROVE  DInv'
  <1>1. /\ Runs("info") /\ Disturbs /\ "info" \in AllJobs
        /\ UNCHANGED <<link, lockq, opened, current, blocking, wire, rx, orphans>>
    BY DEF IINFO, lineVars, AllJobs
  <1>2. /\ opened' \in Gens /\ current' \in {0} \cup Gens /\ blocking' \in [Gens -> BOOLEAN]
        /\ wire' \in [Gens -> Seq(Calls)] /\ rx' \in [Gens -> Seq(Calls)]
    BY <1>1 DEF DInv, TypeOK
  <1>. QED
    BY <1>1, <1>2, DisturbedStep

\* INST.RESET, with a new transport.
LEMMA IresetStep ==
  ASSUME DInv, IRESET
  PROVE  DInv'
  <1>1. /\ Runs("connect") /\ Disturbs /\ "connect" \in AllJobs
        /\ UNCHANGED <<link, lockq, blocking, wire, orphans>>
        /\ opened < MaxGens /\ opened' = opened + 1 /\ current' = opened + 1
        /\ rx' = [rx EXCEPT ![Line(opened + 1)] = <<>>]
    BY DEF IRESET, AllJobs
  <1>2. /\ opened \in Gens /\ blocking \in [Gens -> BOOLEAN]
        /\ wire \in [Gens -> Seq(Calls)] /\ rx \in [Gens -> Seq(Calls)]
    BY DEF DInv, TypeOK
  <1>3. opened + 1 \in Gens
    BY <1>1, <1>2, MaxAssumption DEF Gens
  <1>4. rx' \in [Gens -> Seq(Calls)]
    <2>1. <<>> \in Seq(Calls)
      BY EmptySeq
    <2>. QED
      BY <1>1, <1>2, <2>1
  <1>. QED
    BY <1>1, <1>2, <1>3, <1>4, DisturbedStep

\* The transport is gone.
LEMMA ResetFailsStep ==
  ASSUME DInv, ResetFails
  PROVE  DInv'
  <1>0. /\ TypeOK /\ LockOK /\ Accounted /\ Believed /\ current' = 0
        /\ UNCHANGED <<link, lockq, thread, loop, opened, blocking, wire, rx, orphans, trusted>>
    BY DEF DInv, ResetFails, lineVars
  <1>1. TypeOK' /\ LockOK' /\ Accounted' /\ Live' = Live
    BY <1>0 DEF TypeOK, LockOK, Accounted, Live
  <1>2. Believed'
    BY <1>0, <1>1, KeepsBelieved
  <1>. QED
    BY <1>1, <1>2 DEF DInv

\* The event loop is free again: its call has ended.
LEMMA LoopEndsStep ==
  ASSUME DInv, LoopEnds
  PROVE  DInv'
  <1>0. /\ TypeOK /\ LockOK /\ Accounted /\ Believed /\ loop' = 0
        /\ loop # 0 /\ thread[loop].phase \in Ended
        /\ UNCHANGED <<link, lockq, thread, opened, current, blocking, wire, rx, orphans, trusted>>
    BY DEF DInv, LoopEnds, lineVars
  <1>1. TypeOK' /\ Live' = Live /\ loop \notin Live
    BY <1>0 DEF TypeOK, Live
  <1>2. LockOK'
    <2>1. \A k \in 1 .. Len(lockq) : lockq[k] # 0
      <3>1. lockq \in Seq(DOMAIN thread)
        BY <1>0 DEF TypeOK
      <3>. QED
        BY <1>0, <3>1, ElementOfSeq, CallsThere
    <2>. QED
      BY <1>0, <2>1 DEF LockOK
  <1>3. Accounted'
    BY <1>0, <1>1 DEF Accounted
  <1>4. Believed'
    BY <1>0, <1>1, KeepsBelieved
  <1>. QED
    BY <1>1, <1>2, <1>3, <1>4 DEF DInv

\* ILOCK changes nothing here, nor does a stuttering step.
LEMMA AsideStep ==
  ASSUME DInv, UNCHANGED <<link, lockq, thread, loop, opened, current, lineVars, orphans, trusted>>
  PROVE  DInv'
  <1>0. /\ TypeOK /\ LockOK /\ Accounted /\ Believed
        /\ UNCHANGED <<link, lockq, thread, loop, opened, current, blocking, wire, rx, orphans,
                       trusted>>
    BY DEF DInv, lineVars
  <1>1. TypeOK' /\ LockOK' /\ Accounted' /\ Live' = Live
    BY <1>0 DEF TypeOK, LockOK, Accounted, Live
  <1>2. Believed'
    BY <1>0, <1>1, KeepsBelieved
  <1>. QED
    BY <1>1, <1>2 DEF DInv

-----------------------------------------------------------------------------
(* The invariant *)

\* It holds before the first call.
LEMMA InitDInv == Init => DInv
  <1>. SUFFICES ASSUME Init PROVE DInv
    OBVIOUS
  <1>1. /\ link \in {"socket", "serial"} /\ lockq = <<>> /\ thread = <<>> /\ loop = 0
        /\ opened = 1 /\ current = 1 /\ blocking = [g \in Gens |-> TRUE]
        /\ wire = [g \in Gens |-> <<>>] /\ rx = [g \in Gens |-> <<>>]
        /\ orphans = {} /\ trusted = {}
    BY LinksAssumption DEF Init
  <1>2. /\ Len(lockq) = 0 /\ DOMAIN thread = {} /\ Len(thread) = 0
        /\ lockq \in Seq(DOMAIN thread) /\ thread \in Seq(ThreadType)
        /\ <<>> \in Seq(Calls)
    BY <1>1, EmptySeq
  <1>3. 1 \in Gens /\ 0 <= MaxCalls
    BY MaxAssumption DEF Gens
  <1>4. TypeOK
    BY <1>1, <1>2, <1>3 DEF TypeOK
  <1>5. LockOK
    BY <1>2 DEF LockOK
  <1>6. Accounted /\ Believed
    BY <1>1, <1>2 DEF Accounted, Believed, Live
  <1>. QED
    BY <1>4, <1>5, <1>6 DEF DInv

\* Every step keeps it.
LEMMA NextDInv == DInv /\ [Next]_vars => DInv'
  <1>. SUFFICES ASSUME DInv, [Next]_vars PROVE DInv'
    OBVIOUS
  <1>1. ASSUME NEW i \in Calls, Thread(i) PROVE DInv'
    <2>1. CASE NotConnected(i)
      BY <2>1, NotConnectedStep
    <2>2. CASE Tell(i)
      BY <2>2, TellStep
    <2>3. CASE Query(i)
      BY <2>3, QueryStep
    <2>4. CASE Flush(i)
      BY <2>4, FlushStep
    <2>5. CASE Send(i)
      BY <2>5, SendStep
    <2>6. CASE SendFails(i)
      BY <2>6, SendFailsStep
    <2>7. CASE ReadLine(i)
      BY <2>7, ReadLineStep
    <2>8. CASE ReadNothing(i)
      BY <2>8, ReadNothingStep
    <2>. QED
      BY <1>1, <2>1, <2>2, <2>3, <2>4, <2>5, <2>6, <2>7, <2>8 DEF Thread
  <1>2. ASSUME NEW i \in Calls, Start(i) \/ Return(i) \/ Watchdog(i) PROVE DInv'
    BY <1>2, StartStep, ReturnStep, WatchdogStep
  <1>3. ASSUME NEW l \in Gens, Answer(l) PROVE DInv'
    BY <1>3, AnswerStep
  <1>4. ASSUME NEW job \in Jobs, Call(job) PROVE DInv'
    BY <1>4, CallStep
  <1>5. CASE Unwatch
    BY <1>5, UnwatchStep
  <1>6. CASE ILOCK
    BY <1>6, AsideStep DEF ILOCK
  <1>7. CASE IUNLOCK
    BY <1>7, IunlockStep
  <1>8. CASE IINFO
    BY <1>8, IinfoStep
  <1>9. CASE IRESET
    BY <1>9, IresetStep
  <1>10. CASE ResetFails
    BY <1>10, ResetFailsStep
  <1>11. CASE LoopEnds
    BY <1>11, LoopEndsStep
  <1>12. CASE UNCHANGED vars
    BY <1>12, AsideStep DEF vars
  <1>. QED
    BY <1>1, <1>2, <1>3, <1>4, <1>5, <1>6, <1>7, <1>8, <1>9, <1>10, <1>11, <1>12 DEF Next

\* The invariant of the driver's line holds in every behaviour: one call holds the
\* lock (_call_driver), the others wait for it, run on the event loop or are
\* abandoned, and the line of a call that may be believed holds its own answers.
THEOREM DriverInductive == Spec => []DInv
  BY InitDInv, NextDInv, PTL DEF Spec

\* However many calls, abandoned threads and transports: a call of _call_driver
\* that begins on a quiet line, and that no query of the event loop disturbs,
\* returns the answer to its own query or none.
THEOREM AnswersOwnQueryHolds == Spec => []AnswersOwnQuery
  <1>1. DInv => AnswersOwnQuery
    BY DEF DInv, Believed, AnswersOwnQuery, AnswersOf
  <1>. QED
    BY <1>1, DriverInductive, PTL

=============================================================================
