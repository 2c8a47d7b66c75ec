------------------------------ MODULE ScpiDriver -----------------------------
(***************************************************************************)
(* One instrument with an SCPI driver (base_driver.py, the bundled driver  *)
(* drivers/agilent33500), its transport (transport.py) and the instrument  *)
(* at the other end.  Instruments and Bench take a driver call for one     *)
(* step with an outcome; here it is the commands that it sends and the     *)
(* lines that it reads, on a transport that other threads may use too:     *)
(*   - a call that the watchdog or a cancellation has abandoned goes on in *)
(*     its thread, and looks self._transport up again for every command;   *)
(*   - safe_state(), info() and connect() are called by the event loop     *)
(*     itself, without the instrument's lock.                              *)
(* A line is whole and is named by the call it answers.                    *)
(***************************************************************************)
EXTENDS Picks

CONSTANTS
    Links,      \* which transports: a subset of {"socket", "serial"}
    Jobs,       \* the jobs of this instance, a subset of DOMAIN Program
    MaxCalls,   \* bound on the driver calls
    MaxGens     \* bound on the transports opened

ASSUME LinksAssumption == Links \subseteq {"socket", "serial"}
ASSUME MaxAssumption == MaxCalls \in Nat /\ MaxGens \in Nat \ {0}

VARIABLES
    link,       \* which transport the address stands for
    state,      \* Instrument.state
    lockq,      \* Instrument._lock: the call that holds it, then the waiters
    thread,     \* the calls made so far, each with its thread
    loop,       \* the call that the event loop runs itself; 0: none
    opened,     \* the number of transports made so far
    current,    \* ScpiDriver._transport, by number; 0: None
    blocking,   \* per transport: the socket's blocking mode
    wire,       \* per line: queries that the instrument has not answered yet
    rx,         \* per line: answers that nobody has read
    orphans,    \* calls abandoned by those who wanted their result
    trusted     \* calls that began with the line to themselves (history)

lineVars == <<blocking, wire, rx>>
vars == <<link, state, lockq, thread, loop, opened, current, lineVars, orphans, trusted>>

\* What a driver method does on the wire: commands ("tell") and queries.  init:
\* *RST and *CLS, *TST?, OUTP OFF.  configure: the lines of a file.  connect,
\* info and the health ping: *IDN?.  watch: the read() of a guard.  passthrough,
\* load, save and wait_complete are like read or like write.
Program == [read |-> <<"ask">>, write |-> <<"tell">>, configure |-> <<"tell", "tell">>,
            init |-> <<"tell", "ask", "tell">>, watch |-> <<"ask">>, ping |-> <<"ask">>,
            connect |-> <<"ask">>, info |-> <<"ask">>, safe |-> <<"tell">>]

Commands == {"read", "write", "configure", "init"}
Tracked == {"read", "write"}
LoopJobs == {"connect", "info", "safe"}

ASSUME JobsAssumption == Jobs \subseteq DOMAIN Program

Calls == 1 .. MaxCalls
Gens == 1 .. MaxGens
Broken == {"UNRESPONSIVE", "FAULT"}

\* The line behind transport g: a serial port is the same one when reopened.
Line(g) == IF link = "serial" THEN 1 ELSE g

\* A new call.  phase: "queued" for the lock, "look" (before a command), "flush",
\* "send", "read", and at last "done" or an exception, "error" for a DriverError.
New(job, phase) == [job |-> job, step |-> 1, phase |-> phase, on |-> 0, got |-> 0]

Ended == {"done", "error", "raised"}
Live == {i \in DOMAIN thread : thread[i].phase \notin Ended \cup {"queued"}}
InProgress(jobs) == {i \in DOMAIN thread \ orphans :
                        thread[i].job \in jobs /\ (i = loop \/ \E k \in DOMAIN lockq : lockq[k] = i)}

\* After a first IADD, ILOCK and IINIT.
Init ==
    /\ link \in Links
    /\ state = "READY"
    /\ lockq = <<>> /\ thread = <<>> /\ loop = 0
    /\ opened = 1 /\ current = 1
    /\ blocking = [g \in Gens |-> TRUE]
    /\ wire = [g \in Gens |-> <<>>] /\ rx = [g \in Gens |-> <<>>]
    /\ orphans = {}
    /\ trusted = {}

-----------------------------------------------------------------------------
(* Threads: the driver's methods and the transport *)

At(i, phase) == thread' = [thread EXCEPT ![i].phase = phase]
Doing(i, phase) == i \in DOMAIN thread /\ thread[i].phase = phase
Step(i) == Program[thread[i].job][thread[i].step]

\* The end of thread t, and its next command or its end.
End(t, phase) == [New(t.job, phase) EXCEPT !.got = t.got]
Ends(i, phase) == thread' = [thread EXCEPT ![i] = End(@, phase)]

Advance(t) ==
    IF t.step < Len(Program[t.job]) THEN [t EXCEPT !.step = @ + 1, !.phase = "look", !.on = 0]
    ELSE End(t, "done")

\* _send and _query: the transport is the one of now.
NotConnected(i) ==
    /\ Doing(i, "look") /\ current = 0
    /\ Ends(i, "error")
    /\ UNCHANGED <<link, state, lockq, loop, opened, current, lineVars, orphans, trusted>>

\* send() of a command: it goes out, or the link is broken.
Tell(i) ==
    /\ Doing(i, "look") /\ current # 0 /\ Step(i) = "tell"
    /\ thread' = [thread EXCEPT ![i] = Advance(@)] \/ Ends(i, "raised")
    /\ UNCHANGED <<link, state, lockq, loop, opened, current, lineVars, orphans, trusted>>

\* query(): that of a socket makes it non-blocking first, to drop what is there.
Query(i) ==
    /\ Doing(i, "look") /\ current # 0 /\ Step(i) = "ask"
    /\ thread' = [thread EXCEPT ![i].phase = IF link = "socket" THEN "flush" ELSE "send",
                                ![i].on = current]
    /\ blocking' = IF link = "socket" THEN [blocking EXCEPT ![current] = FALSE] ELSE blocking
    /\ UNCHANGED <<link, state, lockq, loop, opened, current, wire, rx, orphans, trusted>>

Closed(g) == g # current

\* The loop of recv(4096) drops what has come; when there is nothing it ends, and
\* the socket is made blocking, whatever its timeout was.  A thread that finds it
\* blocking again stays in recv.
Flush(i) ==
    /\ Doing(i, "flush")
    /\ LET g == thread[i].on IN
          \/ Closed(g) /\ Ends(i, "raised") /\ UNCHANGED lineVars
          \/ /\ ~Closed(g) /\ rx[g] # <<>>
             /\ rx' = [rx EXCEPT ![g] = <<>>]
             /\ UNCHANGED <<thread, blocking, wire>>
          \/ /\ ~Closed(g) /\ rx[g] = <<>> /\ ~blocking[g]
             /\ blocking' = [blocking EXCEPT ![g] = TRUE]
             /\ At(i, "send")
             /\ UNCHANGED <<wire, rx>>
    /\ UNCHANGED <<link, state, lockq, loop, opened, current, orphans, trusted>>

\* The query goes out, or the link is broken.
Send(i) ==
    /\ Doing(i, "send") /\ ~Closed(thread[i].on)
    /\ wire' = [wire EXCEPT ![Line(thread[i].on)] = Append(@, i)]
    /\ At(i, "read")
    /\ UNCHANGED <<link, state, lockq, loop, opened, current, blocking, rx, orphans, trusted>>

SendFails(i) ==
    /\ Doing(i, "send")
    /\ Ends(i, "raised")
    /\ UNCHANGED <<link, state, lockq, loop, opened, current, lineVars, orphans, trusted>>

\* A line is read: a socket gives up all it has, the first line is the answer.
\* init() may find that the self-test has failed.
ReadLine(i) ==
    /\ Doing(i, "read")
    /\ LET l == Line(thread[i].on) IN
          /\ rx[l] # <<>>
          /\ \/ thread' = [thread EXCEPT ![i] = [Advance(@) EXCEPT !.got = Head(rx[l])]]
             \/ thread[i].job = "init" /\ Ends(i, "error")
          /\ rx' = [rx EXCEPT ![l] = IF link = "socket" THEN <<>> ELSE Tail(@)]
    /\ UNCHANGED <<link, state, lockq, loop, opened, current, blocking, wire, orphans, trusted>>

\* Without an answer, readline() of a serial port returns what it has, "", after
\* its timeout, or fails when the port is closed; recv() of a socket waits, or
\* fails when another thread has made the socket non-blocking.
ReadNothing(i) ==
    /\ Doing(i, "read") /\ rx[Line(thread[i].on)] = <<>>
    /\ \/ link = "serial" /\ thread' = [thread EXCEPT ![i] = Advance(@)]
       \/ link = "serial" /\ Closed(thread[i].on) /\ Ends(i, "raised")
       \/ link = "socket" /\ ~blocking[thread[i].on] /\ Ends(i, "raised")
    /\ UNCHANGED <<link, state, lockq, loop, opened, current, lineVars, orphans, trusted>>

-----------------------------------------------------------------------------
(* The instrument *)

\* It takes the next query and answers it, or never does.
Answer(l) ==
    /\ wire[l] # <<>>
    /\ wire' = [wire EXCEPT ![l] = Tail(@)]
    /\ rx' \in {rx, [rx EXCEPT ![l] = Append(@, Head(wire[l]))]}
    /\ UNCHANGED <<link, state, lockq, thread, loop, opened, current, blocking, orphans, trusted>>

-----------------------------------------------------------------------------
(* The event loop *)

\* Does a call that begins now have the line to itself?  On a socket, answers
\* that lie there do not matter.
Quiet ==
    /\ orphans \cap Live = {}
    /\ current # 0 => /\ wire[Line(current)] = <<>>
                      /\ link = "serial" => rx[Line(current)] = <<>>

NextCall == Len(thread) + 1
Admits(job) == loop = 0 /\ NextCall \in Calls /\ job \in Jobs

\* Who may call: the owner's read and write need READY, IINIT needs an owner, a
\* ping an instrument that is not broken, a guard READY.
Permits(job) ==
    CASE job \in {"read", "write", "watch"} -> state = "READY"
      [] job \in {"configure", "init"} -> state \in {"LOCKED", "READY"}
      [] job = "ping" -> state \notin Broken

\* A command, a guard or the health monitor calls _call_driver.  There is one
\* command at a time, and one guard and one health task.
Call(job) ==
    /\ Admits(job) /\ job \notin LoopJobs
    /\ Permits(job)
    /\ InProgress(IF job \in Commands THEN Commands ELSE {job}) = {}
    /\ thread' = Append(thread, New(job, "queued"))
    /\ lockq' = Append(lockq, NextCall)
    /\ UNCHANGED <<link, state, loop, opened, current, lineVars, orphans, trusted>>

\* Mutated form of Start: the lock is not taken.
StartAny(i) ==
    /\ loop = 0
    /\ Doing(i, "queued")
    /\ At(i, "look")
    /\ trusted' = IF Quiet THEN trusted \cup {i} ELSE trusted
    /\ UNCHANGED <<link, state, lockq, loop, opened, current, lineVars, orphans>>

\* The caller gets inst._lock: asyncio.to_thread.
Start(i) ==
    /\ loop = 0
    /\ lockq # <<>> /\ Head(lockq) = i /\ Doing(i, "queued")
    /\ At(i, "look")
    /\ trusted' = IF Quiet THEN trusted \cup {i} ELSE trusted
    /\ UNCHANGED <<link, state, lockq, loop, opened, current, lineVars, orphans>>

Holds(i) == lockq # <<>> /\ Head(lockq) = i /\ ~Doing(i, "queued")

\* The call ends in time.  _tracked_call makes an exception a FAULT; IINIT
\* makes the instrument READY (its discover() asks the instrument nothing).
Return(i) ==
    /\ loop = 0 /\ Holds(i) /\ thread[i].phase \in Ended
    /\ lockq' = Tail(lockq)
    /\ state' = IF thread[i].phase = "raised" /\ thread[i].job \in Tracked THEN "FAULT"
                ELSE IF thread[i].phase = "done" /\ thread[i].job = "init" THEN "READY"
                ELSE state
    /\ UNCHANGED <<link, thread, loop, opened, current, lineVars, orphans, trusted>>

\* asyncio.wait_for gives up; the thread does not.
Watchdog(i) ==
    /\ loop = 0 /\ Holds(i) /\ i \in Live
    /\ state' = "UNRESPONSIVE"
    /\ lockq' = Tail(lockq)
    /\ orphans' = orphans \cup {i}
    /\ UNCHANGED <<link, thread, loop, opened, current, lineVars, trusted>>

\* task.cancel() on guards: their calls leave the lock, a thread runs on.
CancelAll(G) ==
    /\ lockq' = Without(lockq, G)
    /\ orphans' = orphans \cup (G \cap Live)

Unwatch ==
    /\ loop = 0
    /\ InProgress({"watch"}) # {} /\ InProgress(Commands) = {}
    /\ CancelAll(InProgress({"watch"}))
    /\ UNCHANGED <<link, state, thread, loop, opened, current, lineVars, trusted>>

\* The event loop runs a driver method itself; nobody else runs on it.
Runs(job) ==
    /\ Admits(job)
    /\ thread' = Append(thread, New(job, "look"))
    /\ loop' = NextCall

ILOCK ==
    /\ loop = 0 /\ InProgress(Commands) = {}
    /\ state = "IDLE" /\ state' = "LOCKED"
    /\ UNCHANGED <<link, lockq, thread, loop, opened, current, lineVars, orphans, trusted>>

\* unlock(), from the owner's IUNLOCK or from close(), which does not wait for the
\* commands of others: the guards are stopped, then comes safe_state().
IUNLOCK ==
    /\ Runs("safe")
    /\ InProgress(Tracked) = {}
    /\ state # "IDLE"
    /\ CancelAll(InProgress({"watch"}))
    /\ UNCHANGED <<link, state, opened, current, lineVars, trusted>>

\* A query from the event loop gets in the way of the threads there are.
Disturbs == trusted' = IF Quiet' /\ Live = {} THEN trusted \cup {NextCall} ELSE trusted \ Live

\* handle_instrument_info, in any state.
IINFO ==
    /\ Runs("info")
    /\ InProgress(Commands) = {}
    /\ UNCHANGED <<link, state, lockq, opened, current, lineVars, orphans>>
    /\ Disturbs

\* reset(): the transport is closed and opened again; then connect() asks for
\* *IDN?.  Opening a serial port drops its input.
IRESET ==
    /\ Runs("connect")
    /\ InProgress(Commands) = {} /\ state \in Broken
    /\ opened < MaxGens
    /\ opened' = opened + 1 /\ current' = opened + 1
    /\ rx' = [rx EXCEPT ![Line(opened + 1)] = <<>>]
    /\ UNCHANGED <<link, state, lockq, blocking, wire, orphans>>
    /\ Disturbs

\* The same when the new transport cannot be opened.
ResetFails ==
    /\ loop = 0 /\ InProgress(Commands) = {} /\ state \in Broken
    /\ current' = 0
    /\ UNCHANGED <<link, state, lockq, thread, loop, opened, lineVars, orphans, trusted>>

\* The method that the loop has run is over: connect() or, if it raised, nothing;
\* safe_state() never raises.
LoopEnds ==
    /\ loop # 0 /\ thread[loop].phase \in Ended
    /\ state' = CASE thread[loop].job = "safe" -> "IDLE"
                  [] thread[loop].job = "connect" /\ thread[loop].phase = "done" -> "LOCKED"
                  [] OTHER -> state
    /\ loop' = 0
    /\ UNCHANGED <<link, lockq, thread, opened, current, lineVars, orphans, trusted>>
-----------------------------------------------------------------------------
Thread(i) ==
    \/ NotConnected(i) \/ Tell(i)
    \/ Query(i) \/ Flush(i) \/ Send(i) \/ SendFails(i) \/ ReadLine(i) \/ ReadNothing(i)

Next ==
    \/ \E i \in Calls : Thread(i) \/ Start(i) \/ Return(i) \/ Watchdog(i)
    \/ \E l \in Gens : Answer(l)
    \/ \E job \in Jobs : Call(job)
    \/ Unwatch \/ ILOCK \/ IUNLOCK \/ IINFO \/ IRESET \/ ResetFails \/ LoopEnds

Spec == Init /\ [][Next]_vars

\* Threads run, a serial port's timeout included; so does the event loop, unless
\* it is in a driver method.  The instrument need not answer.
FairSpec ==
    /\ Spec
    /\ \A i \in Calls : /\ WF_vars(Thread(i)) /\ WF_vars(Start(i))
                        /\ WF_vars(Return(i) \/ Watchdog(i))
    /\ WF_vars(LoopEnds)

-----------------------------------------------------------------------------
(* Properties *)

AnswersOf(C) == \A i \in C : thread[i].got \in {0, i}

\* A call that begins while no abandoned call is under way and nothing is owed,
\* and that IINFO and IRESET leave alone, returns the answer to its own query (or
\* none): the lock, the flush of a socket after a query that failed, and the new
\* transport of IRESET see to that, whatever was abandoned before, and
\* safe_state() does not disturb it.
AnswersOwnQuery == AnswersOf(trusted \ orphans)

-----------------------------------------------------------------------------
(* Claims that the code does not keep *)

\* "Every driver method call is wrapped in asyncio.to_thread() +
\* asyncio.wait_for() with configurable timeout" (README.md:929): the event loop
\* is never lost in one.
CallsWrapped == loop # 0 ~> loop = 0

\* "The per-instrument lock (inst._lock) serializes all transport access"
\* (instruments.py:224): while no call is abandoned, answers are not mixed up.
AccessSerialised == orphans = {} /\ link = "socket" => AnswersOf(DOMAIN thread)

\* "If safe_state() fails during IUNLOCK, the instrument transitions to FAULT,
\* not IDLE" (README.md:849).
SafeStateReports ==
    [][loop # 0 /\ loop' = 0 /\ thread[loop].job = "safe" /\ thread[loop].phase # "done" =>
         state' = "FAULT"]_vars
=============================================================================
