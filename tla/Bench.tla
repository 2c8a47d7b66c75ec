-------------------------------- MODULE Bench --------------------------------
(***************************************************************************)
(* The running server: the instrument commands of testcore/commands.py,    *)
(* the disconnect cleanup of testcore/server.py (ClientHandler.close), the *)
(* guard and health tasks, all sharing the registry of Instruments.        *)
(*                                                                         *)
(* CommandDispatcher.dispatch holds one asyncio.Lock for the length of a   *)
(* handler, so at most one command is in progress (cmd); close, the guards *)
(* and the health tasks run outside that lock.  A handler is cut where it  *)
(* awaits: at a driver call, and at an event publication that further      *)
(* state changes follow.  A publication at the very end of a handler is    *)
(* part of its last step.  ILOCK and IUNLOCK are cut where they are given  *)
(* the dispatch lock, too: asyncio.Lock wakes the first waiter, and the    *)
(* tasks scheduled before it run first.  For the other commands that cut   *)
(* would show nothing.  A publication raises when the set of               *)
(* subscribers changes under it: that ends a guard, a health task and an   *)
(* IUNLOCK, while close() and IUNLOCK ALL go on with the next instrument.  *)
(* Refused commands that change nothing are steps that leave every         *)
(* variable alone and are not written as actions.                          *)
(***************************************************************************)
EXTENDS WatchManager, HealthMonitor

CONSTANTS
    Commands,   \* command names the clients of this instance use
    Monitored,  \* instruments their IADD gives a health= option
    MaxTargets  \* the longest argument list of an IMREAD

ASSUME MaxTargetsAssumption == MaxTargets \in Nat

VARIABLES
    cmd,        \* the command holding the dispatch lock
    conn,       \* per session: "open", "closing" (in close()), "closed"
    todo,       \* per closing session: names its release loop has yet to visit
    aborted     \* per session: did its release loop end by an exception?

sessionVars == <<cmd, conn, todo, aborted>>
healthVars == <<health, failures>>
vars == <<instVars, meas, watch, healthVars, sessionVars>>

NoCmd == [op |-> "none", sess |-> NoOwner, at |-> {}, rest |-> {}, meas |-> FALSE]

\* A command in progress.  at: the instruments whose driver it calls; rest:
\* those it has still to visit; meas: is the MEAS flag set?
Running(op, s, N, M, m) ==
    [op |-> op, sess |-> s, at |-> N, rest |-> M, meas |-> m]

Ops == {"none", "call", "mread", "ping", "init", "align", "lock", "unlock"}

\* The commands that wait for no driver.
Unqueued == {"none", "lock", "unlock"}

CmdType == [op : Ops, sess : Sessions \cup {NoOwner}, at : SUBSET Names,
            rest : SUBSET Names, meas : BOOLEAN]

SessionTypeOK ==
    /\ cmd \in CmdType
    /\ conn \in [Sessions -> {"open", "closing", "closed"}]
    /\ todo \in [Sessions -> SUBSET Names]
    /\ aborted \in [Sessions -> BOOLEAN]

Init ==
    /\ InstInit
    /\ MeasInit
    /\ WatchInit
    /\ HealthInit
    /\ cmd = NoCmd
    /\ conn = [s \in Sessions |-> "open"]
    /\ todo = [s \in Sessions |-> {}]
    /\ aborted = [s \in Sessions |-> FALSE]

\* Mutated form of Dispatch: commands of several sessions run concurrently.
DispatchUnlocked(s, c) == c \in Commands /\ conn[s] = "open"

\* The dispatch lock is free and s sends command c.
Dispatch(s, c) == c \in Commands /\ conn[s] = "open" /\ cmd = NoCmd

Owned(s) == {n \in reg : owner[n] = s}

\* Mutated forms of ReleaseInst: the guards are not stopped; the MEAS entries
\* are not invalidated.
ReleaseInstKeepsGuards(n) ==
    Unlock(n) /\ InvalidateMeas({n}) /\ UNCHANGED <<watch, busVars>>

ReleaseInstKeepsMeas(n) ==
    StopInstruments({n}, {}) /\ Unlock(n) /\ UNCHANGED meas

\* One instrument of an unlock: stop its guards, run InstrumentRegistry.unlock,
\* invalidate its MEAS entries (_unlock_with_meas; the body of close's loop).
ReleaseInst(n) ==
    /\ StopInstruments({n}, {})
    /\ Unlock(n)
    /\ InvalidateMeas({n})

-----------------------------------------------------------------------------
(* Instrument management *)

IADD(s, n) ==
    /\ Dispatch(s, "IADD")
    /\ Add(n)
    /\ StartHealth(n, n \in Monitored)
    /\ UNCHANGED <<busVars, hw, meas, watch, sessionVars>>

\* Any session may remove any instrument; MEAS entries stay as they are.
IREMOVE(s, n) ==
    /\ Dispatch(s, "IREMOVE")
    /\ Remove(n)
    /\ StopInstruments({n}, {PingEntry})
    /\ StopHealth(n)
    /\ UNCHANGED <<meas, sessionVars>>

\* Any session may reset a broken instrument.
IRESET(s, n) ==
    /\ Dispatch(s, "IRESET")
    /\ Reset(n)
    /\ UNCHANGED <<busVars, hw, meas, watch, healthVars, sessionVars>>

\* The first driver call of a command that works on instrument n alone.
StartCall(s, op, n, e, m) ==
    /\ Enqueue(n, e)
    /\ cmd' = Running(op, s, {n}, {}, m)
    /\ UNCHANGED <<registryVars, orphan, hw, watch, healthVars,
                   conn, todo, aborted>>

\* Any session may initialise an instrument that is LOCKED or READY, with a
\* configuration file (configure() runs first) or without.
IINIT(s, n) ==
    /\ Dispatch(s, "IINIT")
    /\ n \in reg
    /\ state[n] \in {"LOCKED", "READY"}
    /\ \E c \in {"configure", "init"} :
          StartCall(s, "init", n, DriverCall("cmd", c, NoRes), FALSE)
    /\ UNCHANGED meas

\* Any session may ping an instrument that is not broken.
IPING(s, n) ==
    /\ Dispatch(s, "IPING")
    /\ n \in reg
    /\ state[n] \notin Broken
    /\ StartCall(s, "ping", n, DriverCall("cmd", "ping", NoRes), FALSE)
    /\ UNCHANGED meas

Alignable(n) == n \in reg /\ state[n] = "LOCKED"

\* Any session may align; the names are taken one after the other.
IALIGN(s, N) ==
    /\ Dispatch(s, "IALIGN")
    /\ \E n \in N :
          /\ Alignable(n)
          /\ Enqueue(n, DriverCall("cmd", "discover", NoRes))
          /\ cmd' = Running("align", s, {n}, N \ {n}, FALSE)
    /\ UNCHANGED <<registryVars, orphan, hw, meas, watch, healthVars,
                   conn, todo, aborted>>

-----------------------------------------------------------------------------
(* Locks *)

Lockable(n, s) == n \in reg /\ (state[n] = "IDLE" \/ owner[n] = s)

\* ILOCK and IUNLOCK with the names N are given the dispatch lock.
GivenLock(s, op, N) ==
    /\ cmd' = Running(op, s, {}, N, FALSE)
    /\ UNCHANGED <<instVars, meas, watch, healthVars, conn, todo, aborted>>

ILOCK(s, N) == Dispatch(s, "ILOCK") /\ GivenLock(s, "lock", N)

\* The locks on the names new are taken for s.
Take(s, new) ==
    /\ state' = [n \in Names |-> IF n \in new THEN "LOCKED" ELSE state[n]]
    /\ owner' = [n \in Names |-> IF n \in new THEN s ELSE owner[n]]

\* Mutated form of HandleLock: one loop that takes what it can and is stopped
\* by the first name it cannot take.
HandleLockNameByName ==
    /\ cmd.op = "lock"
    /\ Take(cmd.sess, {n \in cmd.rest : Lockable(n, cmd.sess) /\ owner[n] # cmd.sess})
    /\ cmd' = NoCmd
    /\ UNCHANGED <<reg, resources, busVars, hw, meas, watch, healthVars,
                   conn, todo, aborted>>

\* handle_lock: all names are validated before any lock is taken.
HandleLock ==
    /\ cmd.op = "lock"
    /\ \/ /\ \A n \in cmd.rest : Lockable(n, cmd.sess)
          /\ Take(cmd.sess, {n \in cmd.rest : owner[n] # cmd.sess})
       \/ /\ \E n \in cmd.rest : ~Lockable(n, cmd.sess)
          /\ UNCHANGED <<state, owner>>
    /\ cmd' = NoCmd
    /\ UNCHANGED <<reg, resources, busVars, hw, meas, watch, healthVars,
                   conn, todo, aborted>>

\* One round of handle_unlock's loop.  _unlock_with_meas stops the guards
\* before registry.unlock looks at the owner; its exception ends the command.
UnlockRound(s, n, rest) ==
    \/ /\ RequireLock(n, s)
       /\ ReleaseInst(n)
       /\ cmd' = IF rest = {} THEN NoCmd
                             ELSE Running("unlock", s, {}, rest, FALSE)
       /\ UNCHANGED <<healthVars, conn, todo, aborted>>
    \/ /\ ~RequireLock(n, s)
       /\ StopInstruments({n}, {})
       /\ cmd' = NoCmd
       /\ UNCHANGED <<registryVars, hw, meas, healthVars, conn, todo, aborted>>

\* IUNLOCK ALL is IUNLOCK of the names the session owns.
IUNLOCK(s, N) == Dispatch(s, "IUNLOCK") /\ GivenLock(s, "unlock", N)

\* The first round of handle_unlock, or the publications of the previous round
\* are done and the next one follows.
UnlockResumes ==
    /\ cmd.op = "unlock"
    /\ \E n \in cmd.rest : UnlockRound(cmd.sess, n, cmd.rest \ {n})

\* A publication of the previous round raised out of the loop: the names left
\* keep their locks.  (IUNLOCK ALL catches it and goes on; before the first
\* round this is an IUNLOCK ALL that finds no lock of its session.)
UnlockAborts ==
    /\ cmd.op = "unlock"
    /\ cmd' = NoCmd
    /\ UNCHANGED <<instVars, meas, watch, healthVars, conn, todo, aborted>>

-----------------------------------------------------------------------------
(* Resource access: the owner of a READY instrument calls its driver *)

TrackedCall(s, n, e, m) ==
    /\ RequireLock(n, s)
    /\ CheckReady(n)
    /\ StartCall(s, "call", n, e, m)
    /\ UNCHANGED meas

IREAD(s, n, r, m) ==
    Dispatch(s, "IREAD") /\ TrackedCall(s, n, DriverCall("cmd", "read", r), m)

IWRITE(s, n, r) ==
    Dispatch(s, "IWRITE") /\ TrackedCall(s, n, DriverCall("cmd", "write", r), FALSE)

IRAW(s, n) ==
    Dispatch(s, "IRAW") /\ TrackedCall(s, n, DriverCall("cmd", "raw", NoRes), FALSE)

ISAVE(s, n) ==
    Dispatch(s, "ISAVE") /\ TrackedCall(s, n, DriverCall("cmd", "save", NoRes), FALSE)

ILOAD(s, n) ==
    Dispatch(s, "ILOAD") /\ TrackedCall(s, n, DriverCall("cmd", "load", NoRes), FALSE)

IWAIT(s, n) ==
    Dispatch(s, "IWAIT") /\ TrackedCall(s, n, DriverCall("cmd", "wait", NoRes), FALSE)

\* IREAD ... MEAS that is refused with a DriverError (unknown instrument),
\* NotInitError or FaultError records the refusal as a MEAS entry.
IREADRefused(s, n, r) ==
    /\ Dispatch(s, "IREAD")
    /\ n \notin reg \/ (owner[n] = s /\ state[n] \in {"LOCKED"} \cup Broken)
    /\ WriteMeas(n, r, "ERROR")
    /\ UNCHANGED <<instVars, watch, healthVars, sessionVars>>

\* The reads an IMREAD with these arguments starts on n: asyncio.gather runs
\* them concurrently, so they queue on inst._lock in argument order.
ReadsOn(n, args) ==
    LET mine == Picked(args, {i \in DOMAIN args : args[i][1] = n /\ CheckReady(n)})
    IN  [i \in 1 .. Len(mine) |-> DriverCall("cmd", "read", mine[i][2])]

Targets == UNION {[1 .. k -> Names \X Resources] : k \in 1 .. MaxTargets}

IMREAD(s, args) ==
    LET N == {args[i][1] : i \in DOMAIN args} IN
    /\ Dispatch(s, "IMREAD")
    /\ \A n \in N : RequireLock(n, s)
    /\ \E n \in N : CheckReady(n)
    /\ lockq' = [n \in Names |-> lockq[n] \o ReadsOn(n, args)]
    /\ cmd' = Running("mread", s, N, {}, FALSE)
    /\ UNCHANGED <<registryVars, orphan, hw, meas, watch, healthVars,
                   conn, todo, aborted>>

-----------------------------------------------------------------------------
(* Guards *)

IWATCH(s, n, r) ==
    /\ Dispatch(s, "IWATCH")
    /\ RequireLock(n, s)
    /\ CheckReady(n)
    /\ r \in resources[n]
    /\ StartWatch(n, r)
    /\ UNCHANGED <<registryVars, hw, meas, healthVars, sessionVars>>

\* IUNWATCH name resource: any session may stop the guard.
IUNWATCH(s, n, r) ==
    /\ Dispatch(s, "IUNWATCH")
    /\ watch[n][r] # "none"
    /\ StopWatch(n, r)
    /\ IF meas[n][r] = "absent" THEN UNCHANGED meas ELSE WriteMeas(n, r, "STALE")
    /\ UNCHANGED <<registryVars, hw, healthVars, sessionVars>>

\* IUNWATCH name ALL (any session), and IUNWATCH ALL (the session's own).
IUNWATCHAll(s, N) ==
    /\ Dispatch(s, "IUNWATCH")
    /\ Cardinality(N) = 1 \/ N = Owned(s)
    /\ StopInstruments(N, {})
    /\ InvalidateMeas(N)
    /\ UNCHANGED <<registryVars, hw, healthVars, sessionVars>>

-----------------------------------------------------------------------------
(* A driver call made by the command in progress ends *)

\* A tracked call of IREAD, IWRITE, ...: the command is over.
CallReturns(n, o) ==
    /\ cmd.op = "call"
    /\ n \in cmd.at
    /\ Holds(n, "cmd")
    /\ Pop(n, o)
    /\ state' = [state EXCEPT ![n] = AfterTrackedCall(n, o)]
    /\ IF cmd.meas THEN \E status \in StatusOf(o) :
                             WriteMeas(n, Head(lockq[n]).res, status)
                   ELSE UNCHANGED meas
    /\ cmd' = NoCmd
    /\ UNCHANGED <<reg, owner, resources, hw, watch, healthVars,
                   conn, todo, aborted>>

\* Mutated form of LastCall: only this instrument's queue is looked at.
LastCallHere(n) ==
    \A i \in DOMAIN lockq[n] : lockq[n][i].who = "cmd" => i = 1

\* No call of the command is left once the one on n has ended.
LastCall(n) ==
    \A m \in Names : \A i \in DOMAIN lockq[m] :
        lockq[m][i].who = "cmd" => m = n /\ i = 1

MreadReturns(n, o) ==
    /\ cmd.op = "mread"
    /\ n \in cmd.at
    /\ Holds(n, "cmd")
    /\ Pop(n, o)
    /\ state' = [state EXCEPT ![n] = AfterTrackedCall(n, o)]
    /\ cmd' = IF LastCall(n) THEN NoCmd ELSE cmd
    /\ UNCHANGED <<reg, owner, resources, hw, meas, watch, healthVars,
                   conn, todo, aborted>>

\* Mutated form of PlainCallEnds: the dispatch lock is not given back.
PlainCallEndsLeaks(n, o) ==
    /\ cmd.op = "ping" \/ (cmd.op \in {"init", "align"} /\ o # "ok")
    /\ n \in cmd.at
    /\ Holds(n, "cmd")
    /\ Pop(n, o)
    /\ state' = [state EXCEPT ![n] = AfterCall(n, o)]
    /\ UNCHANGED <<reg, owner, resources, hw, meas, watch, healthVars, sessionVars>>

\* The untracked call of an IPING, or of an IINIT or IALIGN that fails: an
\* exception ends the command but is no FAULT.
PlainCallEnds(n, o) ==
    /\ cmd.op = "ping" \/ (cmd.op \in {"init", "align"} /\ o # "ok")
    /\ n \in cmd.at
    /\ Holds(n, "cmd")
    /\ Pop(n, o)
    /\ state' = [state EXCEPT ![n] = AfterCall(n, o)]
    /\ cmd' = NoCmd
    /\ UNCHANGED <<reg, owner, resources, hw, meas, watch, healthVars,
                   conn, todo, aborted>>

\* configure() returned: init(); init() returned: discover().
InitContinues(n) ==
    /\ cmd.op = "init"
    /\ n \in cmd.at
    /\ Holds(n, "cmd")
    /\ \E step \in {<<"configure", "init">>, <<"init", "discover">>} :
          /\ Head(lockq[n]).call = step[1]
          /\ PopThenEnqueue(n, "ok", DriverCall("cmd", step[2], NoRes))
    /\ UNCHANGED <<registryVars, hw, meas, watch, healthVars, sessionVars>>

\* discover() returned: READY, whatever happened to the instrument meanwhile.
InitCompletes(n) ==
    /\ cmd.op = "init"
    /\ n \in cmd.at
    /\ Holds(n, "cmd")
    /\ Head(lockq[n]).call = "discover"
    /\ Pop(n, "ok")
    /\ BecomeReady(n)
    /\ cmd' = NoCmd
    /\ UNCHANGED <<reg, owner, hw, meas, watch, healthVars, conn, todo, aborted>>

\* The same for one name of an IALIGN, which goes on to the next one and ends
\* at the first that cannot be aligned.
AlignContinues(n) ==
    /\ cmd.op = "align"
    /\ n \in cmd.at
    /\ Holds(n, "cmd")
    /\ BecomeReady(n)
    /\ Abandon(n, "ok")
    /\ \/ /\ cmd.rest = {} \/ \E m \in cmd.rest : ~Alignable(m)
          /\ lockq' = [lockq EXCEPT ![n] = Tail(@)]
          /\ cmd' = NoCmd
       \/ \E m \in cmd.rest :
             /\ Alignable(m)
             /\ lockq' = [lockq EXCEPT ![n] = Tail(@), ![m] =
                            Append(@, DriverCall("cmd", "discover", NoRes))]
             /\ cmd' = Running("align", cmd.sess, {m}, cmd.rest \ {m}, FALSE)
    /\ UNCHANGED <<reg, owner, hw, meas, watch, healthVars, conn, todo, aborted>>

-----------------------------------------------------------------------------
(* ClientHandler.close *)

\* Mutated form of CloseRelease: the loop stops after the first release.
CloseReleaseOnce(s, N) ==
    /\ \E n \in N \cap Owned(s) : ReleaseInst(n)
    /\ todo' = [todo EXCEPT ![s] = {}]
    /\ conn' = [conn EXCEPT ![s] = "closing"]
    /\ UNCHANGED <<healthVars, cmd, aborted>>

\* A round of the release loop over the names N that visits an owned one;
\* the loop is then suspended in the publications of that round.
CloseRelease(s, N) ==
    /\ \E n \in N \cap Owned(s) :
          /\ ReleaseInst(n)
          /\ todo' = [todo EXCEPT ![s] = N \ {n}]
    /\ conn' = [conn EXCEPT ![s] = "closing"]
    /\ UNCHANGED <<healthVars, cmd, aborted>>

\* The loop is over and the rest of close() runs.
CloseDone(s, raised) ==
    /\ todo' = [todo EXCEPT ![s] = {}]
    /\ conn' = [conn EXCEPT ![s] = "closed"]
    /\ aborted' = [aborted EXCEPT ![s] = raised]
    /\ UNCHANGED <<instVars, meas, watch, healthVars, cmd>>

\* The client is gone; its handler is in no command.  The names are listed
\* once, before the first suspension.
Disconnect(s) ==
    /\ conn[s] = "open"
    /\ cmd.sess # s
    /\ \/ CloseRelease(s, reg)
       \/ Owned(s) = {} /\ CloseDone(s, FALSE)

\* A round's publications are done.  A listed name that has been removed
\* meanwhile raises out of the loop.
CloseResumes(s) ==
    /\ conn[s] = "closing"
    /\ \/ CloseRelease(s, todo[s])
       \/ todo[s] \subseteq reg /\ todo[s] \cap Owned(s) = {} /\ CloseDone(s, FALSE)
       \/ ~(todo[s] \subseteq reg) /\ CloseDone(s, TRUE)

-----------------------------------------------------------------------------
CallEnds(n) ==
    \/ \E o \in Outcomes :
          \/ CallReturns(n, o)
          \/ MreadReturns(n, o)
          \/ PlainCallEnds(n, o)
          \/ HealthCallEnds(n, o) /\ UNCHANGED <<meas, watch, sessionVars>>
          \/ \E r \in Resources :
                WatchCallEnds(n, r, o) /\ UNCHANGED <<healthVars, sessionVars>>
    \/ "ok" \in Outcomes /\ \/ InitContinues(n)
                            \/ InitCompletes(n)
                            \/ AlignContinues(n)

Command(s) ==
    \/ \E n \in Names :
          \/ IADD(s, n) \/ IREMOVE(s, n) \/ IRESET(s, n)
          \/ IINIT(s, n) \/ IPING(s, n)
          \/ IRAW(s, n) \/ ISAVE(s, n) \/ ILOAD(s, n) \/ IWAIT(s, n)
          \/ \E r \in Resources :
                \/ \E m \in BOOLEAN : IREAD(s, n, r, m)
                \/ IREADRefused(s, n, r) \/ IWRITE(s, n, r)
                \/ IWATCH(s, n, r) \/ IUNWATCH(s, n, r)
    \/ \E N \in (SUBSET Names) \ {{}} :
          IALIGN(s, N) \/ ILOCK(s, N) \/ IUNLOCK(s, N) \/ IUNWATCHAll(s, N)
    \/ \E args \in Targets : IMREAD(s, args)

Hardware(n) ==
    /\ WriteLands(n) \/ OrphanEnds(n)
    /\ UNCHANGED <<meas, watch, healthVars, sessionVars>>

Guard(n) ==
    \E r \in Resources :
        /\ WatchTick(n, r) \/ GuardTrip(n, r)
        /\ UNCHANGED <<healthVars, sessionVars>>

Next ==
    \/ \E s \in Sessions : Command(s) \/ Disconnect(s) \/ CloseResumes(s)
    \/ HandleLock \/ UnlockResumes \/ UnlockAborts
    \/ \E n \in Names :
          \/ CallEnds(n)
          \/ Guard(n)
          \/ HealthTick(n) /\ UNCHANGED <<meas, watch, sessionVars>>
          \/ Hardware(n)

Spec == Init /\ [][Next]_vars

\* The watchdog ends every driver call; a publication returns, its
\* subscribers being read by clients that keep up.
Fairness ==
    /\ \A n \in Names : WF_vars(CallEnds(n))
    /\ WF_vars(HandleLock \/ UnlockResumes \/ UnlockAborts)
    /\ \A s \in Sessions : WF_vars(CloseResumes(s))

FairSpec == Spec /\ Fairness

-----------------------------------------------------------------------------
(* Properties *)

\* Types of every variable but lockq and orphan, which QueueMatchesTasks types.
TypeOK ==
    /\ InstTypeOK
    /\ MeasTypeOK
    /\ WatchTypeOK
    /\ HealthTypeOK
    /\ SessionTypeOK

\* The fields of an Instrument agree with its state whatever raced: an IDLE
\* instrument has no owner, one that nobody initialised since it was last
\* released or reset has no resources, a READY one has been discovered.
StateMatchesFields ==
    \A n \in Names :
        /\ n \notin reg => state[n] = "IDLE"
        /\ state[n] = "IDLE" => owner[n] = NoOwner
        /\ state[n] \in {"IDLE", "LOCKED"} => resources[n] = {}
        /\ state[n] = "READY" => resources[n] = Resources

\* A lock belongs to a session that is connected, or that is still going to
\* visit it in close(): disconnecting leaks no lock, unless the release loop
\* was cut short by an exception.
OwnerWillRelease ==
    \A n \in Names : \A s \in Sessions :
        owner[n] = s => \/ conn[s] = "open"
                        \/ conn[s] = "closing" /\ n \in todo[s]
                        \/ conn[s] = "closed" /\ aborted[s]

\* While a tracked driver call is in flight (IREAD, IWRITE, IMREAD, ...) the
\* ownership checked before the call still holds: no other session, no
\* disconnect and no background task takes the instrument away meanwhile.
OwnerDuringCall ==
    cmd.op \in {"call", "mread"} =>
        /\ conn[cmd.sess] = "open"
        /\ \A n \in cmd.at : n \in reg /\ owner[n] = cmd.sess

\* A guard entry exists only on an instrument somebody owns: unlocking,
\* disconnecting and removing stop the guards before the owner is gone.
GuardsOwned ==
    \A n \in Names : \A r \in Resources :
        watch[n][r] # "none" => n \in reg /\ owner[n] \in Sessions

\* How many calls of n's lock queue satisfy p.
Queued(n, p(_)) == Cardinality({i \in DOMAIN lockq[n] : p(lockq[n][i])})

\* inst._lock has exactly the waiters it should: a task in _call_driver waits
\* once, a cancelled or finished one not at all, a command only on the
\* instruments it works on, and nothing waits on a removed instrument.
QueueMatchesTasks ==
    \A n \in Names :
        /\ lockq[n] \in Seq(Entry) /\ orphan[n] \subseteq Calls
        /\ \A r \in Resources : Queued(n, LAMBDA e : e = WatchEntry(r))
              = IF watch[n][r] = "call" THEN 1 ELSE 0
        /\ Queued(n, LAMBDA e : e = PingEntry)
              = IF health[n] = "call" THEN 1 ELSE 0
        /\ LET mine == Queued(n, LAMBDA e : e.who = "cmd") IN
              /\ mine > 0 => cmd.op \notin Unqueued /\ n \in cmd.at
              /\ mine > 1 => cmd.op = "mread"
        /\ n \notin reg => lockq[n] = <<>>

\* A command that waits for the bus waits on some instrument's lock: the
\* dispatch lock is never held by a command nothing will wake.
CommandIsQueued ==
    cmd.op \notin Unqueued =>
        \E n \in cmd.at : Queued(n, LAMBDA e : e.who = "cmd") > 0

\* The ILOCK or IUNLOCK that has the dispatch lock.
Floor ==
    IF cmd.op \in {"lock", "unlock"}
    THEN [kind |-> cmd.op, by |-> cmd.sess, names |-> cmd.rest]
    ELSE [kind |-> "none", by |-> NoOwner, names |-> {}]

\* The locks seen by clients behave as LockTable promises: an ILOCK takes all the
\* instruments it names or none, and a lock is given back by an IUNLOCK of its
\* owner that names it, by the owner's leaving or by the instrument's removal.
Lease == INSTANCE LockTable
         WITH Locks <- Names, Clients <- Sessions, Nobody <- NoOwner,
              holder <- owner, connected <- {s \in Sessions : conn[s] = "open"},
              there <- reg, floor <- Floor

LeaseSpec == Lease!Spec

\* Every command gives the dispatch lock back: the watchdog bounds each driver
\* call and inst._lock is first come, first served, so guards and health pings
\* that queue again and again cannot starve it.
CommandEnds == (cmd.op # "none") ~> (cmd.op = "none")

\* Where no driver call times out, only three health pings failing in a row
\* make an instrument UNRESPONSIVE.
ThreeStrikes ==
    \A n \in Names :
        state[n] = "UNRESPONSIVE" => failures[n] = HEALTH_MAX_FAILURES

Configuring(n) == lockq[n] # <<>> /\ Head(lockq[n]).call = "configure"

\* Where the watchdog never fires and safe_state() works, no unlock leaves the
\* outputs driven and nothing drives an IDLE instrument afterwards, but for the
\* configuration file of an IINIT that was running when the owner left.  (IINIT
\* needs no lock; IdleIsSafe of BenchClaims is what the README says.)
IdleStaysSafe ==
    [][\A n \in Names :
          state'[n] = "IDLE" /\ hw'[n] = "driven"
              => state[n] = "IDLE" /\ (hw[n] = "driven" \/ Configuring(n))]_vars

\* How a broken instrument may leave its state in one step: IRESET, which keeps
\* the owner; a release by the owner, or its removal; an IINIT or IALIGN of that
\* instrument which was running when a guard or a timeout broke it.
Repaired(n) ==
    \/ state'[n] = "LOCKED" /\ owner'[n] = owner[n]
    \/ state'[n] = "IDLE" /\ owner'[n] = NoOwner /\ (owner[n] # NoOwner \/ n \notin reg')
    \/ state'[n] = "READY" /\ cmd.op \in {"init", "align"} /\ n \in cmd.at

\* A broken instrument stays broken until it is repaired: no read, write, ping
\* or guard poll that began before the fault and returns after it revives it,
\* and no ILOCK takes it.  This is what registry.reset does (it ends in LOCKED,
\* where README.md:753 says READY), and it allows the IINIT or IALIGN under way
\* to overwrite the fault, which README.md:929 does not: BenchClaims states both.
BrokenLeavesBy ==
    [][\A n \in Names :
          state[n] \in Broken /\ state'[n] \notin Broken => Repaired(n)]_vars

\* A MEAS entry claims OK only while its instrument is owned: no late read
\* revives an entry that an unlock made STALE.
MeasOkMeansOwned ==
    \A n \in Names : \A r \in Resources :
        meas[n][r] = "OK" => owner[n] # NoOwner
=============================================================================
