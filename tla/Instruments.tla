----------------------------- MODULE Instruments -----------------------------
(***************************************************************************)
(* The instrument registry of testcore/instruments.py: which instruments   *)
(* exist, the five-state machine and the lock owner of each, the           *)
(* per-instrument asyncio.Lock that serialises driver calls, the watchdog  *)
(* that abandons a call after its timeout, and the worker threads that an  *)
(* abandoned call leaves behind.                                           *)
(*                                                                         *)
(* The module contributes action fragments; WatchManager, HealthMonitor    *)
(* and Bench conjoin them into the steps of the running server.  A driver  *)
(* call is two steps: the caller queues on the lock (Enqueue), and later   *)
(* the call of the lock's holder ends (Pop) with one of Outcomes, after    *)
(* which the caller's code runs up to its next await in the same step.     *)
(***************************************************************************)
EXTENDS Picks

CONSTANTS
    Names,          \* instrument names that may be registered
    Resources,      \* resource names a driver may expose
    Sessions,       \* client ids
    NoOwner,        \* lock_owner = None
    NoRes,          \* the "resource" of a call that has none
    Outcomes,       \* how a driver call may end, a subset of AllOutcomes
    SafeOutcomes    \* may safe_state() succeed (TRUE), raise (FALSE)?

\* "ok": returns; "drverr": raises DriverError; "exc": raises anything else;
\* "timeout": still running when asyncio.wait_for gives up.
AllOutcomes == {"ok", "drverr", "exc", "timeout"}

ASSUME OwnerAssumption == NoOwner \notin Sessions
ASSUME ResAssumption == NoRes \notin Resources
ASSUME OutcomeAssumption == Outcomes \subseteq AllOutcomes
ASSUME SafeAssumption == SafeOutcomes \subseteq BOOLEAN

VARIABLES
    reg,        \* the keys of InstrumentRegistry._instruments
    state,      \* Instrument.state
    owner,      \* Instrument.lock_owner
    resources,  \* Instrument.resources: empty, or what discover() returned
    lockq,      \* Instrument._lock: the holder, then the waiters in order
    orphan,     \* calls whose thread outlives the await that started it
    hw          \* is the hardware driven, or in its safe state?

registryVars == <<reg, state, owner, resources>>
busVars == <<lockq, orphan>>
instVars == <<reg, state, owner, resources, lockq, orphan, hw>>

InstrumentState == {"IDLE", "LOCKED", "READY", "UNRESPONSIVE", "FAULT"}
Broken == {"FAULT", "UNRESPONSIVE"}

\* Driver methods run by _call_driver.  Those of Drives may change the outputs:
\* write, load and passthrough, and configure, which sends the instrument the
\* lines of a file.
Drives == {"write", "raw", "load", "configure"}
Calls == Drives \cup {"read", "save", "wait", "ping", "init", "discover"}

\* One _call_driver in progress: on whose behalf, and which driver method.
Entry == [who : {"cmd", "watch", "health"}, call : Calls,
          res : Resources \cup {NoRes}]

InstTypeOK ==
    /\ reg \subseteq Names
    /\ state \in [Names -> InstrumentState]
    /\ owner \in [Names -> Sessions \cup {NoOwner}]
    /\ resources \in [Names -> SUBSET Resources]
    /\ hw \in [Names -> {"safe", "driven"}]

InstInit ==
    /\ reg = {}
    /\ state = [n \in Names |-> "IDLE"]
    /\ owner = [n \in Names |-> NoOwner]
    /\ resources = [n \in Names |-> {}]
    /\ lockq = [n \in Names |-> <<>>]
    /\ orphan = [n \in Names |-> {}]
    /\ hw = [n \in Names |-> "safe"]

-----------------------------------------------------------------------------
(* The registry and the state machine *)

\* InstrumentRegistry.add: the driver connected; the new object is IDLE and
\* unowned.  (A connect() that raises leaves nothing behind.)
Add(n) ==
    /\ n \notin reg
    /\ reg' = reg \cup {n}
    /\ state' = [state EXCEPT ![n] = "IDLE"]
    /\ owner' = [owner EXCEPT ![n] = NoOwner]
    /\ resources' = [resources EXCEPT ![n] = {}]

\* driver.safe_state(), called synchronously from the event loop: it either
\* brings the outputs to their safe state or raises and leaves them alone.
SafeState(n, ok) == hw' = [hw EXCEPT ![n] = IF ok THEN "safe" ELSE @]

\* InstrumentRegistry.remove, from any state: safe_state and disconnect are
\* attempted, their exceptions logged, and the object is dropped.
Remove(n) ==
    /\ n \in reg
    /\ \E ok \in SafeOutcomes : SafeState(n, ok)
    /\ reg' = reg \ {n}
    /\ state' = [state EXCEPT ![n] = "IDLE"]
    /\ owner' = [owner EXCEPT ![n] = NoOwner]
    /\ resources' = [resources EXCEPT ![n] = {}]

\* Mutated forms of Unlock: resources not cleared; owner not cleared;
\* safe_state() not called.
UnlockKeepsResources(n) ==
    /\ \E ok \in SafeOutcomes :
          /\ SafeState(n, ok)
          /\ state' = [state EXCEPT ![n] = IF ok THEN "IDLE" ELSE "FAULT"]
    /\ owner' = [owner EXCEPT ![n] = NoOwner]
    /\ UNCHANGED <<reg, resources>>

UnlockKeepsOwner(n) ==
    /\ \E ok \in SafeOutcomes :
          /\ SafeState(n, ok)
          /\ state' = [state EXCEPT ![n] = IF ok THEN "IDLE" ELSE "FAULT"]
    /\ resources' = [resources EXCEPT ![n] = {}]
    /\ UNCHANGED <<reg, owner>>

UnlockWithoutSafeState(n) ==
    /\ state' = [state EXCEPT ![n] = "IDLE"]
    /\ owner' = [owner EXCEPT ![n] = NoOwner]
    /\ resources' = [resources EXCEPT ![n] = {}]
    /\ UNCHANGED <<reg, hw>>

\* InstrumentRegistry.unlock by the owner: IDLE, or FAULT when safe_state
\* raises; the owner and the resource list are cleared on both paths.
Unlock(n) ==
    /\ \E ok \in SafeOutcomes :
          /\ SafeState(n, ok)
          /\ state' = [state EXCEPT ![n] = IF ok THEN "IDLE" ELSE "FAULT"]
    /\ owner' = [owner EXCEPT ![n] = NoOwner]
    /\ resources' = [resources EXCEPT ![n] = {}]
    /\ UNCHANGED reg

\* InstrumentRegistry.reset: disconnect, reconnect, LOCKED.  (A connect()
\* that raises leaves the state as it was.)
Reset(n) ==
    /\ n \in reg
    /\ state[n] \in Broken
    /\ state' = [state EXCEPT ![n] = "LOCKED"]
    /\ resources' = [resources EXCEPT ![n] = {}]
    /\ UNCHANGED <<reg, owner>>

\* The end of init_instrument and align, after discover() returned.
BecomeReady(n) ==
    /\ state' = [state EXCEPT ![n] = "READY"]
    /\ resources' = [resources EXCEPT ![n] = Resources]

-----------------------------------------------------------------------------
(* _call_driver: the per-instrument lock and the watchdog *)

DriverCall(who, call, r) == [who |-> who, call |-> call, res |-> r]

\* Mutated form of Enqueue: newcomers overtake those who wait.
EnqueueFirst(n, e) ==
    lockq' = [lockq EXCEPT ![n] =
                IF @ = <<>> THEN <<e>> ELSE <<Head(@), e>> \o Tail(@)]

\* `async with inst._lock`: wait behind whoever holds the lock or waits for
\* it.  asyncio.Lock is first in, first out.
Enqueue(n, e) == lockq' = [lockq EXCEPT ![n] = Append(@, e)]

Holds(n, who) == lockq[n] # <<>> /\ Head(lockq[n]).who = who

\* The call of the lock's holder ends with outcome o and the lock passes to
\* the next waiter.  A call that timed out leaves its thread running.
Abandon(n, o) ==
    orphan' = [orphan EXCEPT ![n] =
                 IF o = "timeout" THEN @ \cup {Head(lockq[n]).call} ELSE @]

Pop(n, o) ==
    /\ lockq' = [lockq EXCEPT ![n] = Tail(@)]
    /\ Abandon(n, o)

\* The same, the caller going straight back to the end of the queue with e.
PopThenEnqueue(n, o, e) ==
    /\ lockq' = [lockq EXCEPT ![n] = Append(Tail(@), e)]
    /\ Abandon(n, o)

\* Mutated form of Cancel: the task stays queued.
CancelNothing(N, gone) == UNCHANGED busVars

\* task.cancel() on the tasks that own the entries `gone` of instruments N:
\* a waiter leaves the queue; a holder releases the lock, its thread runs on.
Cancel(N, gone) ==
    /\ lockq' = [n \in Names |->
                   IF n \in N THEN Without(lockq[n], gone) ELSE lockq[n]]
    /\ orphan' = [n \in Names |->
                   IF n \in N /\ lockq[n] # <<>> /\ Head(lockq[n]) \in gone
                   THEN orphan[n] \cup {Head(lockq[n]).call}
                   ELSE orphan[n]]

\* Mutated form of AfterCall: a MEAS status stored as the state.
AfterCallStatus(n, o) == IF o = "timeout" THEN "TIMEOUT" ELSE state[n]

\* State after _call_driver: the watchdog marks the instrument.
AfterCall(n, o) == IF o = "timeout" THEN "UNRESPONSIVE" ELSE state[n]

\* Mutated form of AfterTrackedCall: a call that succeeds reports READY.
AfterTrackedCallRevives(n, o) ==
    CASE o = "ok" -> "READY" [] o = "exc" -> "FAULT" [] OTHER -> AfterCall(n, o)

\* State after _tracked_call: an unexpected exception is a FAULT as well.
AfterTrackedCall(n, o) == IF o = "exc" THEN "FAULT" ELSE AfterCall(n, o)

\* Lines that a running call of Drives sends (the lock holder's, or one the
\* watchdog abandoned) reach the hardware.
WriteLands(n) ==
    /\ \/ lockq[n] # <<>> /\ Head(lockq[n]).call \in Drives
       \/ orphan[n] \cap Drives # {}
    /\ hw' = [hw EXCEPT ![n] = "driven"]
    /\ UNCHANGED <<registryVars, busVars>>

\* The last abandoned thread of a kind returns; nobody waits for its result.
OrphanEnds(n) ==
    /\ \E c \in orphan[n] : orphan' = [orphan EXCEPT ![n] = @ \ {c}]
    /\ UNCHANGED <<registryVars, lockq, hw>>

-----------------------------------------------------------------------------
(* Guards *)

\* _require_lock (commands.py) and _check_ready.
RequireLock(n, s) == n \in reg /\ owner[n] = s
CheckReady(n) == state[n] = "READY"
=============================================================================
