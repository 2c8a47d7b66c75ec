----------------------------- MODULE BenchClaims -----------------------------
(***************************************************************************)
(* Statements that the README, a docstring or a comment of the repository  *)
(* makes about the bench and that the code does not keep.  Each is refuted *)
(* by a run of its own; the runs use no more of the commands than the      *)
(* counterexample needs.                                                   *)
(***************************************************************************)
EXTENDS Bench

\* instruments.py:30, "owned, not yet initialized", and README.md:333: a
\* LOCKED instrument has an owner.  (A ping that times out on an IDLE
\* instrument makes it UNRESPONSIVE; IRESET then makes it LOCKED, by nobody.
\* ILOCK refuses it because it is not IDLE, IUNLOCK because it has no owner.)
LockedIsOwned == \A n \in Names : state[n] = "LOCKED" => owner[n] # NoOwner

\* README.md:717, "the guard runs as long as the instrument is READY": a
\* listed guard of a READY instrument has a live task.  (watch.py:132 catches
\* only DriverError around the driver's read.)
GuardRunsWhileReady ==
    \A n \in Names : \A r \in Resources :
        state[n] = "READY" => watch[n][r] # "dead"

\* README.md:929, after a fault "all subsequent commands return -FAULT until
\* IRESET": a broken instrument never becomes READY directly.  (IINIT's last
\* assignment overwrites the FAULT a guard trip set during its awaits.)
BrokenUntilReset ==
    [][\A n \in Names : state[n] \in Broken => state'[n] # "READY"]_vars

\* instruments.py:224, inst._lock "serializes all transport access ...
\* preventing concurrent access to non-thread-safe transports": while a call
\* holds the lock no other thread is in the driver.  (A thread whose await was
\* timed out or cancelled keeps running after the lock is released.)
TransportExclusive == \A n \in Names : lockq[n] # <<>> => orphan[n] = {}

\* README.md:342 and 387, disconnect releases every lock of the session.  (An
\* IREMOVE during one of close()'s publications makes registry.get raise out
\* of the loop, and the names after it stay locked by a dead session.)
ClosedOwnsNothing ==
    \A s \in Sessions : conn[s] = "closed" => Owned(s) = {}

\* README.md:751, IUNLOCK "stops all watches on the instrument before releasing
\* the lock": guards stop when the lock is released.  (_unlock_with_meas
\* stops them before the owner is checked, so an IUNLOCK that is refused has
\* already disarmed the owner's guards.)
GuardsStopWithLock ==
    [][\A n \in Names : \A r \in Resources :
          watch[n][r] # "none" /\ watch'[n][r] = "none" => owner'[n] = NoOwner]_vars

Driving(n) == lockq[n] # <<>> /\ Head(lockq[n]).call \in Drives

\* README.md:336, FAULT blocks IWRITE: no write starts on a broken instrument.
\* (_check_ready runs before the wait for inst._lock, and a guard may trip
\* while the write waits.)
FaultBlocksWrites ==
    [][\A n \in Names : ~Driving(n) /\ Driving(n)' => state[n] \notin Broken]_vars

\* README.md:54, "The server ensures instruments are never left in an undefined
\* state", and 72, "The bench is always safe": an IDLE instrument is in its safe
\* state.  (The lines of an IINIT's configuration file, sent on behalf of a
\* session that holds no lock, may land after the owner's disconnect has run
\* safe_state(); so may a write that the watchdog abandoned.)
IdleIsSafe == \A n \in Names : state[n] = "IDLE" => hw[n] = "safe"

\* README.md:753, IRESET "restores READY state": a reset that takes effect
\* leads to READY.  (registry.reset leaves the instrument LOCKED, which README.md:581
\* also says; Bench!BrokenLeavesBy states what the code does.)
ResetRestoresReady ==
    [][\A s \in Sessions : \A n \in Names :
          IRESET(s, n) => state'[n] = "READY"]_vars

\* README.md:581, IRESET "Requires owner": whoever resets an instrument owns
\* it.  (handle_instrument_reset has no _require_lock.)
ResetByOwner ==
    [][\A s \in Sessions : \A n \in Names :
          IRESET(s, n) => owner[n] = s]_vars
=============================================================================
