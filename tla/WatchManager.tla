---------------------------- MODULE WatchManager -----------------------------
(***************************************************************************)
(* testcore/watch.py: the guard tasks.  watch[n][r] is where the task that *)
(* WatchManager._watches holds for instrument n and resource r stands:     *)
(*                                                                         *)
(*   "none"   no entry                                                     *)
(*   "sleep"  in asyncio.sleep between two polls                           *)
(*   "call"   in _call_driver, queued on or holding inst._lock             *)
(*   "trip"   the value read violates a threshold; the MEAS entry is       *)
(*            written and the task awaits publish_meas_event before it     *)
(*            calls _guard_trip                                            *)
(*   "dead"   the entry is still listed but its task has ended             *)
(***************************************************************************)
EXTENDS MeasStore

VARIABLE watch

WatchPc == {"none", "sleep", "call", "trip", "dead"}

WatchTypeOK == watch \in [Names -> [Resources -> WatchPc]]

WatchInit == watch = [n \in Names |-> [r \in Resources |-> "none"]]

WatchEntry(r) == DriverCall("watch", "read", r)
WatchEntries == {WatchEntry(r) : r \in Resources}

\* WatchManager.stop: drop the entry and cancel its task.
StopWatch(n, r) ==
    /\ watch' = [watch EXCEPT ![n][r] = "none"]
    /\ Cancel({n}, {WatchEntry(r)})

\* WatchManager.stop_instrument on each instrument of N, cancelling beside the
\* guards the tasks that own the lock entries `also`.
StopInstruments(N, also) ==
    /\ watch' = [n \in Names |-> IF n \in N THEN [r \in Resources |-> "none"]
                                            ELSE watch[n]]
    /\ Cancel(N, WatchEntries \cup also)

\* WatchManager.start: replace whatever watches the resource by a new task.
StartWatch(n, r) ==
    /\ watch' = [watch EXCEPT ![n][r] = "sleep"]
    /\ Cancel({n}, {WatchEntry(r)})

-----------------------------------------------------------------------------
(* _watch_loop *)

\* The sleep is over: read if the instrument is READY, else sleep again.
WatchTick(n, r) ==
    /\ watch[n][r] = "sleep"
    /\ state[n] = "READY"
    /\ watch' = [watch EXCEPT ![n][r] = "call"]
    /\ Enqueue(n, WatchEntry(r))
    /\ UNCHANGED <<registryVars, orphan, hw, meas>>

\* The read ends.  A DriverError (the watchdog's included) is recorded and
\* polling goes on; any other exception is not caught by the loop and ends
\* the task.  A value is recorded as OK and then compared with the limits.
\* The publication of either record may raise, which ends the task as well.
WatchCallEnds(n, r, o) ==
    /\ watch[n][r] = "call"
    /\ Holds(n, "watch")
    /\ Head(lockq[n]) = WatchEntry(r)
    /\ Pop(n, o)
    /\ state' = [state EXCEPT ![n] = AfterCall(n, o)]
    /\ \/ o = "ok" /\ WriteMeas(n, r, "OK")
          /\ \E pc \in {"sleep", "trip", "dead"} : watch' = [watch EXCEPT ![n][r] = pc]
       \/ o \in {"drverr", "timeout"} /\ WriteMeas(n, r, "ERROR")
          /\ \E pc \in {"sleep", "dead"} : watch' = [watch EXCEPT ![n][r] = pc]
       \/ o = "exc" /\ UNCHANGED meas
          /\ watch' = [watch EXCEPT ![n][r] = "dead"]
    /\ UNCHANGED <<reg, owner, resources, hw>>

\* _guard_trip: safe_state (outside inst._lock, exceptions logged), FAULT,
\* MEAS GUARD_FAULT; then the loop goes on, unless a publication raises.
GuardTrip(n, r) ==
    /\ watch[n][r] = "trip"
    /\ \E ok \in SafeOutcomes : SafeState(n, ok)
    /\ state' = [state EXCEPT ![n] = "FAULT"]
    /\ WriteMeas(n, r, "GUARD_FAULT")
    /\ \E pc \in {"sleep", "dead"} : watch' = [watch EXCEPT ![n][r] = pc]
    /\ UNCHANGED <<reg, owner, resources, busVars>>
=============================================================================
